---------------------------- MODULE MCTimerLoop ----------------------------
(* Two timers that can start each other, themselves or none. *)
EXTENDS TimerLoop, TLC

CONSTANTS t1, t2
=============================================================================
