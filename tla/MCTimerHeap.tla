---------------------------- MODULE MCTimerHeap ----------------------------
(* Nodes are numbers and come in their order, so that every order in which *)
(* timers with different ends can be started and stopped is covered.       *)
EXTENDS TimerHeap

MCNode == 1..7
MCBefore(a, b) == a < b
=============================================================================
