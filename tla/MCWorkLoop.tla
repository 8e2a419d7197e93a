----------------------------- MODULE MCWorkLoop -----------------------------
(* Model values for the checks of WorkLoop.  Workers and requests are      *)
(* interchangeable, so the runs that check invariants only may use both    *)
(* symmetries; the runs with temporal properties use none.                 *)
EXTENDS WorkLoop

Symmetry == Permutations(Threads) \cup Permutations(Reqs)
=============================================================================
