---------------------------- MODULE WorkService ----------------------------
(***************************************************************************)
(* What apc_add_work promises: an abstract work service.  No threads, no   *)
(* mutex, no pipe: a request waits in `pending`, is in `running`, then     *)
(* waits in `finished` for the loop, which delivers it to its callback.    *)
(***************************************************************************)
EXTENDS Naturals, Sequences, FiniteSets, SequencesExt

CONSTANTS Reqs, Capacity

VARIABLES pending, running, finished

vars == <<pending, running, finished>>

Outstanding == ToSet(pending) \cup running \cup ToSet(finished)

Init == pending = <<>> /\ running = {} /\ finished = <<>>

Submit(r) ==
    /\ r \notin Outstanding
    /\ pending' = Append(pending, r)
    /\ UNCHANGED <<running, finished>>

Start ==
    /\ pending # <<>>
    /\ Cardinality(running) < Capacity
    /\ running' = running \cup {Head(pending)}
    /\ pending' = Tail(pending)
    /\ UNCHANGED finished

Finish(r) ==
    /\ r \in running
    /\ running' = running \ {r}
    /\ finished' = Append(finished, r)
    /\ UNCHANGED pending

Deliver ==
    /\ finished # <<>>
    /\ finished' = Tail(finished)
    /\ UNCHANGED <<pending, running>>

Next ==
    \/ \E r \in Reqs : Submit(r) \/ Finish(r)
    \/ Start
    \/ Deliver

Spec == Init /\ [][Next]_vars

(* Work functions return, and a service with work to start or to deliver   *)
(* does so; nothing forces a submission.                                   *)
Fairness ==
    /\ WF_vars(Start)
    /\ WF_vars(Deliver)
    /\ \A r \in Reqs : WF_vars(Finish(r))

FairSpec == Spec /\ Fairness
=============================================================================
