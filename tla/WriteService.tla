---------------------------- MODULE WriteService ----------------------------
(***************************************************************************)
(* What apc_tcp_write and apc_udp_write promise: the writes accepted on a  *)
(* handle are called back in the order they were made, each exactly once,  *)
(* with success, with an error or because the handle was closed.           *)
(***************************************************************************)
EXTENDS Sequences, SequencesExt

CONSTANTS Handles, Reqs

VARIABLE pending            \* the writes of each handle not called back yet

Init == pending = [h \in Handles |-> <<>>]

Write(h, r) == /\ \A g \in Handles : r \notin ToSet(pending[g])
               /\ pending' = [pending EXCEPT ![h] = Append(@, r)]

CallBack(h) == /\ pending[h] # <<>>
               /\ pending' = [pending EXCEPT ![h] = Tail(@)]

Next == \E h \in Handles : CallBack(h) \/ \E r \in Reqs : Write(h, r)

Spec == Init /\ [][Next]_pending
=============================================================================
