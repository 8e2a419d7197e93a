---------------------------- MODULE PriorityQueue ----------------------------
(***************************************************************************)
(* What the timer heap promises to the loop: a set of nodes of which the   *)
(* one that comes before all others can be looked at.  Nodes are compared  *)
(* by Before, a strict total order (timer_cmp orders timers by end and     *)
(* then by id, and no two started timers have the same id).                *)
(***************************************************************************)
CONSTANTS Node, NULL, Before(_, _)

VARIABLES members,      \* the nodes that were inserted and not yet removed
          first         \* what heap_peek_head returns

First(S) == IF S = {} THEN NULL
            ELSE CHOOSE n \in S : \A m \in S \ {n} : Before(n, m)

Init == members = {} /\ first = NULL

Insert(n) == /\ n \notin members
             /\ members' = members \cup {n}
             /\ first' = First(members')

Remove(n) == /\ n \in members
             /\ members' = members \ {n}
             /\ first' = First(members')

Next == \E n \in Node : Insert(n) \/ Remove(n)

Spec == Init /\ [][Next]_<<members, first>>
==============================================================================
