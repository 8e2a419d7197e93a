----------------------------- MODULE FileService -----------------------------
(***************************************************************************)
(* What the file functions promise: the operations issued on a file are    *)
(* called back in the order they were issued, each once, however many      *)
(* threads and files there are.                                            *)
(***************************************************************************)
EXTENDS Sequences, SequencesExt

CONSTANTS Files, Reqs, FileOf

VARIABLE todo               \* the operations of each file that are not finished

vars == <<todo>>

Init == todo = [f \in Files |-> <<>>]

Issue(r) == LET f == FileOf[r] IN
            /\ r \notin ToSet(todo[f])
            /\ todo' = [todo EXCEPT ![f] = Append(@, r)]

CallBack(f) == /\ todo[f] # <<>>
               /\ todo' = [todo EXCEPT ![f] = Tail(@)]

Next == (\E r \in Reqs : Issue(r)) \/ (\E f \in Files : CallBack(f))

Spec == Init /\ [][Next]_vars
==============================================================================
