------------------------------ MODULE TimerHeap ------------------------------
(***************************************************************************)
(* common/heap.c: a binary heap of nodes linked by left, right and parent  *)
(* pointers.  The heap is a value h of the record type Heap; an operation  *)
(* of the file is an operator from the heap before to the heap after, and  *)
(* each call is one step (the heap is only used by the loop's own thread). *)
(* The sift loops are recursive functions of the number of rounds: as many *)
(* as there are nodes, which is enough for the condition to be false in    *)
(* the end (TimerHeap_proofs), and a round after that changes nothing.     *)
(*                                                                         *)
(* The pointers of a node outside the heap are never read (apc_timer_init  *)
(* does not even set them): here they are NULL, and heap_insert is given   *)
(* a node whose pointers hold anything.                                    *)
(***************************************************************************)
EXTENDS Naturals, FiniteSets

CONSTANTS Node, NULL, Before(_, _)      \* Before(a, b): heap->cmp(a, b) = 1

(* timer_cmp orders by end, and by id, which no two started timers share.  *)
ASSUME HeapAssumption ==
    /\ NULL \notin Node
    /\ \A a, b \in Node : Before(a, b) \in BOOLEAN
    /\ \A a, b \in Node : Before(a, b) => ~Before(b, a)
    /\ \A a, b \in Node : a # b => Before(a, b) \/ Before(b, a)
    /\ \A a, b, c \in Node : Before(a, b) /\ Before(b, c) => Before(a, c)

VARIABLE heap

Ptr == Node \cup {NULL}
Heap == [head : Ptr, nr_nodes : Nat,
         left : [Node -> Ptr], right : [Node -> Ptr], parent : [Node -> Ptr]]

heap_init == [head |-> NULL, nr_nodes |-> 0,
              left |-> [n \in Node |-> NULL], right |-> [n \in Node |-> NULL],
              parent |-> [n \in Node |-> NULL]]

(* A store through a pointer that may be NULL and is then skipped. *)
Store(f, n, x) == IF n = NULL THEN f ELSE [f EXCEPT ![n] = x]

(* Mutant: the head is not moved. *)
Relink_no_head(h, up, old, new) ==
    IF up = NULL THEN h
    ELSE IF h.left[up] = old THEN [h EXCEPT !.left[up] = new]
    ELSE [h EXCEPT !.right[up] = new]

(* Whatever pointed down to "old" from node "up" (the head if there is no  *)
(* such node) points to "new" from now on.                                 *)
Relink(h, up, old, new) ==
    IF up = NULL THEN [h EXCEPT !.head = new]
    ELSE IF h.left[up] = old THEN [h EXCEPT !.left[up] = new]
    ELSE [h EXCEPT !.right[up] = new]

(* child and its parent exchange their places; all the links around them   *)
(* follow.                                                                 *)
heap_swap_nodes(h, child, parent) ==
    LET up == h.parent[parent]
        onLeft == h.left[parent] = child
        sibling == IF onLeft THEN h.right[parent] ELSE h.left[parent]
        below == [h EXCEPT
            !.left = [@ EXCEPT ![parent] = h.left[child],
                               ![child] = IF onLeft THEN parent ELSE sibling],
            !.right = [@ EXCEPT ![parent] = h.right[child],
                                ![child] = IF onLeft THEN sibling ELSE parent],
            !.parent = Store(Store(Store(
                           [@ EXCEPT ![child] = up, ![parent] = child],
                           sibling, child), h.left[child], parent),
                           h.right[child], parent)]
    IN Relink(below, up, parent, child)

(* Sift up. *)
SiftUp(h, start) ==
    LET up == h.parent[start] IN
    IF up # NULL /\ Before(start, up) THEN heap_swap_nodes(h, start, up) ELSE h

heap_decrease(h, start) ==
    LET after[i \in 0..h.nr_nodes] == IF i = 0 THEN h ELSE SiftUp(after[i - 1], start)
    IN  after[h.nr_nodes]

(* Mutant: the right child is compared with the node, not with the left. *)
FirstOf_right(h, n) ==
    LET l == h.left[n]
        r == h.right[n]
        tmp == IF l # NULL /\ ~Before(n, l) THEN l ELSE n
    IN IF r # NULL /\ ~Before(n, r) THEN r ELSE tmp

(* The node that comes first among n and its children. *)
FirstOf(h, n) ==
    LET l == h.left[n]
        r == h.right[n]
        tmp == IF l # NULL /\ ~Before(n, l) THEN l ELSE n
    IN IF r # NULL /\ ~Before(tmp, r) THEN r ELSE tmp

(* Sift down. *)
SiftDown(h, start) ==
    LET tmp == FirstOf(h, start) IN
    IF tmp = start THEN h ELSE heap_swap_nodes(h, tmp, start)

heap_heapify(h, start) ==
    LET after[i \in 0..h.nr_nodes] == IF i = 0 THEN h ELSE SiftDown(after[i - 1], start)
    IN  after[h.nr_nodes]

(* The slots are numbered by levels from 1 at the root: the bits of k      *)
(* after the leading one are the path to slot k, most significant first.   *)
Slot(h, k) ==
    LET slot[i \in 1..k] == IF i = 1 THEN h.head
                            ELSE IF i % 2 = 1 THEN h.right[slot[i \div 2]]
                            ELSE h.left[slot[i \div 2]]
    IN  slot[k]

(* Write x into the pointer that is slot k. *)
SetSlot(h, k, x) ==
    IF k = 1 THEN [h EXCEPT !.head = x]
    ELSE LET up == Slot(h, k \div 2)
         IN IF k % 2 = 1 THEN [h EXCEPT !.right = [@ EXCEPT ![up] = x]]
                         ELSE [h EXCEPT !.left = [@ EXCEPT ![up] = x]]

(* The three pointers of node n. *)
Pointing(h, n, l, r, up) ==
    [h EXCEPT !.left = [@ EXCEPT ![n] = l], !.right = [@ EXCEPT ![n] = r],
              !.parent = [@ EXCEPT ![n] = up]]

(* new becomes a leaf in the first free slot. *)
Attach(h, new) ==
    LET k == h.nr_nodes + 1
        up == IF k = 1 THEN NULL ELSE Slot(h, k \div 2)
    IN [SetSlot(Pointing(h, new, NULL, NULL, up), k, new) EXCEPT !.nr_nodes = k]

heap_insert(h, new) == heap_decrease(Attach(h, new), new)

(* The last slot is given up. *)
Cut(h) == [SetSlot(h, h.nr_nodes, NULL) EXCEPT !.nr_nodes = @ - 1]

(* tmp, taken out of the last slot, gets the links of node and its place.  *)
TakePlace(h, tmp, node) ==
    LET l == h.left[node]
        r == h.right[node]
        up == h.parent[node]
        placed == Pointing(h, tmp, l, r, up)
    IN Relink([placed EXCEPT !.parent = Store(Store(@, l, tmp), r, tmp)], up, node, tmp)

(* Mutant: sift down only, as in a heap that only gives up its head. *)
heap_remove_down_only(h, node) ==
    LET tmp == Slot(h, h.nr_nodes) IN
    IF h.nr_nodes = 0 THEN h
    ELSE IF tmp = node THEN Cut(h)
    ELSE heap_heapify(TakePlace(Cut(h), tmp, node), tmp)

heap_remove(h, node) ==
    LET tmp == Slot(h, h.nr_nodes) IN
    IF h.nr_nodes = 0 THEN h
    ELSE IF tmp = node THEN Cut(h)
    ELSE heap_decrease(heap_heapify(TakePlace(Cut(h), tmp, node), tmp), tmp)

------------------------------------------------------------------------------
(* The nodes that can be reached from the head: those in every set that    *)
(* has the head and with each node its children.                           *)
Below(h) == {S \in SUBSET Node : /\ h.head \in S \cup {NULL}
                                 /\ \A n \in S : {h.left[n], h.right[n]} \subseteq S \cup {NULL}}
Members == {n \in Node : \A S \in Below(heap) : n \in S}

Init == heap = heap_init

(* timer.c inserts a node that is not in the heap and removes one that is. *)
WithPointers(h, n, x) == Pointing(h, n, x, x, x)

InsertNode(n) ==
    /\ n \notin Members
    /\ \E junk \in Ptr : heap' = heap_insert(WithPointers(heap, n, junk), n)

RemoveNode(n) ==
    /\ n \in Members
    /\ heap' = WithPointers(heap_remove(heap, n), n, NULL)

Next == \E n \in Node : InsertNode(n) \/ RemoveNode(n)

Spec == Init /\ [][Next]_heap

------------------------------------------------------------------------------
(* heap_swap_nodes, heap_insert and heap_remove leave a complete binary    *)
(* tree: the slots 1 to nr_nodes and no others hold nodes, each node in    *)
(* one slot, and every parent pointer is the inverse of the down link.     *)
(* The path computation of the next call relies on it.  This is the type   *)
(* of the heap, too: a pointer leads to a node or nowhere.                 *)
HeapShape ==
    LET Slots == 1..heap.nr_nodes IN
    /\ heap \in Heap
    /\ {Slot(heap, k) : k \in Slots} = Members
    /\ Cardinality(Members) = heap.nr_nodes
    /\ \A k \in Slots : heap.parent[Slot(heap, k)] =
                            IF k = 1 THEN NULL ELSE Slot(heap, k \div 2)

(* The sift loops restore the order: no node comes before its parent, so   *)
(* that the next heap_peek_head after any removal is right too.            *)
HeapOrder == \A n \in Members :
                heap.parent[n] # NULL => ~Before(n, heap.parent[n])

Queue == INSTANCE PriorityQueue WITH members <- Members, first <- heap.head

(* heap_insert, heap_remove and heap_peek_head implement the priority      *)
(* queue the loop expects: every call adds or removes its own node and no  *)
(* other, and the head is the node that comes before all others.           *)
ImplementsQueue == Queue!Spec

==============================================================================
