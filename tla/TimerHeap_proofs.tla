-------------------------- MODULE TimerHeap_proofs --------------------------
(***************************************************************************)
(* The timer heap is a complete binary tree in heap order, and implements  *)
(* the priority queue.                                                     *)
(*                                                                         *)
(* The proofs speak of an array: the heap h is laid out as a[1], ..., a[n] *)
(* when node a[k] is in slot k and every pointer leads where the numbers   *)
(* say, left to slot 2k, right to slot 2k+1, up to slot k \div 2.  Each    *)
(* operation of heap.c is shown to do to the pointers what a simple        *)
(* operation does to the array, and the order is argued on the array.      *)
(***************************************************************************)
EXTENDS TimerHeap, Lemmas

(* What slot k holds. *)
At(a, n, k) == IF k \in 1..n THEN a[k] ELSE NULL

Injective(a, n) == \A i, j \in 1..n : a[i] = a[j] => i = j

Links(h, a, n) ==
    /\ h.head = At(a, n, 1)
    /\ \A k \in 1..n : /\ h.left[a[k]] = At(a, n, 2 * k)
                       /\ h.right[a[k]] = At(a, n, 2 * k + 1)
                       /\ h.parent[a[k]] = At(a, n, k \div 2)

Laid(h, a, n) ==
    /\ h \in Heap /\ n \in Nat
    /\ a \in [1..n -> Node] /\ Injective(a, n)
    /\ Links(h, a, n)

(* Two slots exchange their nodes. *)
Exchange(a, i, j) == [a EXCEPT ![i] = a[j], ![j] = a[i]]

LEMMA NullOutside == NULL \notin Node
  BY HeapAssumption

(* The children of slot i. *)
LEMMA Halves ==
    ASSUME NEW k \in Nat, k # 0
    PROVE  /\ k \div 2 \in Nat /\ k \div 2 < k
           /\ k > 1 => k \div 2 > 0
           /\ k % 2 = 1 => k = 2 * (k \div 2) + 1
           /\ k % 2 # 1 => k = 2 * (k \div 2)
           /\ \A i \in Nat : k \div 2 = i <=> k = 2 * i \/ k = 2 * i + 1
  OBVIOUS

LEMMA HalfOf ==
    ASSUME NEW n, NEW k \in 1..n, NEW i \in 1..n
    PROVE  k \div 2 = i <=> k = 2 * i \/ k = 2 * i + 1
  OBVIOUS

(* What Relink and Store leave in every pointer. *)
LEMMA RelinkFields ==
    ASSUME NEW h \in Heap, NEW up \in Ptr, NEW old, NEW new \in Node,
           NEW g, g = Relink(h, up, old, new)
    PROVE  /\ g \in Heap /\ g.nr_nodes = h.nr_nodes /\ g.parent = h.parent
           /\ g.head = IF up = NULL THEN new ELSE h.head
           /\ \A x \in Node : g.left[x] = IF x = up /\ h.left[x] = old THEN new ELSE h.left[x]
           /\ \A x \in Node : g.right[x] = IF x = up /\ h.left[x] # old THEN new ELSE h.right[x]
<1>1. h.left \in [Node -> Ptr] /\ h.right \in [Node -> Ptr] /\ NULL \notin Node /\ new \in Ptr
  BY NullOutside DEF Heap, Ptr
<1>2. CASE up = NULL
  <2>1. g = [h EXCEPT !.head = new]
    BY <1>2 DEF Relink
  <2>2. /\ g \in Heap /\ g.nr_nodes = h.nr_nodes /\ g.parent = h.parent
        /\ g.head = new /\ g.left = h.left /\ g.right = h.right
    BY <1>1, <2>1 DEF Heap
  <2> QED
    BY <1>1, <1>2, <2>2
<1>3. CASE up # NULL /\ h.left[up] = old
  <2> DEFINE L == [h.left EXCEPT ![up] = new]
  <2>1. g = [h EXCEPT !.left = L]
    BY <1>3 DEF Relink
  <2>2. L \in [Node -> Ptr] /\ \A x \in Node : L[x] = IF x = up THEN new ELSE h.left[x]
    BY <1>1
  <2> HIDE DEF L
  <2>3. /\ g \in Heap /\ g.nr_nodes = h.nr_nodes /\ g.parent = h.parent
        /\ g.head = h.head /\ g.left = L /\ g.right = h.right
    BY <2>1, <2>2 DEF Heap
  <2> QED
    BY <1>3, <2>2, <2>3
<1>4. CASE up # NULL /\ h.left[up] # old
  <2> DEFINE R == [h.right EXCEPT ![up] = new]
  <2>1. g = [h EXCEPT !.right = R]
    BY <1>4 DEF Relink
  <2>2. R \in [Node -> Ptr] /\ \A x \in Node : R[x] = IF x = up THEN new ELSE h.right[x]
    BY <1>1
  <2> HIDE DEF R
  <2>3. /\ g \in Heap /\ g.nr_nodes = h.nr_nodes /\ g.parent = h.parent
        /\ g.head = h.head /\ g.left = h.left /\ g.right = R
    BY <2>1, <2>2 DEF Heap
  <2> QED
    BY <1>4, <2>2, <2>3
<1> QED
  BY <1>2, <1>3, <1>4

Pointers == [Node -> Ptr]

(* g is f but for node n, if there is one. *)
Stored(g, f, n, y) == \A x \in Node : g[x] = IF x = n THEN y ELSE f[x]

LEMMA StoreFields ==
    ASSUME NEW f \in Pointers, NEW n \in Ptr, NEW y \in Ptr
    PROVE  Store(f, n, y) \in Pointers /\ Stored(Store(f, n, y), f, n, y)
  BY NullOutside DEF Store, Stored, Ptr, Pointers

(* What heap_swap_nodes leaves in every pointer. *)
LEMMA SwapFields ==
    ASSUME NEW h \in Heap, NEW c \in Node, NEW p \in Node, c # p,
           NEW up, up = h.parent[p], up # p, up # c,
           NEW sib, sib = (IF h.left[p] = c THEN h.right[p] ELSE h.left[p]),
           NEW g, g = heap_swap_nodes(h, c, p)
    PROVE  /\ g \in Heap /\ g.nr_nodes = h.nr_nodes
           /\ g.head = IF up = NULL THEN c ELSE h.head
           /\ \A x \in Node :
                 g.left[x] = IF x = p THEN h.left[c]
                             ELSE IF x = c THEN (IF h.left[p] = c THEN p ELSE sib)
                             ELSE IF x = up /\ h.left[x] = p THEN c
                             ELSE h.left[x]
           /\ \A x \in Node :
                 g.right[x] = IF x = p THEN h.right[c]
                              ELSE IF x = c THEN (IF h.left[p] = c THEN sib ELSE p)
                              ELSE IF x = up /\ h.left[x] # p THEN c
                              ELSE h.right[x]
           /\ \A x \in Node :
                 g.parent[x] = IF x = h.right[c] \/ x = h.left[c] THEN p
                               ELSE IF x = sib \/ x = p THEN c
                               ELSE IF x = c THEN up
                               ELSE h.parent[x]
<1>1. /\ h.left \in [Node -> Ptr] /\ h.right \in [Node -> Ptr] /\ h.parent \in [Node -> Ptr]
      /\ h.head \in Ptr /\ h.nr_nodes \in Nat
  BY DEF Heap
<1>2. /\ sib \in Ptr /\ up \in Ptr /\ h.left[c] \in Ptr /\ h.right[c] \in Ptr
      /\ p # NULL /\ c # NULL
  BY <1>1, NullOutside DEF Ptr
<1> DEFINE L == [h.left EXCEPT ![p] = h.left[c], ![c] = IF h.left[p] = c THEN p ELSE sib]
           R == [h.right EXCEPT ![p] = h.right[c], ![c] = IF h.left[p] = c THEN sib ELSE p]
           P0 == [h.parent EXCEPT ![c] = up, ![p] = c]
           P1 == Store(P0, sib, c)
           P2 == Store(P1, h.left[c], p)
           P3 == Store(P2, h.right[c], p)
           below == [h EXCEPT !.left = L, !.right = R, !.parent = P3]
<1>3. g = Relink(below, up, p, c)
  BY <1>1 DEF heap_swap_nodes
<1>4. /\ P3 \in [Node -> Ptr]
      /\ \A x \in Node : P3[x] = IF x = h.right[c] \/ x = h.left[c] THEN p
                                 ELSE IF x = sib \/ x = p THEN c
                                 ELSE IF x = c THEN up
                                 ELSE h.parent[x]
  <2>1. P0 \in Pointers
    BY <1>1, <1>2 DEF Ptr, Pointers
  <2>5. \A x \in Node : P0[x] = IF x = p THEN c ELSE IF x = c THEN up ELSE h.parent[x]
    BY <1>1
  <2>2. c \in Ptr /\ p \in Ptr
    BY DEF Ptr
  <2> HIDE DEF P0
  <2>6. P1 \in Pointers /\ Stored(P1, P0, sib, c)
    BY <1>2, <2>1, <2>2, StoreFields
  <2> HIDE DEF P1
  <2>7. P2 \in Pointers /\ Stored(P2, P1, h.left[c], p)
    BY <1>2, <2>2, <2>6, StoreFields
  <2> HIDE DEF P2
  <2>8. P3 \in Pointers /\ Stored(P3, P2, h.right[c], p)
    BY <1>2, <2>2, <2>7, StoreFields
  <2> HIDE DEF P3
  <2> QED
    BY <2>5, <2>6, <2>7, <2>8 DEF Pointers, Stored
<1>5. L \in [Node -> Ptr] /\ R \in [Node -> Ptr]
  BY <1>1, <1>2 DEF Ptr
<1>6. \A x \in Node : /\ L[x] = IF x = p THEN h.left[c]
                                ELSE IF x = c THEN (IF h.left[p] = c THEN p ELSE sib)
                                ELSE h.left[x]
                      /\ R[x] = IF x = p THEN h.right[c]
                                ELSE IF x = c THEN (IF h.left[p] = c THEN sib ELSE p)
                                ELSE h.right[x]
  BY <1>1
<1> HIDE DEF L, R, P3
<1>7. /\ below \in Heap /\ below.left = L /\ below.right = R /\ below.parent = P3
      /\ below.head = h.head /\ below.nr_nodes = h.nr_nodes
  BY <1>1, <1>4, <1>5 DEF Heap
<1> HIDE DEF below
<1>8. /\ g \in Heap /\ g.nr_nodes = below.nr_nodes /\ g.parent = below.parent
      /\ g.head = IF up = NULL THEN c ELSE below.head
      /\ \A x \in Node : g.left[x] = IF x = up /\ below.left[x] = p THEN c ELSE below.left[x]
      /\ \A x \in Node : g.right[x] = IF x = up /\ below.left[x] # p THEN c ELSE below.right[x]
  BY <1>2, <1>3, <1>7, RelinkFields
<1> QED
  BY <1>4, <1>6, <1>7, <1>8

(* heap_swap_nodes exchanges the nodes of a slot and of one below it. *)
LEMMA SwapLaid ==
    ASSUME NEW h, NEW a, NEW n, Laid(h, a, n),
           NEW i \in 1..n, NEW j \in 1..n, j \div 2 = i
    PROVE  /\ Laid(heap_swap_nodes(h, a[j], a[i]), Exchange(a, i, j), n)
           /\ heap_swap_nodes(h, a[j], a[i]).nr_nodes = h.nr_nodes
<1> DEFINE c == a[j]
           p == a[i]
           up == At(a, n, i \div 2)
           s == IF j = 2 * i THEN 2 * i + 1 ELSE 2 * i
           sib == At(a, n, s)
           b == Exchange(a, i, j)
<1> HIDE DEF c, p, up, sib, b
<1>0. n \in Nat /\ i \in Nat /\ j \in Nat /\ h \in Heap /\ a \in [1..n -> Node]
  BY DEF Laid
<1>1. /\ j = 2 * i \/ j = 2 * i + 1
      /\ i # j /\ i \div 2 # i /\ i \div 2 # j /\ i \div 2 \in Nat
      /\ s # i /\ s # j /\ s \in Nat
  BY <1>0
<1>2. c \in Node /\ p \in Node /\ c # p /\ c # NULL /\ p # NULL
  BY <1>0, <1>1, NullOutside DEF Laid, Injective, c, p
<1>3. /\ \A k \in 1..n : a[k] = c <=> k = j
      /\ \A k \in 1..n : a[k] = p <=> k = i
  BY <1>0 DEF Laid, Injective, c, p
<1>4. \A k : /\ At(a, n, k) = c <=> k = j
             /\ At(a, n, k) = p <=> k = i
  BY <1>2, <1>3 DEF At, c, p
<1>5. /\ h.left[p] = At(a, n, 2 * i) /\ h.right[p] = At(a, n, 2 * i + 1) /\ h.parent[p] = up
      /\ h.left[c] = At(a, n, 2 * j) /\ h.right[c] = At(a, n, 2 * j + 1)
  BY DEF Laid, Links, c, p, up
<1>6. up # p /\ up # c /\ (up = NULL <=> i = 1)
  <2>1. i \div 2 \in 1..n <=> i # 1
    BY <1>0
  <2>2. \A k \in 1..n : a[k] # NULL
    BY <1>0, NullOutside
  <2> QED
    BY <1>1, <1>4, <2>1, <2>2 DEF up, At
<1>7. h.left[p] = c <=> j = 2 * i
  BY <1>4, <1>5
<1>8. sib = IF h.left[p] = c THEN h.right[p] ELSE h.left[p]
  BY <1>1, <1>5, <1>7 DEF sib
<1> DEFINE g == heap_swap_nodes(h, c, p)
<1>8a. (j = 2 * i => s = 2 * i + 1) /\ (j # 2 * i => s = 2 * i)
  OBVIOUS
<1> HIDE DEF s, g
<1>9. /\ g \in Heap /\ g.nr_nodes = h.nr_nodes
      /\ g.head = IF up = NULL THEN c ELSE h.head
      /\ \A x \in Node :
                 g.left[x] = IF x = p THEN h.left[c]
                             ELSE IF x = c THEN (IF h.left[p] = c THEN p ELSE sib)
                             ELSE IF x = up /\ h.left[x] = p THEN c
                             ELSE h.left[x]
      /\ \A x \in Node :
                 g.right[x] = IF x = p THEN h.right[c]
                              ELSE IF x = c THEN (IF h.left[p] = c THEN sib ELSE p)
                              ELSE IF x = up /\ h.left[x] # p THEN c
                              ELSE h.right[x]
      /\ \A x \in Node :
                 g.parent[x] = IF x = h.right[c] \/ x = h.left[c] THEN p
                               ELSE IF x = sib \/ x = p THEN c
                               ELSE IF x = c THEN up
                               ELSE h.parent[x]
  BY <1>0, <1>2, <1>5, <1>6, <1>8, SwapFields DEF g
<1>10. /\ b \in [1..n -> Node]
       /\ \A k \in 1..n : b[k] = IF k = i THEN c ELSE IF k = j THEN p ELSE a[k]
  BY <1>0, <1>1 DEF b, Exchange, c, p
<1>11. Injective(b, n)
  BY <1>3, <1>10 DEF Laid, Injective
<1>12. /\ At(b, n, i) = c /\ At(b, n, j) = p
       /\ \A k : k # i /\ k # j => At(b, n, k) = At(a, n, k)
  BY <1>1, <1>10 DEF At
<1>13. g.head = At(b, n, 1)
  <2>1. h.head = At(a, n, 1) /\ j # 1
    BY <1>0 DEF Laid, Links
  <2>2. CASE i = 1
    BY <1>6, <1>9, <1>12, <2>2
  <2>3. CASE i # 1
    BY <1>6, <1>9, <1>12, <2>1, <2>3
  <2> QED
    BY <2>2, <2>3
<1>14. ASSUME NEW k \in 1..n
       PROVE  /\ g.left[b[k]] = At(b, n, 2 * k)
              /\ g.right[b[k]] = At(b, n, 2 * k + 1)
              /\ g.parent[b[k]] = At(b, n, k \div 2)
  <2>0. /\ h.left[a[k]] = At(a, n, 2 * k) /\ h.right[a[k]] = At(a, n, 2 * k + 1)
        /\ h.parent[a[k]] = At(a, n, k \div 2)
        /\ a[k] \in Node /\ k \in Nat
    BY <1>0 DEF Laid, Links
  <2>1. CASE k = i
    <3>1. b[k] = c
      BY <1>10, <2>1
    <3>2. h.right[c] # c /\ h.left[c] # c /\ sib # c
      <4>1. 2 * j # j /\ 2 * j + 1 # j
        BY <1>0
      <4> QED
        BY <1>1, <1>4, <1>5, <4>1 DEF sib
    <3>3. g.parent[c] = up /\ At(b, n, k \div 2) = up
      BY <1>1, <1>2, <1>9, <1>12, <2>1, <3>2 DEF up
    <3>4. CASE j = 2 * i
      <4>1. s = 2 * i + 1
        BY <3>4 DEF s
      <4>2. g.left[c] = p /\ g.right[c] = sib
        BY <1>2, <1>7, <1>9, <3>4
      <4> QED
        BY <1>1, <1>12, <2>1, <3>1, <3>3, <3>4, <4>1, <4>2 DEF sib
    <3>5. CASE j # 2 * i
      <4>1. s = 2 * i /\ j = 2 * i + 1
        BY <1>1, <3>5 DEF s
      <4>2. g.left[c] = sib /\ g.right[c] = p
        BY <1>2, <1>7, <1>9, <3>5
      <4> QED
        BY <1>1, <1>12, <2>1, <3>1, <3>3, <4>1, <4>2 DEF sib
    <3> QED
      BY <3>4, <3>5
  <2>2. CASE k = j
    <3>1. b[k] = p
      BY <1>1, <1>10, <2>2
    <3>2. /\ 2 * j # i /\ 2 * j # j /\ 2 * j + 1 # i /\ 2 * j + 1 # j
      BY <1>0, <1>1
    <3>3. g.left[p] = h.left[c] /\ g.right[p] = h.right[c]
      BY <1>2, <1>9
    <3>4. h.right[c] # p /\ h.left[c] # p
      BY <1>4, <1>5, <3>2
    <3>5. g.parent[p] = c
      BY <1>2, <1>9, <3>4
    <3> QED
      BY <1>5, <1>12, <2>2, <3>1, <3>2, <3>3, <3>5
  <2>3. CASE k # i /\ k # j
    <3>1. b[k] = a[k] /\ a[k] # c /\ a[k] # p
      BY <1>3, <1>10, <2>3
    <3>2. a[k] = up <=> k = i \div 2
      <4>1. i \div 2 \in 1..n \/ i = 1
        BY <1>0
      <4>2. i = 1 => i \div 2 # k
        BY <2>0
      <4> QED
        BY <1>0, <1>6, <2>0, <4>1, <4>2, NullOutside DEF up, At, Laid, Injective
    <3>3. h.left[a[k]] = p <=> 2 * k = i
      BY <1>4, <2>0
    <3>4. CASE k = i \div 2
      <4>1. i = 2 * k \/ i = 2 * k + 1
        BY <1>0, <2>0, <3>4
      <4>2. 2 * k # j /\ 2 * k + 1 # j
        BY <1>0, <1>1, <2>0, <3>4
      <4>3. /\ g.left[a[k]] = At(b, n, 2 * k) /\ g.right[a[k]] = At(b, n, 2 * k + 1)
        <5>1. CASE i = 2 * k
          <6>1. 2 * k + 1 # i
            BY <2>0, <5>1
          <6> QED
            BY <1>9, <1>12, <2>0, <3>1, <3>2, <3>3, <3>4, <4>2, <5>1, <6>1
        <5>2. CASE i = 2 * k + 1
          <6>1. 2 * k # i
            BY <2>0, <5>2
          <6> QED
            BY <1>9, <1>12, <2>0, <3>1, <3>2, <3>3, <3>4, <4>2, <5>2, <6>1
        <5> QED
          BY <4>1, <5>1, <5>2
      <4> QED
        <5>1. k \div 2 # i /\ k \div 2 # j
          BY <1>0, <2>0, <3>4, <1>1
        <5>2. a[k] # h.left[c] /\ a[k] # h.right[c] /\ a[k] # sib
          <6>0. k < i /\ i < j
            <7>1. \A m \in Nat : m # 0 => m \div 2 < m
              BY Halves
            <7> QED
              BY <1>0, <3>4, <7>1
          <6>1. k # 2 * j /\ k # 2 * j + 1 /\ k # 2 * i /\ k # 2 * i + 1
            BY <1>0, <2>0, <6>0
          <6>2. k # s
            BY <1>1, <1>8a, <6>1
          <6> QED
            BY <1>0, <1>5, <2>0, <6>1, <6>2, NullOutside DEF At, Laid, Injective, sib
        <5>3. g.parent[a[k]] = At(b, n, k \div 2)
          BY <1>9, <1>12, <2>0, <3>1, <5>1, <5>2
        <5> QED
          BY <3>1, <4>3, <5>3
    <3>5. CASE k # i \div 2
      <4>1. 2 * k # i /\ 2 * k + 1 # i /\ 2 * k # j /\ 2 * k + 1 # j
        BY <1>0, <1>1, <2>0, <2>3, <3>5
      <4>2. g.left[a[k]] = At(b, n, 2 * k) /\ g.right[a[k]] = At(b, n, 2 * k + 1)
        BY <1>9, <1>12, <2>0, <3>1, <3>2, <3>5, <4>1
      <4>3. /\ a[k] = h.left[c] <=> k = 2 * j
            /\ a[k] = h.right[c] <=> k = 2 * j + 1
            /\ a[k] = sib <=> k = s
        BY <1>0, <1>5, <2>0, NullOutside DEF At, Laid, Injective, sib
      <4>4. /\ k \div 2 = j <=> k = 2 * j \/ k = 2 * j + 1
            /\ k \div 2 = i <=> k = s
        <5>1. /\ k \div 2 = j <=> k = 2 * j \/ k = 2 * j + 1
              /\ k \div 2 = i <=> k = 2 * i \/ k = 2 * i + 1
          BY HalfOf
        <5> QED
          BY <1>1, <1>8a, <2>3, <5>1
      <4>5. g.parent[a[k]] = At(b, n, k \div 2)
        BY <1>1, <1>9, <1>12, <2>0, <3>1, <4>3, <4>4
      <4> QED
        BY <3>1, <4>2, <4>5
    <3> QED
      BY <3>4, <3>5
  <2> QED
    BY <2>1, <2>2, <2>3
<1>15. Laid(g, b, n)
  BY <1>0, <1>9, <1>10, <1>11, <1>13, <1>14 DEF Laid, Links
<1> QED
  BY <1>9, <1>15 DEF g, b, c, p

(* Induction on the number of a slot. *)
LEMMA SlotInduction ==
    ASSUME NEW n \in Nat, NEW T,
           \A k \in 1..n : (k > 1 => k \div 2 \in T) => k \in T
    PROVE  \A k \in 1..n : k \in T
<1> DEFINE U == {m \in 0..n : \A k \in 1..m : k \in T}
<1>1. 0 \in U
  OBVIOUS
<1>2. ASSUME NEW m \in 1..n, m - 1 \in U PROVE m \in U
  <2>1. \A k \in 1..(m - 1) : k \in T
    BY <1>2
  <2>2. m > 1 => m \div 2 \in 1..(m - 1)
    OBVIOUS
  <2>3. m \in T
    BY <2>1, <2>2
  <2>4. \A k \in 1..m : k = m \/ k \in 1..(m - 1)
    OBVIOUS
  <2> QED
    BY <2>1, <2>3, <2>4
<1>3. n \in U
  <2>1. \A m \in 1..n : m - 1 \in U => m \in U
    BY <1>2
  <2> HIDE DEF U
  <2>2. \A m \in 0..n : m \in U
    BY <1>1, <2>1, UpTo
  <2> QED
    BY <2>2
<1> QED
  BY <1>3

(* The path to slot k ends there. *)
LEMMA SlotLaid ==
    ASSUME NEW h, NEW a, NEW n, Laid(h, a, n), NEW k \in 1..n
    PROVE  Slot(h, k) = a[k]
<1>0. n \in Nat /\ k \in Nat /\ a \in [1..n -> Node]
  BY DEF Laid
<1> DEFINE Step(f, i) == IF i = 1 THEN h.head
                         ELSE IF i % 2 = 1 THEN h.right[f[i \div 2]]
                         ELSE h.left[f[i \div 2]]
           Path(f) == f = [i \in 1..k |-> Step(f, i)]
           slot == CHOOSE f : Path(f)
           w == [i \in 1..k |-> a[i]]
<1>1. h.head = a[1]
  BY <1>0 DEF Laid, Links, At
<1>2. ASSUME NEW i \in 1..k, i # 1
      PROVE  /\ i \div 2 \in 1..k
             /\ i % 2 = 1 => h.right[a[i \div 2]] = a[i]
             /\ i % 2 # 1 => h.left[a[i \div 2]] = a[i]
  <2>1. i \div 2 \in 1..k /\ i \div 2 \in 1..n /\ i \in 1..n
    BY <1>0, <1>2
  <2>2. /\ i % 2 = 1 => i = 2 * (i \div 2) + 1
        /\ i % 2 # 1 => i = 2 * (i \div 2)
    BY <1>0
  <2>3. /\ h.left[a[i \div 2]] = At(a, n, 2 * (i \div 2))
        /\ h.right[a[i \div 2]] = At(a, n, 2 * (i \div 2) + 1)
    BY <2>1 DEF Laid, Links
  <2> QED
    BY <2>1, <2>2, <2>3 DEF At
<1>3. ASSUME NEW i \in 1..k PROVE Step(w, i) = a[i]
  <2>1. CASE i = 1
    BY <1>1, <2>1
  <2>2. CASE i # 1
    BY <1>2, <2>2
  <2> QED
    BY <2>1, <2>2
<1>4. Path(w)
  BY <1>3
<1>5. Path(slot)
  <2> HIDE DEF Path, w
  <2> QED
    BY <1>4
<1>6. Slot(h, k) = slot[k]
  BY DEF Slot
<1> HIDE DEF slot, w
<1>7. \A i \in 1..k : slot[i] = Step(slot, i)
  BY <1>5
<1> HIDE DEF Path
<1> DEFINE T == {i \in 1..k : slot[i] = a[i]}
<1>8. ASSUME NEW i \in 1..k, i > 1 => i \div 2 \in T PROVE i \in T
  <2>1. CASE i = 1
    BY <1>1, <1>7, <2>1
  <2>2. CASE i # 1
    <3>1. slot[i \div 2] = a[i \div 2]
      BY <1>0, <1>8, <2>2
    <3> QED
      BY <1>2, <1>7, <2>2, <3>1
  <2> QED
    BY <2>1, <2>2
<1> HIDE DEF Step
<1>9. \A i \in 1..k : i \in T
  <2>1. \A i \in 1..k : (i > 1 => i \div 2 \in T) => i \in T
    BY <1>8
  <2> HIDE DEF T
  <2> QED
    BY <1>0, <2>1, SlotInduction
<1> QED
  BY <1>0, <1>6, <1>9

(* The nodes that can be reached. *)
Reached(h) == {x \in Node : \A S \in Below(h) : x \in S}

LEMMA ReachedLaid ==
    ASSUME NEW h, NEW a, NEW n, Laid(h, a, n)
    PROVE  Reached(h) = {a[k] : k \in 1..n}
<1> DEFINE A == {a[k] : k \in 1..n}
<1>0. n \in Nat /\ a \in [1..n -> Node] /\ A \subseteq Node
  BY DEF Laid
<1>1. A \in Below(h)
  <2>1. \A k : At(a, n, k) \in A \cup {NULL}
    BY DEF At
  <2>2. ASSUME NEW x \in A PROVE {h.left[x], h.right[x]} \subseteq A \cup {NULL}
    <3>1. PICK k \in 1..n : x = a[k]
      OBVIOUS
    <3>2. h.left[x] = At(a, n, 2 * k) /\ h.right[x] = At(a, n, 2 * k + 1)
      BY <3>1 DEF Laid, Links
    <3> HIDE DEF A
    <3> QED
      BY <2>1, <3>2
  <2>3. h.head \in A \cup {NULL}
    BY <2>1 DEF Laid, Links
  <2> HIDE DEF A
  <2> QED
    BY <1>0, <2>2, <2>3 DEF Below
<1>2. ASSUME NEW S \in Below(h), NEW x \in A PROVE x \in S
  <2>0. /\ S \subseteq Node /\ h.head \in S \cup {NULL}
        /\ \A y \in S : {h.left[y], h.right[y]} \subseteq S \cup {NULL}
    BY DEF Below
  <2> DEFINE T == {k \in 1..n : a[k] \in S}
  <2>1. ASSUME NEW k \in 1..n, k > 1 => k \div 2 \in T PROVE k \in T
    <3>0. a[k] # NULL /\ k \in Nat
      BY <1>0, NullOutside
    <3>1. CASE k = 1
      <4>1. h.head = a[k]
        BY <3>1 DEF Laid, Links, At
      <4> QED
        BY <2>0, <3>0, <4>1
    <3>2. CASE k # 1
      <4>1. k \div 2 \in T /\ k \div 2 \in 1..n
        BY <1>0, <2>1, <3>2
      <4>2. k = 2 * (k \div 2) \/ k = 2 * (k \div 2) + 1
        BY <3>0
      <4>3. /\ h.left[a[k \div 2]] = At(a, n, 2 * (k \div 2))
            /\ h.right[a[k \div 2]] = At(a, n, 2 * (k \div 2) + 1)
        BY <4>1 DEF Laid, Links
      <4>4. a[k] \in {h.left[a[k \div 2]], h.right[a[k \div 2]]}
        BY <4>2, <4>3 DEF At
      <4> QED
        BY <2>0, <3>0, <4>1, <4>4
    <3> QED
      BY <3>1, <3>2
  <2>2. \A k \in 1..n : k \in T
    <3>1. \A k \in 1..n : (k > 1 => k \div 2 \in T) => k \in T
      BY <2>1
    <3> HIDE DEF T
    <3> QED
      BY <1>0, <3>1, SlotInduction
  <2> QED
    BY <2>2
<1> HIDE DEF A
<1>3. Reached(h) \subseteq A
  BY <1>1 DEF Reached
<1>4. A \subseteq Reached(h)
  BY <1>0, <1>2 DEF Reached
<1>5. Reached(h) = A
  BY <1>3, <1>4
<1> QED
  BY <1>5 DEF A

LEMMA CountLaid ==
    ASSUME NEW h, NEW a, NEW n, Laid(h, a, n)
    PROVE  Cardinality({a[k] : k \in 1..n}) = n
<1> DEFINE A == {a[k] : k \in 1..n}
<1>0. n \in Nat /\ a \in [1..n -> Node]
  BY DEF Laid
<1>1. a \in Bijection(1..n, A)
  BY <1>0 DEF Laid, Injective, Bijection, Injection, Surjection, IsInjective
<1>2. ExistsBijection(1..n, A)
  BY <1>1 DEF ExistsBijection
<1> HIDE DEF A
<1>3. Cardinality(A) = n
  BY <1>0, <1>2, FS_CountingElements
<1> QED
  BY <1>3 DEF A

(* A node outside the heap can have any pointers. *)
Aside(g, h, x, l, r, up) ==
    /\ g.nr_nodes = h.nr_nodes /\ g.head = h.head
    /\ g.left[x] = l /\ g.right[x] = r /\ g.parent[x] = up
    /\ \A y \in Node : y # x => /\ g.left[y] = h.left[y] /\ g.right[y] = h.right[y]
                                /\ g.parent[y] = h.parent[y]

LEMMA OutsideLaid ==
    ASSUME NEW h, NEW a, NEW n, Laid(h, a, n),
           NEW x \in Node, x \notin {a[k] : k \in 1..n},
           NEW l \in Ptr, NEW r \in Ptr, NEW up \in Ptr,
           NEW g, g = Pointing(h, x, l, r, up)
    PROVE  Laid(g, a, n) /\ Aside(g, h, x, l, r, up)
<1> DEFINE L == [h.left EXCEPT ![x] = l]
           R == [h.right EXCEPT ![x] = r]
           P == [h.parent EXCEPT ![x] = up]
<1>1. g = [h EXCEPT !.left = L, !.right = R, !.parent = P]
  BY DEF Pointing
<1>2. h \in Heap /\ a \in [1..n -> Node]
  BY DEF Laid
<1>3. /\ L \in [Node -> Ptr] /\ R \in [Node -> Ptr] /\ P \in [Node -> Ptr]
      /\ \A y \in Node : y # x => /\ L[y] = h.left[y] /\ R[y] = h.right[y]
                                  /\ P[y] = h.parent[y]
      /\ L[x] = l /\ R[x] = r /\ P[x] = up
  BY <1>2 DEF Heap
<1> HIDE DEF L, R, P
<1>4. /\ g \in Heap /\ g.left = L /\ g.right = R /\ g.parent = P
      /\ g.nr_nodes = h.nr_nodes /\ g.head = h.head
  BY <1>1, <1>2, <1>3 DEF Heap
<1>5. \A k \in 1..n : a[k] \in Node /\ a[k] # x
  BY <1>2
<1>6. Laid(g, a, n)
  BY <1>3, <1>4, <1>5 DEF Laid, Links
<1> QED
  BY <1>3, <1>4, <1>6 DEF Aside

(* The number of nodes is not part of the layout. *)
LEMMA CountChanged ==
    ASSUME NEW h \in Heap, NEW m \in Nat, NEW g, g = [h EXCEPT !.nr_nodes = m]
    PROVE  /\ g \in Heap /\ g.nr_nodes = m /\ g.head = h.head
           /\ g.left = h.left /\ g.right = h.right /\ g.parent = h.parent
  BY DEF Heap

LEMMA SameLinks ==
    ASSUME NEW h, NEW a, NEW n, Laid(h, a, n), NEW g \in Heap,
           g.head = h.head, g.left = h.left, g.right = h.right, g.parent = h.parent
    PROVE  Laid(g, a, n)
  BY DEF Laid, Links

(* The array with x in one more slot. *)
Longer(a, n, x) == [k \in 1..(n + 1) |-> IF k = n + 1 THEN x ELSE a[k]]

(* A pointer changes in the node of slot i, or the head. *)
LEMMA SetSlotFields ==
    ASSUME NEW h, NEW a, NEW n, Laid(h, a, n), NEW k \in 1..(n + 1), NEW x \in Ptr,
           NEW g, g = SetSlot(h, k, x)
    PROVE  /\ g \in Heap /\ g.nr_nodes = h.nr_nodes /\ g.parent = h.parent
           /\ g.head = IF k = 1 THEN x ELSE h.head
           /\ \A y \in Node : g.left[y] = IF k > 1 /\ k % 2 # 1 /\ y = a[k \div 2]
                                          THEN x ELSE h.left[y]
           /\ \A y \in Node : g.right[y] = IF k > 1 /\ k % 2 = 1 /\ y = a[k \div 2]
                                           THEN x ELSE h.right[y]
<1>0. /\ n \in Nat /\ k \in Nat /\ a \in [1..n -> Node] /\ h \in Heap
      /\ h.left \in [Node -> Ptr] /\ h.right \in [Node -> Ptr]
  BY DEF Laid, Heap
<1>1. CASE k = 1
  <2>1. g = [h EXCEPT !.head = x]
    BY <1>1 DEF SetSlot
  <2>2. /\ g \in Heap /\ g.nr_nodes = h.nr_nodes /\ g.parent = h.parent
        /\ g.head = x /\ g.left = h.left /\ g.right = h.right
    BY <1>0, <2>1 DEF Heap
  <2> QED
    BY <1>1, <2>2
<1>2. CASE k # 1
  <2>1. k \div 2 \in 1..n /\ k > 1
    BY <1>0, <1>2
  <2> DEFINE up == a[k \div 2]
  <2>2. Slot(h, k \div 2) = up /\ up \in Node
    BY <1>0, <2>1, SlotLaid
  <2> HIDE DEF up
  <2>3. CASE k % 2 = 1
    <3> DEFINE R == [h.right EXCEPT ![up] = x]
    <3>1. R \in [Node -> Ptr] /\ \A y \in Node : R[y] = IF y = up THEN x ELSE h.right[y]
      BY <1>0, <2>2
    <3>2. g = [h EXCEPT !.right = R]
      BY <1>2, <2>2, <2>3 DEF SetSlot
    <3> HIDE DEF R
    <3>3. /\ g \in Heap /\ g.nr_nodes = h.nr_nodes /\ g.parent = h.parent
          /\ g.head = h.head /\ g.left = h.left /\ g.right = R
      BY <1>0, <3>1, <3>2 DEF Heap
    <3> QED
      BY <1>2, <2>1, <2>3, <3>1, <3>3 DEF up
  <2>4. CASE k % 2 # 1
    <3> DEFINE L == [h.left EXCEPT ![up] = x]
    <3>1. L \in [Node -> Ptr] /\ \A y \in Node : L[y] = IF y = up THEN x ELSE h.left[y]
      BY <1>0, <2>2
    <3>2. g = [h EXCEPT !.left = L]
      BY <1>2, <2>2, <2>4 DEF SetSlot
    <3> HIDE DEF L
    <3>3. /\ g \in Heap /\ g.nr_nodes = h.nr_nodes /\ g.parent = h.parent
          /\ g.head = h.head /\ g.left = L /\ g.right = h.right
      BY <1>0, <3>1, <3>2 DEF Heap
    <3> QED
      BY <1>2, <2>1, <2>4, <3>1, <3>3 DEF up
  <2> QED
    BY <2>3, <2>4
<1> QED
  BY <1>1, <1>2

(* A node outside the heap becomes its last. *)
LEMMA AttachLaid ==
    ASSUME NEW h, NEW a, NEW n, Laid(h, a, n), h.nr_nodes = n,
           NEW x \in Node, x \notin {a[k] : k \in 1..n}
    PROVE  /\ Laid(Attach(h, x), Longer(a, n, x), n + 1)
           /\ Attach(h, x).nr_nodes = n + 1
<1> DEFINE k == n + 1
           up == IF k = 1 THEN NULL ELSE Slot(h, k \div 2)
           f == Pointing(h, x, NULL, NULL, up)
           g == SetSlot(f, k, x)
           b == Longer(a, n, x)
<1>0. n \in Nat /\ k \in Nat /\ a \in [1..n -> Node] /\ x \in Ptr /\ NULL \in Ptr /\ k \in 1..(n + 1)
  BY DEF Laid, Ptr
<1>1. Attach(h, x) = [g EXCEPT !.nr_nodes = k]
  BY DEF Attach
<1>2. up = At(a, n, k \div 2) /\ up \in Ptr
  <2>1. CASE k = 1
    BY <1>0, <2>1 DEF At
  <2>2. CASE k # 1
    <3>1. k \div 2 \in 1..n
      BY <1>0, <2>2
    <3> QED
      BY <1>0, <2>2, <3>1, SlotLaid DEF At, Ptr
  <2> QED
    BY <2>1, <2>2
<1> HIDE DEF up
<1>3. /\ Laid(f, a, n) /\ f.nr_nodes = n /\ f.head = h.head
      /\ f.left[x] = NULL /\ f.right[x] = NULL /\ f.parent[x] = up
  <2>1. f = Pointing(h, x, NULL, NULL, up)
    OBVIOUS
  <2>2. NULL \in Ptr /\ up \in Ptr
    BY <1>0, <1>2
  <2> HIDE DEF f, k, g, b
  <2>3. Laid(f, a, n) /\ Aside(f, h, x, NULL, NULL, up)
    BY <2>1, <2>2, OutsideLaid
  <2> QED
    BY <2>3 DEF Aside
<1> HIDE DEF f
<1>4. /\ g \in Heap /\ g.nr_nodes = f.nr_nodes /\ g.parent = f.parent
      /\ g.head = IF k = 1 THEN x ELSE f.head
      /\ \A y \in Node : g.left[y] = IF k > 1 /\ k % 2 # 1 /\ y = a[k \div 2]
                                     THEN x ELSE f.left[y]
      /\ \A y \in Node : g.right[y] = IF k > 1 /\ k % 2 = 1 /\ y = a[k \div 2]
                                      THEN x ELSE f.right[y]
  BY <1>0, <1>3, SetSlotFields
<1> HIDE DEF g
<1>5. /\ b \in [1..k -> Node] /\ b[k] = x
      /\ \A i \in 1..n : b[i] = a[i] /\ a[i] \in Node /\ a[i] # x
  BY <1>0 DEF Longer
<1>6. \A i \in 1..k : i = k \/ i \in 1..n
  BY <1>0
<1>7. Injective(b, k)
  BY <1>3, <1>5, <1>6 DEF Laid, Injective
<1>8. /\ At(b, k, k) = x
      /\ \A i : i # k => At(b, k, i) = At(a, n, i)
  BY <1>0, <1>5, <1>6 DEF At
<1>9. g.head = At(b, k, 1)
  <2>1. f.head = At(a, n, 1)
    BY <1>3 DEF Laid, Links
  <2> QED
    BY <1>4, <1>8, <2>1
<1>10. ASSUME NEW i \in 1..k
       PROVE  /\ g.left[b[i]] = At(b, k, 2 * i)
              /\ g.right[b[i]] = At(b, k, 2 * i + 1)
              /\ g.parent[b[i]] = At(b, k, i \div 2)
  <2>1. CASE i = k
    <3>1. k > 1 => a[k \div 2] # x
      BY <1>0, <1>5
    <3>2. g.left[x] = NULL /\ g.right[x] = NULL /\ g.parent[x] = up
      BY <1>3, <1>4, <3>1
    <3>3. At(b, k, 2 * k) = NULL /\ At(b, k, 2 * k + 1) = NULL /\ k \div 2 # k
      BY <1>0 DEF At
    <3> QED
      BY <1>2, <1>5, <1>8, <2>1, <3>2, <3>3
  <2>2. CASE i # k
    <3>0. i \in 1..n
      BY <1>6, <2>2
    <3>1. /\ f.left[a[i]] = At(a, n, 2 * i) /\ f.right[a[i]] = At(a, n, 2 * i + 1)
          /\ f.parent[a[i]] = At(a, n, i \div 2) /\ b[i] = a[i] /\ a[i] \in Node
      BY <1>3, <1>5, <3>0 DEF Laid, Links
    <3>2. i \div 2 # k
      BY <1>0, <3>0
    <3>3. k > 1 => (a[i] = a[k \div 2] <=> i = k \div 2)
      <4>1. k > 1 => k \div 2 \in 1..n
        BY <1>0
      <4> QED
        BY <3>0, <4>1 DEF Laid, Injective
    <3>4. 2 * i = k <=> k > 1 /\ k % 2 # 1 /\ i = k \div 2
      BY <1>0, <3>0
    <3>5. 2 * i + 1 = k <=> k > 1 /\ k % 2 = 1 /\ i = k \div 2
      <4>1. i \in Nat /\ i > 0
        BY <1>0, <3>0
      <4>2. k % 2 = 1 => k = 2 * (k \div 2) + 1
        BY <1>0
      <4>3. 2 * i + 1 = k => k % 2 = 1 /\ k \div 2 = i
        BY <1>0, <4>1
      <4> QED
        BY <1>0, <4>1, <4>2, <4>3
    <3>6. g.left[a[i]] = At(b, k, 2 * i)
      BY <1>4, <1>8, <3>1, <3>3, <3>4
    <3>7. g.right[a[i]] = At(b, k, 2 * i + 1)
      BY <1>4, <1>8, <3>1, <3>3, <3>5
    <3> QED
      BY <1>4, <1>8, <3>1, <3>2, <3>6, <3>7
  <2> QED
    BY <2>1, <2>2
<1>11. Laid(g, b, k)
  BY <1>0, <1>4, <1>5, <1>7, <1>9, <1>10 DEF Laid, Links
<1> DEFINE e == Attach(h, x)
<1>12. /\ e \in Heap /\ e.nr_nodes = k /\ e.head = g.head
       /\ e.left = g.left /\ e.right = g.right /\ e.parent = g.parent
  <2> HIDE DEF e, k
  <2> QED
    BY <1>0, <1>1, <1>4, CountChanged DEF e
<1> HIDE DEF e, b
<1>13. Laid(e, b, k)
  BY <1>11, <1>12, SameLinks
<1> QED
  BY <1>12, <1>13 DEF e, b

(* The array without its last slot. *)
Shorter(a, n) == [k \in 1..(n - 1) |-> a[k]]

LEMMA CutLaid ==
    ASSUME NEW h, NEW a, NEW n, Laid(h, a, n), h.nr_nodes = n, n # 0
    PROVE  /\ Laid(Cut(h), Shorter(a, n), n - 1)
           /\ Cut(h).nr_nodes = n - 1
<1> DEFINE m == n - 1
           b == Shorter(a, n)
           g == SetSlot(h, n, NULL)
           e == Cut(h)
<1>0. n \in Nat /\ m \in Nat /\ n > 0 /\ a \in [1..n -> Node] /\ n \in 1..(n + 1) /\ NULL \in Ptr
  BY DEF Laid, Ptr
<1>1. e = [g EXCEPT !.nr_nodes = g.nr_nodes - 1]
  BY DEF Cut
<1> HIDE DEF g, e
<1>2. /\ g \in Heap /\ g.nr_nodes = n /\ g.parent = h.parent
      /\ g.head = IF n = 1 THEN NULL ELSE h.head
      /\ \A y \in Node : g.left[y] = IF n > 1 /\ n % 2 # 1 /\ y = a[n \div 2]
                                     THEN NULL ELSE h.left[y]
      /\ \A y \in Node : g.right[y] = IF n > 1 /\ n % 2 = 1 /\ y = a[n \div 2]
                                      THEN NULL ELSE h.right[y]
  <2> HIDE DEF m, b
  <2> QED
    BY <1>0, SetSlotFields DEF g
<1>3. e = [g EXCEPT !.nr_nodes = m]
  BY <1>1, <1>2
<1>4. /\ b \in [1..m -> Node]
      /\ \A k \in 1..m : b[k] = a[k] /\ k \in 1..n /\ k # n /\ a[k] \in Node
  BY <1>0 DEF Shorter
<1> HIDE DEF b
<1>5. Injective(b, m)
  BY <1>4 DEF Laid, Injective
<1>6. /\ At(b, m, n) = NULL
      /\ \A i : i # n => At(b, m, i) = At(a, n, i)
  <2>1. \A i : i \in 1..m <=> i \in 1..n /\ i # n
    BY <1>0
  <2> QED
    BY <1>4, <2>1 DEF At
<1>7. g.head = At(b, m, 1)
  <2>1. h.head = At(a, n, 1)
    BY DEF Laid, Links
  <2> QED
    BY <1>2, <1>6, <2>1
<1>8. ASSUME NEW i \in 1..m
      PROVE  /\ g.left[b[i]] = At(b, m, 2 * i)
             /\ g.right[b[i]] = At(b, m, 2 * i + 1)
             /\ g.parent[b[i]] = At(b, m, i \div 2)
  <2>1. i \in Nat /\ i > 0 /\ i \div 2 # n /\ i \in 1..n
    BY <1>0
  <2>2. /\ h.left[a[i]] = At(a, n, 2 * i) /\ h.right[a[i]] = At(a, n, 2 * i + 1)
        /\ h.parent[a[i]] = At(a, n, i \div 2)
    BY <2>1 DEF Laid, Links
  <2>3. n > 1 => (a[i] = a[n \div 2] <=> i = n \div 2)
    <3>1. n > 1 => n \div 2 \in 1..n
      BY <1>0
    <3> QED
      BY <2>1, <3>1 DEF Laid, Injective
  <2>4. 2 * i = n <=> n > 1 /\ n % 2 # 1 /\ i = n \div 2
    BY <1>0, <2>1
  <2>5. 2 * i + 1 = n <=> n > 1 /\ n % 2 = 1 /\ i = n \div 2
    <3>1. n % 2 = 1 => n = 2 * (n \div 2) + 1
      BY <1>0
    <3>2. 2 * i + 1 = n => n % 2 = 1 /\ n \div 2 = i
      BY <1>0, <2>1
    <3> QED
      BY <1>0, <2>1, <3>1, <3>2
  <2>6. g.left[a[i]] = At(b, m, 2 * i)
    BY <1>2, <1>4, <1>6, <2>2, <2>3, <2>4
  <2>7. g.right[a[i]] = At(b, m, 2 * i + 1)
    BY <1>2, <1>4, <1>6, <2>2, <2>3, <2>5
  <2> QED
    BY <1>2, <1>4, <1>6, <2>1, <2>2, <2>6, <2>7
<1>9. Laid(g, b, m)
  BY <1>0, <1>2, <1>4, <1>5, <1>7, <1>8 DEF Laid, Links
<1> HIDE DEF m
<1>10. /\ e \in Heap /\ e.nr_nodes = m /\ e.head = g.head
       /\ e.left = g.left /\ e.right = g.right /\ e.parent = g.parent
  BY <1>0, <1>2, <1>3, CountChanged
<1>11. Laid(e, b, m)
  BY <1>9, <1>10, SameLinks
<1> QED
  BY <1>10, <1>11 DEF e, b, m

(* A node from outside takes the place of the node in slot i. *)
LEMMA TakePlaceLaid ==
    ASSUME NEW h, NEW a, NEW n, Laid(h, a, n), NEW i \in 1..n,
           NEW x \in Node, x \notin {a[k] : k \in 1..n}
    PROVE  /\ Laid(TakePlace(h, x, a[i]), [a EXCEPT ![i] = x], n)
           /\ TakePlace(h, x, a[i]).nr_nodes = h.nr_nodes
<1> DEFINE p == a[i]
           l == h.left[p]
           r == h.right[p]
           up == h.parent[p]
           f == Pointing(h, x, l, r, up)
           P1 == Store(f.parent, l, x)
           P2 == Store(P1, r, x)
           e == [f EXCEPT !.parent = P2]
           g == TakePlace(h, x, p)
           b == [a EXCEPT ![i] = x]
<1>0. /\ n \in Nat /\ i \in Nat /\ i > 0 /\ a \in [1..n -> Node] /\ h \in Heap
      /\ h.left \in [Node -> Ptr] /\ h.right \in [Node -> Ptr] /\ h.parent \in [Node -> Ptr]
      /\ x \in Ptr /\ p \in Node /\ p # x
  BY DEF Laid, Heap, Ptr
<1>1. g = Relink(e, up, p, x)
  BY DEF TakePlace
<1> HIDE DEF g
<1>2. l = At(a, n, 2 * i) /\ r = At(a, n, 2 * i + 1) /\ up = At(a, n, i \div 2)
  BY DEF Laid, Links
<1>3. l \in Ptr /\ r \in Ptr /\ up \in Ptr
  BY <1>0
<1> HIDE DEF p, l, r, up, b
<1>4. /\ Laid(f, a, n) /\ f.nr_nodes = h.nr_nodes /\ f.head = h.head
      /\ f.left[x] = l /\ f.right[x] = r /\ f.parent[x] = up
      /\ \A y \in Node : y # x => /\ f.left[y] = h.left[y] /\ f.right[y] = h.right[y]
                                  /\ f.parent[y] = h.parent[y]
  <2>1. f = Pointing(h, x, l, r, up)
    OBVIOUS
  <2> HIDE DEF f, P1, P2, e
  <2>2. Laid(h, a, n) /\ x \in Node /\ x \notin {a[k] : k \in 1..n}
    OBVIOUS
  <2>3. Laid(f, a, n) /\ Aside(f, h, x, l, r, up)
    BY <1>3, <2>1, <2>2, OutsideLaid
  <2> QED
    BY <2>3 DEF Aside
<1> HIDE DEF f
<1>5. f \in Heap /\ f.parent \in Pointers
  BY <1>4 DEF Laid, Heap, Pointers
<1>6. P1 \in Pointers /\ Stored(P1, f.parent, l, x)
  BY <1>0, <1>3, <1>5, StoreFields
<1> HIDE DEF P1
<1>7. P2 \in Pointers /\ Stored(P2, P1, r, x)
  BY <1>0, <1>3, <1>6, StoreFields
<1> HIDE DEF P2
<1>8. /\ e \in Heap /\ e.head = f.head /\ e.nr_nodes = f.nr_nodes
      /\ e.left = f.left /\ e.right = f.right /\ e.parent = P2
  BY <1>5, <1>7 DEF Heap, Pointers
<1> HIDE DEF e
<1>9. /\ g \in Heap /\ g.nr_nodes = e.nr_nodes /\ g.parent = e.parent
      /\ g.head = IF up = NULL THEN x ELSE e.head
      /\ \A y \in Node : g.left[y] = IF y = up /\ e.left[y] = p THEN x ELSE e.left[y]
      /\ \A y \in Node : g.right[y] = IF y = up /\ e.left[y] # p THEN x ELSE e.right[y]
  BY <1>1, <1>3, <1>8, RelinkFields
<1>10. /\ g.left[x] = l /\ g.right[x] = r /\ g.parent[x] = up
  <2>1. x # l /\ x # r /\ x # up
    <3>1. \A k : At(a, n, k) # x
      BY NullOutside DEF At
    <3> QED
      BY <1>2, <3>1
  <2> QED
    BY <1>4, <1>6, <1>7, <1>8, <1>9, <2>1 DEF Stored
<1>11. /\ b \in [1..n -> Node] /\ b[i] = x
       /\ \A k \in 1..n : k # i => b[k] = a[k]
       /\ \A k \in 1..n : a[k] \in Node /\ a[k] # x
  BY <1>0 DEF b
<1>12. Injective(b, n)
  BY <1>11 DEF Laid, Injective
<1>13. /\ At(b, n, i) = x
       /\ \A k : k # i => At(b, n, k) = At(a, n, k)
       /\ \A k, j : k \in 1..n => (a[k] = At(a, n, j) <=> j = k)
       /\ \A k : At(a, n, k) = p <=> k = i
       /\ \A k : At(a, n, k) = NULL <=> k \notin 1..n
  BY <1>0, <1>11, NullOutside DEF At, Laid, Injective, p
<1>14. g.head = At(b, n, 1)
  <2>1. h.head = At(a, n, 1)
    BY DEF Laid, Links
  <2>2. i \div 2 \in 1..n <=> i # 1
    BY <1>0
  <2> QED
    BY <1>2, <1>4, <1>8, <1>9, <1>13, <2>1, <2>2
<1>15. ASSUME NEW k \in 1..n
       PROVE  /\ g.left[b[k]] = At(b, n, 2 * k)
              /\ g.right[b[k]] = At(b, n, 2 * k + 1)
              /\ g.parent[b[k]] = At(b, n, k \div 2)
  <2>1. CASE k = i
    <3>1. 2 * i # i /\ 2 * i + 1 # i /\ i \div 2 # i
      BY <1>0
    <3> QED
      BY <1>2, <1>10, <1>11, <1>13, <2>1, <3>1
  <2>2. CASE k # i
    <3>0. b[k] = a[k] /\ a[k] \in Node /\ a[k] # x /\ k \in Nat /\ k > 0
      BY <1>0, <1>11, <2>2
    <3>1. /\ h.left[a[k]] = At(a, n, 2 * k) /\ h.right[a[k]] = At(a, n, 2 * k + 1)
          /\ h.parent[a[k]] = At(a, n, k \div 2)
      BY DEF Laid, Links
    <3>2. a[k] = up <=> k = i \div 2
      BY <1>2, <1>13
    <3>3. a[k] = l <=> k = 2 * i
      BY <1>2, <1>13
    <3>4. a[k] = r <=> k = 2 * i + 1
      BY <1>2, <1>13
    <3>5. h.left[a[k]] = p <=> 2 * k = i
      BY <1>13, <3>1
    <3>6. k \div 2 = i <=> k = 2 * i \/ k = 2 * i + 1
      BY HalfOf
    <3>7. k = i \div 2 <=> i = 2 * k \/ i = 2 * k + 1
      BY HalfOf
    <3>8. 2 * k # 2 * k + 1
      BY <3>0
    <3>9. g.left[a[k]] = At(b, n, 2 * k)
      BY <1>4, <1>8, <1>9, <1>13, <3>0, <3>1, <3>2, <3>5, <3>7
    <3>10. g.right[a[k]] = At(b, n, 2 * k + 1)
      BY <1>4, <1>8, <1>9, <1>13, <3>0, <3>1, <3>2, <3>5, <3>7, <3>8
    <3>11. g.parent[a[k]] = At(b, n, k \div 2)
      BY <1>4, <1>6, <1>7, <1>8, <1>9, <1>13, <3>0, <3>1, <3>3, <3>4, <3>6 DEF Stored
    <3> QED
      BY <3>0, <3>9, <3>10, <3>11
  <2> QED
    BY <2>1, <2>2
<1>16. Laid(g, b, n)
  BY <1>0, <1>9, <1>11, <1>12, <1>14, <1>15 DEF Laid, Links
<1> QED
  BY <1>4, <1>8, <1>9, <1>16 DEF g, b, p

-----------------------------------------------------------------------------
(* The order of the array.                                                 *)
Nodes(a, n) == {a[k] : k \in 1..n}

(* Every node comes after its parent. *)
Sorted(a, n) == \A k \in 2..n : Before(a[k \div 2], a[k])

(* ... but for the node in slot i, which may come before its parent; the   *)
(* children of slot i come after its parent in any case.                   *)
AlmostUp(a, n, i) ==
    /\ \A k \in 2..n : k # i => Before(a[k \div 2], a[k])
    /\ i > 1 => \A k \in 2..n : k \div 2 = i => Before(a[i \div 2], a[k])

(* ... but for the node in slot i, which may also come after its children. *)
AlmostDown(a, n, i) ==
    /\ \A k \in 2..n : k # i /\ k \div 2 # i => Before(a[k \div 2], a[k])
    /\ i > 1 => \A k \in 2..n : k \div 2 = i => Before(a[i \div 2], a[k])

LEMMA Order ==
    /\ \A x, y \in Node : Before(x, y) => ~Before(y, x)
    /\ \A x, y \in Node : x # y => Before(x, y) \/ Before(y, x)
    /\ \A x, y, z \in Node : Before(x, y) /\ Before(y, z) => Before(x, z)
  BY HeapAssumption

LEMMA ParentSlot ==
    ASSUME NEW n \in Nat, NEW k \in 2..n
    PROVE  k \div 2 \in 1..n /\ k \div 2 # k /\ k \in 1..n
  OBVIOUS

Array(n) == [1..n -> Node]

Exchanged(b, a, n, i, j) ==
    /\ b \in [1..n -> Node] /\ b[i] = a[j] /\ b[j] = a[i]
    /\ \A k \in 1..n : k # i /\ k # j => b[k] = a[k]

LEMMA ExchangeFacts ==
    ASSUME NEW n, NEW a \in Array(n), NEW i \in 1..n, NEW j \in 1..n, i # j
    PROVE  /\ Exchanged(Exchange(a, i, j), a, n, i, j)
           /\ Nodes(Exchange(a, i, j), n) = Nodes(a, n)
<1> DEFINE b == Exchange(a, i, j)
<1>1. /\ b \in [1..n -> Node] /\ b[i] = a[j] /\ b[j] = a[i]
      /\ \A k \in 1..n : k # i /\ k # j => b[k] = a[k]
  BY DEF Exchange, Array
<1> HIDE DEF b
<1>2. ASSUME NEW k \in 1..n PROVE b[k] \in Nodes(a, n) /\ a[k] \in Nodes(b, n)
  BY <1>1 DEF Nodes
<1>3. Nodes(b, n) \subseteq Nodes(a, n) /\ Nodes(a, n) \subseteq Nodes(b, n)
  BY <1>2 DEF Nodes
<1> QED
  BY <1>1, <1>3 DEF b, Exchanged

(* A node that comes before its parent moves up. *)
LEMMA MoveUp ==
    ASSUME NEW n \in Nat, NEW a \in Array(n), NEW i \in 2..n,
           AlmostUp(a, n, i), Before(a[i], a[i \div 2])
    PROVE  AlmostUp(Exchange(a, i \div 2, i), n, i \div 2)
<1> DEFINE p == i \div 2
           b == Exchange(a, p, i)
<1>0. a \in [1..n -> Node]
  BY DEF Array
<1>1. p \in 1..n /\ p # i /\ i \in 1..n
  BY ParentSlot
<1> HIDE DEF p, b
<1>2. /\ b \in [1..n -> Node] /\ b[p] = a[i] /\ b[i] = a[p]
      /\ \A k \in 1..n : k # i /\ k # p => b[k] = a[k]
  <2>2. Exchanged(b, a, n, p, i)
    BY <1>1, ExchangeFacts DEF b
  <2> QED
    BY <2>2 DEF Exchanged
<1>3. Before(a[i], a[p])
  BY DEF p
<1>4. ASSUME NEW k \in 2..n, k # p PROVE Before(b[k \div 2], b[k])
  <2>1. k \div 2 \in 1..n /\ k \in 1..n /\ k \div 2 # k
    BY ParentSlot
  <2>2. CASE k = i
    BY <1>2, <1>3, <2>2 DEF p
  <2>3. CASE k # i /\ k \div 2 = i
    <3>1. i > 1 => Before(a[p], a[k])
      BY <2>3 DEF AlmostUp, p
    <3> QED
      BY <1>2, <1>4, <2>1, <2>3, <3>1
  <2>4. CASE k # i /\ k \div 2 = p
    <3>1. Before(a[p], a[k])
      BY <2>4 DEF AlmostUp
    <3>2. Before(a[i], a[k])
      BY <1>0, <1>1, <1>3, <2>1, <3>1, Order
    <3> QED
      BY <1>2, <1>4, <2>1, <2>4, <3>2
  <2>5. CASE k # i /\ k \div 2 # i /\ k \div 2 # p
    <3>1. Before(a[k \div 2], a[k])
      BY <2>5 DEF AlmostUp
    <3> QED
      BY <1>2, <1>4, <2>1, <2>5, <3>1
  <2> QED
    BY <2>2, <2>3, <2>4, <2>5
<1>5. ASSUME p > 1, NEW k \in 2..n, k \div 2 = p PROVE Before(b[p \div 2], b[k])
  <2>1. p \in 2..n /\ k \in 1..n /\ k # p
    BY <1>1, <1>5, ParentSlot
  <2>2. p \div 2 \in 1..n /\ p \div 2 # p /\ p \div 2 # i
    BY <2>1, ParentSlot DEF p
  <2>3. Before(a[p \div 2], a[p]) /\ b[p \div 2] = a[p \div 2]
    BY <1>1, <1>2, <2>1, <2>2 DEF AlmostUp
  <2>4. CASE k = i
    BY <1>2, <2>3, <2>4
  <2>5. CASE k # i
    <3>1. Before(a[p], a[k])
      BY <1>5, <2>5 DEF AlmostUp
    <3>2. Before(a[p \div 2], a[k])
      BY <1>0, <1>1, <2>1, <2>2, <2>3, <3>1, Order
    <3> QED
      BY <1>2, <2>1, <2>3, <2>5, <3>2
  <2> QED
    BY <2>4, <2>5
<1> QED
  BY <1>4, <1>5 DEF AlmostUp, b, p

(* Its child that comes first moves up, the node moves down. *)
LEMMA MoveDown ==
    ASSUME NEW n \in Nat, NEW a \in Array(n), NEW i \in 1..n,
           AlmostDown(a, n, i), NEW j \in 2..n, j \div 2 = i, Before(a[j], a[i]),
           \A k \in 2..n : k \div 2 = i /\ k # j => Before(a[j], a[k])
    PROVE  AlmostDown(Exchange(a, i, j), n, j)
<1> DEFINE b == Exchange(a, i, j)
<1>1. i # j /\ j \in 1..n
  BY ParentSlot
<1> HIDE DEF b
<1>2. /\ b \in [1..n -> Node] /\ b[i] = a[j] /\ b[j] = a[i]
      /\ \A k \in 1..n : k # i /\ k # j => b[k] = a[k]
  <2>2. Exchanged(b, a, n, i, j)
    BY <1>1, ExchangeFacts DEF b
  <2> QED
    BY <2>2 DEF Exchanged
<1>3. ASSUME NEW k \in 2..n, k # j, k \div 2 # j PROVE Before(b[k \div 2], b[k])
  <2>1. k \div 2 \in 1..n /\ k \in 1..n /\ k \div 2 # k
    BY ParentSlot
  <2>2. CASE k = i
    <3>1. i > 1 /\ Before(a[i \div 2], a[j])
      BY <2>2 DEF AlmostDown
    <3> QED
      BY <1>2, <1>3, <2>1, <2>2, <3>1
  <2>3. CASE k # i /\ k \div 2 = i
    <3>1. Before(a[j], a[k])
      BY <1>3, <2>3
    <3> QED
      BY <1>2, <1>3, <2>1, <2>3, <3>1
  <2>4. CASE k # i /\ k \div 2 # i
    <3>1. Before(a[k \div 2], a[k])
      BY <2>4 DEF AlmostDown
    <3> QED
      BY <1>2, <1>3, <2>1, <2>4, <3>1
  <2> QED
    BY <2>2, <2>3, <2>4
<1>4. ASSUME NEW k \in 2..n, k \div 2 = j PROVE Before(b[j \div 2], b[k])
  <2>1. k \in 1..n /\ k # j /\ k # i
    <3>1. k \in Nat /\ j \in Nat /\ k > 0 /\ j > 0
      OBVIOUS
    <3>2. k \div 2 < k /\ j \div 2 < j
      BY <3>1, Halves
    <3> QED
      BY <1>4, <3>1, <3>2
  <2>2. Before(a[j], a[k])
    BY <1>1, <1>4, <2>1 DEF AlmostDown
  <2> QED
    BY <1>2, <2>1, <2>2
<1> QED
  BY <1>3, <1>4 DEF AlmostDown, b

(* Where the sift loops stop. *)
LEMMA StopUp ==
    ASSUME NEW n, NEW a, NEW i, AlmostUp(a, n, i),
           i = 1 \/ Before(a[i \div 2], a[i])
    PROVE  Sorted(a, n)
<1>1. ASSUME NEW k \in 2..n PROVE Before(a[k \div 2], a[k])
  <2>1. k # 1
    OBVIOUS
  <2> QED
    BY <2>1 DEF AlmostUp
<1> QED
  BY <1>1 DEF Sorted

LEMMA StopDown ==
    ASSUME NEW n, NEW a, NEW i, AlmostDown(a, n, i),
           \A k \in 2..n : k \div 2 = i => Before(a[i], a[k])
    PROVE  AlmostUp(a, n, i)
  BY DEF AlmostDown, AlmostUp

(* The root comes first. *)
LEMMA RootFirst ==
    ASSUME NEW n \in Nat, NEW a \in Array(n), Sorted(a, n)
    PROVE  \A k \in 2..n : Before(a[1], a[k])
<1> DEFINE T == {k \in 1..n : k = 1 \/ Before(a[1], a[k])}
<1>1. ASSUME NEW k \in 1..n, k > 1 => k \div 2 \in T PROVE k \in T
  <2>1. CASE k = 1
    BY <2>1
  <2>2. CASE k # 1
    <3>1. k \in 2..n /\ k \div 2 \in T /\ 1 \in 1..n /\ k \div 2 \in 1..n
      BY <1>1, <2>2
    <3>2. Before(a[k \div 2], a[k])
      BY <3>1 DEF Sorted
    <3>3. CASE k \div 2 = 1
      BY <3>2, <3>3
    <3>4. CASE Before(a[1], a[k \div 2])
      <4>1. a[1] \in Node /\ a[k] \in Node /\ a[k \div 2] \in Node
        BY <3>1 DEF Array
      <4> QED
        BY <3>2, <3>4, <4>1, Order
    <3> QED
      BY <3>1, <3>3, <3>4
  <2> QED
    BY <2>1, <2>2
<1>2. \A k \in 1..n : k \in T
  <2>1. \A k \in 1..n : (k > 1 => k \div 2 \in T) => k \in T
    BY <1>1
  <2> HIDE DEF T
  <2> QED
    BY <2>1, SlotInduction
<1> QED
  BY <1>2

-----------------------------------------------------------------------------
(* The sift loops.  After r rounds of heap_decrease node x is in a slot    *)
(* that is at least r before the last, or the order is restored.           *)
Up(h, n, S, x, r) ==
    \E a \in Array(n), i \in 1..n :
        /\ Laid(h, a, n) /\ h.nr_nodes = n /\ Nodes(a, n) = S /\ a[i] = x
        /\ AlmostUp(a, n, i)
        /\ Sorted(a, n) \/ i + r <= n

(* After r rounds of heap_heapify it is in a slot after r, or it comes     *)
(* before its children.                                                    *)
Down(h, n, S, x, r) ==
    \E a \in Array(n), i \in 1..n :
        /\ Laid(h, a, n) /\ h.nr_nodes = n /\ Nodes(a, n) = S /\ a[i] = x
        /\ AlmostDown(a, n, i)
        /\ AlmostUp(a, n, i) \/ i > r

Heaped(h, n, S) ==
    \E a \in Array(n) : /\ Laid(h, a, n) /\ h.nr_nodes = n /\ Nodes(a, n) = S
                        /\ Sorted(a, n)

LEMMA LaidFacts ==
    ASSUME NEW h, NEW a, NEW n, Laid(h, a, n)
    PROVE  /\ n \in Nat /\ h \in Heap /\ a \in Array(n)
           /\ \A k \in 1..n : a[k] \in Node /\ a[k] # NULL
           /\ \A i, j \in 1..n : a[i] = a[j] => i = j
           /\ \A k \in 1..n : /\ h.left[a[k]] = At(a, n, 2 * k)
                              /\ h.right[a[k]] = At(a, n, 2 * k + 1)
                              /\ h.parent[a[k]] = At(a, n, k \div 2)
  BY NullOutside DEF Laid, Array, Injective, Links

LEMMA UpRound ==
    ASSUME NEW h, NEW n \in Nat, NEW S, NEW x, NEW r \in Nat, Up(h, n, S, x, r)
    PROVE  Up(SiftUp(h, x), n, S, x, r + 1)
<1>1. PICK a \in Array(n), i \in 1..n :
        /\ Laid(h, a, n) /\ h.nr_nodes = n /\ Nodes(a, n) = S /\ a[i] = x
        /\ AlmostUp(a, n, i)
        /\ Sorted(a, n) \/ i + r <= n
  BY DEF Up
<1>2. /\ \A k \in 1..n : a[k] \in Node /\ a[k] # NULL
      /\ \A k, j \in 1..n : a[k] = a[j] => k = j
      /\ h.parent[x] = At(a, n, i \div 2)
  BY <1>1, LaidFacts
<1> DEFINE up == h.parent[x]
<1>3. i \div 2 \in 1..n <=> i # 1
  OBVIOUS
<1>4. CASE i # 1 /\ Before(x, up)
  <2> DEFINE p == i \div 2
             b == Exchange(a, p, i)
  <2>1. p \in 1..n /\ p # i /\ up = a[p] /\ up # NULL /\ i \in 2..n
    BY <1>2, <1>3, <1>4 DEF At
  <2>2. SiftUp(h, x) = heap_swap_nodes(h, a[i], a[p])
    BY <1>1, <1>4, <2>1 DEF SiftUp
  <2>3. /\ Laid(SiftUp(h, x), b, n)
        /\ SiftUp(h, x).nr_nodes = n
    BY <1>1, <2>1, <2>2, SwapLaid
  <2>4. Exchanged(b, a, n, p, i) /\ Nodes(b, n) = S
    BY <1>1, <2>1, ExchangeFacts
  <2>5. AlmostUp(b, n, p)
    BY <1>1, <1>4, <2>1, MoveUp
  <2>6. ~Sorted(a, n)
    <3>1. ~Before(a[p], a[i])
      BY <1>1, <1>2, <1>4, <2>1, Order
    <3> QED
      BY <2>1, <3>1 DEF Sorted
  <2>7. p + (r + 1) <= n
    <3>1. i + r <= n
      BY <1>1, <2>6
    <3>2. p < i /\ p \in Nat /\ i \in Nat
      OBVIOUS
    <3> QED
      BY <3>1, <3>2
  <2> HIDE DEF b, p
  <2>8. b \in Array(n) /\ b[p] = x
    BY <1>1, <2>4 DEF Exchanged, Array
  <2> QED
    BY <2>1, <2>3, <2>4, <2>5, <2>7, <2>8 DEF Up
<1>5. CASE ~(i # 1 /\ Before(x, up))
  <2>1. SiftUp(h, x) = h
    BY <1>2, <1>3, <1>5 DEF SiftUp, At
  <2>2. i = 1 \/ Before(a[i \div 2], a[i])
    <3>1. CASE i # 1
      <4>1. i \div 2 \in 1..n /\ i \div 2 # i /\ up = a[i \div 2]
        BY <1>2, <1>3, <3>1 DEF At
      <4>2. a[i \div 2] # a[i] /\ ~Before(a[i], a[i \div 2])
        BY <1>1, <1>2, <1>5, <3>1, <4>1
      <4> QED
        BY <1>2, <4>1, <4>2, Order
    <3> QED
      BY <3>1
  <2>3. Sorted(a, n)
    BY <1>1, <2>2, StopUp
  <2> QED
    BY <1>1, <2>1, <2>3 DEF Up
<1> QED
  BY <1>4, <1>5

LEMMA DownRound ==
    ASSUME NEW h, NEW n \in Nat, NEW S, NEW x, NEW r \in Nat, Down(h, n, S, x, r)
    PROVE  Down(SiftDown(h, x), n, S, x, r + 1)
<1>1. PICK a \in Array(n), i \in 1..n :
        /\ Laid(h, a, n) /\ h.nr_nodes = n /\ Nodes(a, n) = S /\ a[i] = x
        /\ AlmostDown(a, n, i)
        /\ AlmostUp(a, n, i) \/ i > r
  BY DEF Down
<1> DEFINE l == h.left[x]
           t == h.right[x]
           tmp == FirstOf(h, x)
<1>2. /\ \A k \in 1..n : a[k] \in Node /\ a[k] # NULL
      /\ \A k, j \in 1..n : a[k] = a[j] => k = j
      /\ l = At(a, n, 2 * i) /\ t = At(a, n, 2 * i + 1)
  BY <1>1, LaidFacts
<1>3. /\ i \in Nat /\ i > 0 /\ i # 2 * i /\ i # 2 * i + 1 /\ 2 * i # 2 * i + 1
      /\ (2 * i) \div 2 = i /\ (2 * i + 1) \div 2 = i
      /\ \A k \in 2..n : k \div 2 = i => k = 2 * i \/ k = 2 * i + 1
  OBVIOUS
<1>4. \/ /\ tmp = x
         /\ \A k \in 2..n : k \div 2 = i => Before(x, a[k])
      \/ \E j \in 2..n : /\ j \div 2 = i /\ tmp = a[j] /\ Before(a[j], x)
                         /\ \A k \in 2..n : k \div 2 = i /\ k # j => Before(a[j], a[k])
  <2> DEFINE u == IF l # NULL /\ ~Before(x, l) THEN l ELSE x
  <2>1. tmp = IF t # NULL /\ ~Before(u, t) THEN t ELSE u
    BY DEF FirstOf
  <2>2. l # NULL <=> 2 * i \in 2..n
    BY <1>2, <1>3 DEF At
  <2>3. t # NULL <=> 2 * i + 1 \in 2..n
    BY <1>2, <1>3 DEF At
  <2>4. l # NULL => l = a[2 * i] /\ 2 * i \in 1..n /\ l \in Node /\ l # x
    BY <1>1, <1>2, <1>3 DEF At
  <2>5. t # NULL => t = a[2 * i + 1] /\ 2 * i + 1 \in 1..n /\ t \in Node /\ t # x /\ t # l
    BY <1>1, <1>2, <1>3 DEF At
  <2>6. x \in Node
    BY <1>1, <1>2
  <2> HIDE DEF l, t, tmp
  <2>7. CASE l = NULL /\ t = NULL
    BY <1>3, <2>1, <2>2, <2>3, <2>7
  <2>8. CASE l # NULL /\ t = NULL
    <3>1. \A k \in 2..n : k \div 2 = i => k = 2 * i
      BY <1>3, <2>3, <2>8
    <3>2. CASE Before(x, l)
      BY <2>1, <2>4, <2>8, <3>1, <3>2
    <3>3. CASE ~Before(x, l)
      <4>1. Before(l, x) /\ tmp = l
        BY <2>1, <2>4, <2>6, <2>8, <3>3, Order
      <4> QED
        BY <1>3, <2>2, <2>4, <2>8, <3>1, <4>1
    <3> QED
      BY <3>2, <3>3
  <2>9. CASE l = NULL /\ t # NULL
    <3>1. i \in Nat /\ 2 * i + 1 \in 2..n
      BY <1>3, <2>3, <2>9
    <3>2. 2 * i \in 2..n
      BY <1>3, <3>1
    <3> QED
      BY <2>2, <2>9, <3>2
  <2>10. CASE l # NULL /\ t # NULL
    <3>0. /\ l \in Node /\ t \in Node /\ l # x /\ t # x /\ t # l
          /\ l = a[2 * i] /\ t = a[2 * i + 1]
          /\ 2 * i \in 2..n /\ 2 * i + 1 \in 2..n
      BY <2>2, <2>3, <2>4, <2>5, <2>10
    <3>1. \/ tmp = x /\ Before(x, l) /\ Before(x, t)
          \/ tmp = l /\ Before(l, x) /\ Before(l, t)
          \/ tmp = t /\ Before(t, x) /\ Before(t, l)
      <4>1. CASE Before(x, l)
        <5>1. u = x
          BY <4>1
        <5>2. CASE Before(x, t)
          BY <2>1, <4>1, <5>1, <5>2
        <5>3. CASE ~Before(x, t)
          <6>1. Before(t, x) /\ tmp = t
            BY <2>1, <2>6, <2>10, <3>0, <5>1, <5>3, Order
          <6>2. Before(t, l)
            BY <2>6, <3>0, <4>1, <6>1, Order
          <6> QED
            BY <6>1, <6>2
        <5> QED
          BY <5>2, <5>3
      <4>2. CASE ~Before(x, l)
        <5>1. u = l /\ Before(l, x)
          BY <2>6, <2>10, <3>0, <4>2, Order
        <5>2. CASE Before(l, t)
          BY <2>1, <5>1, <5>2
        <5>3. CASE ~Before(l, t)
          <6>1. Before(t, l) /\ tmp = t
            BY <2>1, <2>10, <3>0, <5>1, <5>3, Order
          <6>2. Before(t, x)
            BY <2>6, <3>0, <5>1, <6>1, Order
          <6> QED
            BY <6>1, <6>2
        <5> QED
          BY <5>2, <5>3
      <4> QED
        BY <4>1, <4>2
    <3> HIDE DEF u
    <3>2. CASE tmp = x /\ Before(x, l) /\ Before(x, t)
      BY <1>3, <3>0, <3>2
    <3>3. CASE tmp = l /\ Before(l, x) /\ Before(l, t)
      <4>1. \A k \in 2..n : k \div 2 = i /\ k # 2 * i => Before(a[2 * i], a[k])
        BY <1>3, <3>0, <3>3
      <4> QED
        BY <1>3, <3>0, <3>3, <4>1
    <3>4. CASE tmp = t /\ Before(t, x) /\ Before(t, l)
      <4>1. \A k \in 2..n : k \div 2 = i /\ k # 2 * i + 1 => Before(a[2 * i + 1], a[k])
        BY <1>3, <3>0, <3>4
      <4> QED
        BY <1>3, <3>0, <3>4, <4>1
    <3> QED
      BY <3>1, <3>2, <3>3, <3>4
  <2> QED
    BY <2>7, <2>8, <2>9, <2>10
<1> HIDE DEF l, t, tmp
<1>5. CASE /\ tmp = x
           /\ \A k \in 2..n : k \div 2 = i => Before(x, a[k])
  <2>1. SiftDown(h, x) = h
    BY <1>5 DEF SiftDown, tmp
  <2>2. AlmostUp(a, n, i)
    BY <1>1, <1>5, StopDown
  <2> QED
    BY <1>1, <2>1, <2>2 DEF Down
<1>6. ASSUME NEW j \in 2..n, j \div 2 = i, tmp = a[j], Before(a[j], x),
             \A k \in 2..n : k \div 2 = i /\ k # j => Before(a[j], a[k])
      PROVE  Down(SiftDown(h, x), n, S, x, r + 1)
  <2> DEFINE b == Exchange(a, i, j)
  <2>1. j \in 1..n /\ j # i /\ i < j /\ j \in Nat
    <3>1. j \in Nat /\ j > 0 /\ j \in 1..n
      OBVIOUS
    <3>2. j \div 2 < j
      BY <3>1, Halves
    <3> QED
      BY <1>3, <1>6, <3>1, <3>2
  <2>2. a[j] # x
    BY <1>1, <1>2, <2>1
  <2>3. SiftDown(h, x) = heap_swap_nodes(h, a[j], a[i])
    BY <1>1, <1>6, <2>2 DEF SiftDown, tmp
  <2>4. Laid(SiftDown(h, x), b, n) /\ SiftDown(h, x).nr_nodes = n
    BY <1>1, <1>6, <2>1, <2>3, SwapLaid
  <2>5. Exchanged(b, a, n, i, j) /\ Nodes(b, n) = S
    BY <1>1, <2>1, ExchangeFacts
  <2>6. AlmostDown(b, n, j)
    BY <1>1, <1>6, MoveDown
  <2> HIDE DEF b
  <2>7. b \in Array(n) /\ b[j] = x
    BY <1>1, <2>5 DEF Exchanged, Array
  <2>8. i > r
    <3>1. CASE AlmostUp(a, n, i)
      <4>1. Before(a[j \div 2], a[j])
        BY <1>6, <2>1, <3>1 DEF AlmostUp
      <4> QED
        BY <1>1, <1>2, <1>6, <2>1, <4>1, Order
    <3> QED
      BY <1>1, <3>1
  <2>9. j > r + 1
    BY <1>3, <2>1, <2>8
  <2> QED
    BY <2>1, <2>4, <2>5, <2>6, <2>7, <2>9 DEF Down
<1> QED
  BY <1>4, <1>5, <1>6

(* The rounds of a loop are enough, and their result is what the model     *)
(* says: the recursive function exists.                                    *)
LEMMA DecreaseSorts ==
    ASSUME NEW h, NEW n \in Nat, NEW S, NEW x, Up(h, n, S, x, 0)
    PROVE  Heaped(heap_decrease(h, x), n, S)
<1> DEFINE V == {g \in Heap : \E r \in Nat : Up(g, n, S, x, r)}
           step == [i \in 1..n |-> [g \in V |-> SiftUp(g, x)]]
           Rounds(f) == f = [i \in 0..h.nr_nodes |-> IF i = 0 THEN h ELSE SiftUp(f[i - 1], x)]
           after == CHOOSE f : Rounds(f)
<1>1. \A g, r : Up(g, n, S, x, r) => g \in Heap /\ g.nr_nodes = n
  BY LaidFacts DEF Up
<1>2. h \in V /\ h.nr_nodes = n
  BY <1>1
<1>3. \A g \in V : SiftUp(g, x) \in V
  <2>1. \A r \in Nat : r + 1 \in Nat
    OBVIOUS
  <2> QED
    BY <1>1, <2>1, UpRound
<1>4. step \in [1..n -> [V -> V]]
  <2> HIDE DEF V
  <2> QED
    BY <1>3
<1>5. PICK s \in [0..n -> V] : Iterates(s, n, h, step)
  <2> HIDE DEF V, step
  <2> QED
    BY <1>2, <1>4, Recursion
<1>6. \A i \in 1..n : i - 1 \in 0..n
  OBVIOUS
<1>7. Rounds(s)
  <2> HIDE DEF V
  <2>1. ASSUME NEW i \in 0..n PROVE s[i] = IF i = 0 THEN h ELSE SiftUp(s[i - 1], x)
    <3>1. CASE i = 0
      BY <1>5, <3>1 DEF Iterates
    <3>2. CASE i # 0
      <4>1. i \in 1..n
        BY <3>2
      <4>2. s[i] = step[i][s[i - 1]] /\ s[i - 1] \in V
        BY <1>5, <1>6, <4>1 DEF Iterates
      <4> QED
        BY <3>2, <4>1, <4>2
    <3> QED
      BY <3>1, <3>2
  <2> HIDE DEF step
  <2> QED
    BY <1>2, <2>1
<1>8. Rounds(after)
  <2> HIDE DEF Rounds
  <2> QED
    BY <1>7
<1>9. heap_decrease(h, x) = after[n]
  BY <1>2 DEF heap_decrease
<1> HIDE DEF after, V, step
<1>10. after[0] = h /\ \A i \in 1..n : after[i] = SiftUp(after[i - 1], x)
  BY <1>2, <1>8
<1> HIDE DEF Rounds
<1> DEFINE T == {r \in 0..n : Up(after[r], n, S, x, r)}
<1>11. 0 \in T
  BY <1>10
<1>12. ASSUME NEW r \in 1..n, r - 1 \in T PROVE r \in T
  <2> DEFINE q == r - 1
  <2>1. q \in Nat /\ Up(after[q], n, S, x, q) /\ q + 1 = r
    BY <1>12
  <2>2. after[r] = SiftUp(after[q], x)
    BY <1>10
  <2> HIDE DEF q
  <2>3. Up(SiftUp(after[q], x), n, S, x, q + 1)
    BY <2>1, UpRound
  <2> QED
    BY <2>1, <2>2, <2>3
<1>13. n \in T
  <2>1. \A r \in 1..n : r - 1 \in T => r \in T
    BY <1>12
  <2> HIDE DEF T
  <2>2. \A r \in 0..n : r \in T
    BY <1>11, <2>1, UpTo
  <2> QED
    BY <2>2
<1>14. Up(after[n], n, S, x, n)
  BY <1>13
<1>15. \A i \in 1..n : ~(i + n <= n)
  OBVIOUS
<1> QED
  BY <1>9, <1>14, <1>15 DEF Up, Heaped

LEMMA HeapifySifts ==
    ASSUME NEW h, NEW n \in Nat, NEW S, NEW x, Down(h, n, S, x, 0)
    PROVE  Up(heap_heapify(h, x), n, S, x, 0)
<1> DEFINE V == {g \in Heap : \E r \in Nat : Down(g, n, S, x, r)}
           step == [i \in 1..n |-> [g \in V |-> SiftDown(g, x)]]
           Rounds(f) == f = [i \in 0..h.nr_nodes |-> IF i = 0 THEN h ELSE SiftDown(f[i - 1], x)]
           after == CHOOSE f : Rounds(f)
<1>1. \A g, r : Down(g, n, S, x, r) => g \in Heap /\ g.nr_nodes = n
  BY LaidFacts DEF Down
<1>2. h \in V /\ h.nr_nodes = n
  BY <1>1
<1>3. \A g \in V : SiftDown(g, x) \in V
  <2>1. \A r \in Nat : r + 1 \in Nat
    OBVIOUS
  <2> QED
    BY <1>1, <2>1, DownRound
<1>4. step \in [1..n -> [V -> V]]
  <2> HIDE DEF V
  <2> QED
    BY <1>3
<1>5. PICK s \in [0..n -> V] : Iterates(s, n, h, step)
  <2> HIDE DEF V, step
  <2> QED
    BY <1>2, <1>4, Recursion
<1>6. \A i \in 1..n : i - 1 \in 0..n
  OBVIOUS
<1>7. Rounds(s)
  <2> HIDE DEF V
  <2>1. ASSUME NEW i \in 0..n PROVE s[i] = IF i = 0 THEN h ELSE SiftDown(s[i - 1], x)
    <3>1. CASE i = 0
      BY <1>5, <3>1 DEF Iterates
    <3>2. CASE i # 0
      <4>1. i \in 1..n
        BY <3>2
      <4>2. s[i] = step[i][s[i - 1]] /\ s[i - 1] \in V
        BY <1>5, <1>6, <4>1 DEF Iterates
      <4> QED
        BY <3>2, <4>1, <4>2
    <3> QED
      BY <3>1, <3>2
  <2> HIDE DEF step
  <2> QED
    BY <1>2, <2>1
<1>8. Rounds(after)
  <2> HIDE DEF Rounds
  <2> QED
    BY <1>7
<1>9. heap_heapify(h, x) = after[n]
  BY <1>2 DEF heap_heapify
<1> HIDE DEF after, V, step
<1>10. after[0] = h /\ \A i \in 1..n : after[i] = SiftDown(after[i - 1], x)
  BY <1>2, <1>8
<1> HIDE DEF Rounds
<1> DEFINE T == {r \in 0..n : Down(after[r], n, S, x, r)}
<1>11. 0 \in T
  BY <1>10
<1>12. ASSUME NEW r \in 1..n, r - 1 \in T PROVE r \in T
  <2> DEFINE q == r - 1
  <2>1. q \in Nat /\ Down(after[q], n, S, x, q) /\ q + 1 = r
    BY <1>12
  <2>2. after[r] = SiftDown(after[q], x)
    BY <1>10
  <2> HIDE DEF q
  <2>3. Down(SiftDown(after[q], x), n, S, x, q + 1)
    BY <2>1, DownRound
  <2> QED
    BY <2>1, <2>2, <2>3
<1>13. n \in T
  <2>1. \A r \in 1..n : r - 1 \in T => r \in T
    BY <1>12
  <2> HIDE DEF T
  <2>2. \A r \in 0..n : r \in T
    BY <1>11, <2>1, UpTo
  <2> QED
    BY <2>2
<1>14. Down(after[n], n, S, x, n)
  BY <1>13
<1>15. \A i \in 1..n : ~(i > n) /\ i + 0 <= n
  OBVIOUS
<1> QED
  BY <1>9, <1>14, <1>15 DEF Down, Up

-----------------------------------------------------------------------------
(* The operations.                                                         *)
LEMMA NodesReached ==
    ASSUME NEW h, NEW n, NEW S, Heaped(h, n, S)
    PROVE  Reached(h) = S /\ h.nr_nodes = n /\ h \in Heap /\ n \in Nat /\ S \subseteq Node
<1>1. PICK a \in Array(n) : /\ Laid(h, a, n) /\ h.nr_nodes = n /\ Nodes(a, n) = S
  BY DEF Heaped
<1>2. Reached(h) = S
  BY <1>1, ReachedLaid DEF Nodes
<1> QED
  BY <1>1, <1>2, LaidFacts DEF Reached

LEMMA PointersHeaped ==
    ASSUME NEW h, NEW n, NEW S, Heaped(h, n, S),
           NEW x \in Node, x \notin S, NEW v \in Ptr
    PROVE  Heaped(WithPointers(h, x, v), n, S)
<1> DEFINE g == WithPointers(h, x, v)
<1>1. PICK a \in Array(n) : /\ Laid(h, a, n) /\ h.nr_nodes = n /\ Nodes(a, n) = S
                            /\ Sorted(a, n)
  BY DEF Heaped
<1>2. g = Pointing(h, x, v, v, v)
  BY DEF WithPointers
<1>3. x \notin {a[k] : k \in 1..n}
  BY <1>1 DEF Nodes
<1> HIDE DEF g
<1>4. Laid(g, a, n) /\ Aside(g, h, x, v, v, v)
  BY <1>1, <1>2, <1>3, OutsideLaid
<1>5. g.nr_nodes = n
  BY <1>1, <1>4 DEF Aside
<1>6. Heaped(g, n, S)
  BY <1>1, <1>4, <1>5 DEF Heaped
<1> QED
  BY <1>6 DEF g

LEMMA InsertHeaped ==
    ASSUME NEW h, NEW n, NEW S, Heaped(h, n, S), NEW x \in Node, x \notin S
    PROVE  Heaped(heap_insert(h, x), n + 1, S \cup {x})
<1>1. PICK a \in Array(n) : /\ Laid(h, a, n) /\ h.nr_nodes = n /\ Nodes(a, n) = S
                            /\ Sorted(a, n)
  BY DEF Heaped
<1>2. n \in Nat /\ n + 1 \in Nat /\ n + 1 \in 1..(n + 1)
  BY <1>1, LaidFacts
<1>3. x \notin {a[k] : k \in 1..n}
  BY <1>1 DEF Nodes
<1> DEFINE b == Longer(a, n, x)
           g == Attach(h, x)
           m == n + 1
<1>4. Laid(g, b, m) /\ g.nr_nodes = m
  BY <1>1, <1>3, AttachLaid
<1>5. /\ b \in Array(m) /\ b[m] = x
      /\ \A k \in 1..n : b[k] = a[k] /\ k \in 1..m
      /\ \A k \in 1..m : k = m \/ k \in 1..n
  <2>1. b \in Array(m)
    BY <1>4, LaidFacts
  <2> QED
    BY <1>2, <2>1 DEF Longer
<1> HIDE DEF b, g
<1>6. Nodes(b, m) = S \cup {x}
  <2>1. Nodes(b, m) \subseteq Nodes(a, n) \cup {x}
    BY <1>5 DEF Nodes
  <2>2. Nodes(a, n) \cup {x} \subseteq Nodes(b, m)
    BY <1>2, <1>5 DEF Nodes
  <2> QED
    BY <1>1, <2>1, <2>2
<1>7. AlmostUp(b, m, m)
  <2>1. ASSUME NEW k \in 2..m, k # m PROVE Before(b[k \div 2], b[k])
    <3>1. k \in 2..n
      BY <1>2, <2>1
    <3>2. k \div 2 \in 1..n /\ k \in 1..n
      BY <1>2, <3>1, ParentSlot
    <3> QED
      BY <1>1, <1>5, <3>1, <3>2 DEF Sorted
  <2>2. \A k \in 2..m : k \div 2 # m
    BY <1>2
  <2> QED
    BY <2>1, <2>2 DEF AlmostUp
<1>8. Up(g, m, S \cup {x}, x, 0)
  <2>1. m \in 1..m /\ m + 0 <= m
    BY <1>2
  <2> HIDE DEF m
  <2> QED
    BY <1>4, <1>5, <1>6, <1>7, <2>1 DEF Up
<1>9. Heaped(heap_decrease(g, x), m, S \cup {x})
  BY <1>2, <1>8, DecreaseSorts
<1> QED
  BY <1>9 DEF heap_insert, g

LEMMA RemoveHeaped ==
    ASSUME NEW h, NEW n, NEW S, Heaped(h, n, S), NEW x \in S
    PROVE  Heaped(heap_remove(h, x), n - 1, S \ {x})
<1>1. PICK a \in Array(n) : /\ Laid(h, a, n) /\ h.nr_nodes = n /\ Nodes(a, n) = S
                            /\ Sorted(a, n)
  BY DEF Heaped
<1>2. PICK i \in 1..n : x = a[i]
  BY <1>1 DEF Nodes
<1>3. /\ n \in Nat /\ n # 0 /\ n \in 1..n /\ n - 1 \in Nat /\ h.nr_nodes # 0
      /\ \A k \in 1..n : a[k] \in Node
      /\ \A k, j \in 1..n : a[k] = a[j] => k = j
  BY <1>1, <1>2, LaidFacts
<1> DEFINE m == n - 1
           c == Cut(h)
           b == Shorter(a, n)
           tmp == a[n]
<1>4. Laid(c, b, m) /\ c.nr_nodes = m
  BY <1>1, <1>3, CutLaid
<1>5. /\ \A k \in 1..m : b[k] = a[k] /\ k \in 1..n /\ k # n
      /\ \A k \in 1..n : k = n \/ k \in 1..m
  BY <1>3 DEF Shorter
<1>6. Slot(h, h.nr_nodes) = tmp
  BY <1>1, <1>3, SlotLaid
<1> HIDE DEF b, c
<1>7. Nodes(b, m) = S \ {tmp}
  <2>1. Nodes(b, m) \subseteq Nodes(a, n) \ {tmp}
    BY <1>3, <1>5 DEF Nodes
  <2>2. Nodes(a, n) \ {tmp} \subseteq Nodes(b, m)
    BY <1>5 DEF Nodes
  <2> QED
    BY <1>1, <2>1, <2>2
<1>8. Sorted(b, m)
  <2>1. ASSUME NEW k \in 2..m PROVE Before(b[k \div 2], b[k])
    <3>1. k \in 2..n
      BY <1>3
    <3>2. k \div 2 \in 1..m /\ k \in 1..m
      BY <1>3, ParentSlot
    <3> QED
      BY <1>1, <1>5, <3>1, <3>2 DEF Sorted
  <2> QED
    BY <2>1 DEF Sorted
<1>9. CASE tmp = x
  <2>1. heap_remove(h, x) = c
    BY <1>3, <1>6, <1>9 DEF heap_remove, c
  <2>2. b \in Array(m)
    BY <1>4, LaidFacts
  <2> HIDE DEF m, tmp
  <2> QED
    BY <1>4, <1>7, <1>8, <1>9, <2>1, <2>2 DEF Heaped, m
<1>10. CASE tmp # x
  <2> DEFINE g == TakePlace(c, tmp, x)
             d == [b EXCEPT ![i] = tmp]
  <2>1. i \in 1..m /\ b[i] = x /\ tmp \in Node
    BY <1>2, <1>3, <1>5, <1>10
  <2>2. tmp \notin {b[k] : k \in 1..m}
    BY <1>7 DEF Nodes
  <2>3. Laid(g, d, m) /\ g.nr_nodes = m
    <3> HIDE DEF m, tmp
    <3>1. Laid(TakePlace(c, tmp, b[i]), [b EXCEPT ![i] = tmp], m)
          /\ TakePlace(c, tmp, b[i]).nr_nodes = c.nr_nodes
      BY <1>4, <2>1, <2>2, TakePlaceLaid
    <3> QED
      BY <1>4, <2>1, <3>1
  <2>4. b \in [1..m -> Node]
    BY <1>4, LaidFacts DEF Array
  <2>5. d[i] = tmp /\ \A k \in 1..m : k # i => d[k] = b[k]
    BY <2>1, <2>4
  <2>6. d \in Array(m)
    BY <2>3, LaidFacts
  <2> HIDE DEF d, g
  <2>7. Nodes(d, m) = S \ {x}
    <3> HIDE DEF m
    <3>1. \A k \in 1..m : b[k] = x => k = i
      BY <1>2, <1>3, <1>5, <2>1
    <3>2. Nodes(d, m) \subseteq (Nodes(b, m) \ {x}) \cup {tmp}
      BY <1>10, <2>1, <2>5, <3>1 DEF Nodes
    <3>3. (Nodes(b, m) \ {x}) \cup {tmp} \subseteq Nodes(d, m)
      <4>1. tmp \in Nodes(d, m)
        BY <2>1, <2>5 DEF Nodes
      <4>2. ASSUME NEW y \in Nodes(b, m), y # x PROVE y \in Nodes(d, m)
        <5>1. PICK k \in 1..m : y = b[k]
          BY DEF Nodes
        <5>2. k # i
          BY <2>1, <4>2, <5>1
        <5> QED
          BY <2>5, <5>1, <5>2 DEF Nodes
      <4> QED
        BY <4>1, <4>2
    <3>4. tmp \in S
      BY <1>1, <1>3 DEF Nodes
    <3> QED
      BY <1>7, <1>10, <3>2, <3>3, <3>4
  <2>8. AlmostDown(d, m, i)
    <3>0. m \in Nat
      BY <1>3
    <3> HIDE DEF m
    <3>1. ASSUME NEW k \in 2..m, k # i, k \div 2 # i PROVE Before(d[k \div 2], d[k])
      <4>1. k \div 2 \in 1..m /\ k \in 1..m
        BY <3>0, ParentSlot
      <4> QED
        BY <1>8, <2>5, <3>1, <4>1 DEF Sorted
    <3>2. ASSUME i > 1, NEW k \in 2..m, k \div 2 = i PROVE Before(d[i \div 2], d[k])
      <4>1. i \in 2..m /\ k \in 1..m /\ k # i
        BY <2>1, <3>0, <3>2, ParentSlot
      <4>2. i \div 2 \in 1..m /\ i \div 2 # i
        BY <3>0, <4>1, ParentSlot
      <4>3. Before(b[i \div 2], b[i]) /\ Before(b[i], b[k])
        BY <1>8, <3>2, <4>1 DEF Sorted
      <4>4. b[i \div 2] \in Node /\ b[i] \in Node /\ b[k] \in Node
        BY <2>1, <2>4, <4>1, <4>2
      <4>5. Before(b[i \div 2], b[k])
        BY <4>3, <4>4, Order
      <4> QED
        BY <2>5, <4>1, <4>2, <4>5
    <3> QED
      BY <3>1, <3>2 DEF AlmostDown
  <2>9. Down(g, m, S \ {x}, tmp, 0)
    <3>1. i > 0
      OBVIOUS
    <3> HIDE DEF m, tmp
    <3> QED
      BY <2>1, <2>3, <2>5, <2>6, <2>7, <2>8, <3>1 DEF Down
  <2>10. m \in Nat
    BY <1>3
  <2>11. heap_remove(h, x) = heap_decrease(heap_heapify(g, tmp), tmp)
    BY <1>3, <1>6, <1>10 DEF heap_remove, c, g
  <2> HIDE DEF m, tmp
  <2>12. Up(heap_heapify(g, tmp), m, S \ {x}, tmp, 0)
    BY <2>9, <2>10, HeapifySifts
  <2>13. Heaped(heap_decrease(heap_heapify(g, tmp), tmp), m, S \ {x})
    BY <2>10, <2>12, DecreaseSorts
  <2> QED
    BY <2>11, <2>13 DEF m
<1> QED
  BY <1>9, <1>10

-----------------------------------------------------------------------------
(* The heap is laid out in order, with the nodes that can be reached.      *)
IInv == \E n \in Nat : Heaped(heap, n, Members)

LEMMA MembersReached == Members = Reached(heap)
  BY DEF Members, Reached

LEMMA HeapedMembers ==
    ASSUME NEW n, NEW S, Heaped(heap, n, S)
    PROVE  IInv /\ Members = S
  BY NodesReached, MembersReached DEF IInv

LEMMA HeapedMembersNext ==
    ASSUME NEW n, NEW S, Heaped(heap', n, S)
    PROVE  IInv' /\ Members' = S
<1>1. PICK h : h = heap'
  OBVIOUS
<1>2. Reached(h) = S /\ n \in Nat
  BY <1>1, NodesReached
<1>3. Members' = Reached(h)
  BY <1>1 DEF Members, Reached
<1> QED
  BY <1>2, <1>3 DEF IInv

LEMMA Initially ==
    ASSUME Init
    PROVE  IInv /\ Members = {} /\ heap.head = NULL
<1> DEFINE a == [k \in 1..0 |-> NULL]
<1>1. heap \in Heap /\ heap.head = NULL /\ heap.nr_nodes = 0
  BY DEF Init, heap_init, Heap, Ptr
<1>2. a \in Array(0) /\ Injective(a, 0) /\ Nodes(a, 0) = {} /\ Sorted(a, 0)
  BY DEF Array, Injective, Nodes, Sorted
<1>3. Links(heap, a, 0)
  BY <1>1 DEF Links, At
<1> HIDE DEF a
<1>4. Laid(heap, a, 0)
  BY <1>1, <1>2, <1>3 DEF Laid, Array
<1>5. Heaped(heap, 0, {})
  BY <1>1, <1>2, <1>4 DEF Heaped
<1> QED
  BY <1>1, <1>5, HeapedMembers

(* A call adds its node to the members or takes it out.                    *)
LEMMA InsertStep ==
    ASSUME IInv, NEW x \in Node, InsertNode(x)
    PROVE  IInv' /\ x \notin Members /\ Members' = Members \cup {x}
<1>1. PICK n \in Nat : Heaped(heap, n, Members)
  BY DEF IInv
<1>2. PICK junk \in Ptr : heap' = heap_insert(WithPointers(heap, x, junk), x)
  BY DEF InsertNode
<1>3. x \notin Members
  BY DEF InsertNode
<1>4. PICK S : S = Members
  OBVIOUS
<1>5. Heaped(WithPointers(heap, x, junk), n, S)
  BY <1>1, <1>3, <1>4, PointersHeaped
<1>6. Heaped(heap', n + 1, S \cup {x})
  BY <1>2, <1>3, <1>4, <1>5, InsertHeaped
<1> QED
  BY <1>3, <1>4, <1>6, HeapedMembersNext

LEMMA RemoveStep ==
    ASSUME IInv, NEW x \in Node, RemoveNode(x)
    PROVE  IInv' /\ x \in Members /\ Members' = Members \ {x}
<1>1. PICK n \in Nat : Heaped(heap, n, Members)
  BY DEF IInv
<1>2. PICK S : S = Members
  OBVIOUS
<1>3. x \in Members /\ heap' = WithPointers(heap_remove(heap, x), x, NULL)
  BY DEF RemoveNode
<1>4. Heaped(heap_remove(heap, x), n - 1, S \ {x})
  BY <1>1, <1>2, <1>3, RemoveHeaped
<1>5. NULL \in Ptr /\ x \notin S \ {x}
  BY DEF Ptr
<1>6. Heaped(heap', n - 1, S \ {x})
  BY <1>3, <1>4, <1>5, PointersHeaped
<1> QED
  BY <1>2, <1>3, <1>6, HeapedMembersNext

LEMMA InductiveInvariant == Spec => []IInv
<1>1. Init => IInv
  BY Initially
<1>2. IInv /\ [Next]_heap => IInv'
  <2> SUFFICES ASSUME IInv, [Next]_heap PROVE IInv'
    OBVIOUS
  <2>1. ASSUME NEW x \in Node, InsertNode(x) PROVE IInv'
    BY <2>1, InsertStep
  <2>2. ASSUME NEW x \in Node, RemoveNode(x) PROVE IInv'
    BY <2>2, RemoveStep
  <2>3. CASE UNCHANGED heap
    BY <2>3 DEF IInv, Members
  <2> QED
    BY <2>1, <2>2, <2>3 DEF Next
<1> QED
  BY <1>1, <1>2, PTL DEF Spec

(* Whatever the nodes, their order and the calls, the heap is a complete   *)
(* binary tree: the paths that heap_insert and heap_remove compute from    *)
(* nr_nodes lead to the first free and to the last slot.                   *)
THEOREM HeapStaysComplete == Spec => []HeapShape
<1>1. IInv => HeapShape
  <2> SUFFICES ASSUME IInv PROVE HeapShape
    OBVIOUS
  <2>1. PICK n \in Nat : Heaped(heap, n, Members)
    BY DEF IInv
  <2>2. PICK a \in Array(n) : /\ Laid(heap, a, n) /\ heap.nr_nodes = n
                              /\ Nodes(a, n) = Members
    BY <2>1 DEF Heaped
  <2>3. \A k \in 1..n : Slot(heap, k) = a[k]
    BY <2>2, SlotLaid
  <2>4. {Slot(heap, k) : k \in 1..n} = Members
    BY <2>2, <2>3 DEF Nodes
  <2>5. Cardinality(Members) = n
    BY <2>2, CountLaid DEF Nodes
  <2>6. ASSUME NEW k \in 1..n
        PROVE  heap.parent[Slot(heap, k)] = IF k = 1 THEN NULL ELSE Slot(heap, k \div 2)
    <3>1. heap.parent[a[k]] = At(a, n, k \div 2)
      BY <2>2, LaidFacts
    <3>2. CASE k = 1
      BY <2>3, <3>1, <3>2 DEF At
    <3>3. CASE k # 1
      <4>1. k \div 2 \in 1..n
        BY <3>3
      <4> QED
        BY <2>3, <3>1, <3>3, <4>1 DEF At
    <3> QED
      BY <3>2, <3>3
  <2>7. heap \in Heap
    BY <2>2, LaidFacts
  <2> QED
    BY <2>2, <2>4, <2>5, <2>6, <2>7 DEF HeapShape
<1> QED
  BY <1>1, InductiveInvariant, PTL

(* The sift loops restore the order, and they do so within as many rounds  *)
(* as there are nodes.                                                     *)
THEOREM HeapStaysOrdered == Spec => []HeapOrder
<1>1. IInv => HeapOrder
  <2> SUFFICES ASSUME IInv, NEW x \in Members, heap.parent[x] # NULL
               PROVE  ~Before(x, heap.parent[x])
    BY DEF HeapOrder
  <2>1. PICK n \in Nat : Heaped(heap, n, Members)
    BY DEF IInv
  <2>2. PICK a \in Array(n) : /\ Laid(heap, a, n) /\ Nodes(a, n) = Members /\ Sorted(a, n)
    BY <2>1 DEF Heaped
  <2>3. PICK k \in 1..n : x = a[k]
    BY <2>2 DEF Nodes
  <2>4. heap.parent[x] = At(a, n, k \div 2)
    BY <2>2, <2>3, LaidFacts
  <2>5. k \div 2 \in 1..n /\ k \in 2..n
    BY <2>4 DEF At
  <2>6. Before(a[k \div 2], a[k])
    BY <2>2, <2>5 DEF Sorted
  <2>7. a[k \div 2] \in Node /\ a[k] \in Node
    BY <2>2, <2>5, LaidFacts
  <2> QED
    BY <2>3, <2>4, <2>5, <2>6, <2>7, Order DEF At
<1> QED
  BY <1>1, InductiveInvariant, PTL

(* What heap_peek_head returns is the first of the members. *)
LEMMA HeadFirst ==
    ASSUME NEW h, NEW n, NEW S, Heaped(h, n, S)
    PROVE  h.head = Queue!First(S)
<1>1. PICK a \in Array(n) : /\ Laid(h, a, n) /\ Nodes(a, n) = S /\ Sorted(a, n)
  BY DEF Heaped
<1>2. n \in Nat /\ S \subseteq Node
  BY NodesReached
<1>3. h.head = At(a, n, 1)
  BY <1>1 DEF Laid, Links
<1>4. CASE n = 0
  <2>1. S = {} /\ h.head = NULL
    BY <1>1, <1>3, <1>4 DEF Nodes, At
  <2> QED
    BY <2>1 DEF Queue!First
<1>5. CASE n # 0
  <2>1. 1 \in 1..n /\ h.head = a[1] /\ h.head \in S
    BY <1>1, <1>2, <1>3, <1>5 DEF Nodes, At
  <2>2. ASSUME NEW y \in S \ {h.head} PROVE Before(h.head, y)
    <3>1. PICK k \in 1..n : y = a[k]
      BY <1>1 DEF Nodes
    <3>2. k \in 2..n
      BY <2>1, <2>2, <3>1
    <3> QED
      BY <1>1, <1>2, <2>1, <3>1, <3>2, RootFirst
  <2>3. ASSUME NEW y \in S, \A z \in S \ {y} : Before(y, z)
        PROVE  y = h.head
    BY <1>2, <2>1, <2>2, <2>3, Order
  <2>4. (CHOOSE y \in S : \A z \in S \ {y} : Before(y, z)) = h.head
    BY <2>1, <2>2, <2>3
  <2> QED
    BY <2>1, <2>4 DEF Queue!First
<1> QED
  BY <1>4, <1>5

LEMMA HeadFirstNext ==
    ASSUME IInv'
    PROVE  (heap.head)' = Queue!First(Members')
<1>1. PICK h : h = heap'
  OBVIOUS
<1>2. PICK S : S = Members'
  OBVIOUS
<1>3. PICK n \in Nat : Heaped(h, n, S)
  BY <1>1, <1>2 DEF IInv
<1>4. h.head = Queue!First(S)
  BY <1>3, HeadFirst
<1> QED
  BY <1>1, <1>2, <1>4

(* heap.c implements the priority queue: every call of heap_insert and     *)
(* heap_remove adds or takes its own node and no other, and the head is    *)
(* the node that comes before all others.                                  *)
THEOREM HeapImplementsQueue == Spec => ImplementsQueue
<1>1. Init => Queue!Init
  BY Initially DEF Queue!Init
<1>2. ASSUME IInv, IInv', [Next]_heap PROVE [Queue!Next]_<<Members, heap.head>>
  <2>1. (heap.head)' = Queue!First(Members')
    BY <1>2, HeadFirstNext
  <2>2. ASSUME NEW x \in Node, InsertNode(x) PROVE Queue!Insert(x)
    BY <1>2, <2>1, <2>2, InsertStep DEF Queue!Insert
  <2>3. ASSUME NEW x \in Node, RemoveNode(x) PROVE Queue!Remove(x)
    BY <1>2, <2>1, <2>3, RemoveStep DEF Queue!Remove
  <2>4. CASE UNCHANGED heap
    BY <2>4 DEF Members
  <2> QED
    BY <1>2, <2>2, <2>3, <2>4 DEF Next, Queue!Next
<1> QED
  BY <1>1, <1>2, InductiveInvariant, PTL DEF Spec, ImplementsQueue, Queue!Spec
=============================================================================
