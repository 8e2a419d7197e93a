--------------------------- MODULE NetHandles_proofs ---------------------------
(***************************************************************************)
(* Proofs about the fields of the handles of Net: their types, the sizes   *)
(* of their queues of writes, and the connections a server accepts, for    *)
(* any handles, writes and sizes, under the use of the library that the    *)
(* passing runs have.                                                      *)
(*                                                                         *)
(* The first lemmas are about Units, the sum of what a sequence of writes  *)
(* has left: how it splits, and that only what is left of its own writes   *)
(* matters.  No write is pending twice (NetWrites_proofs), so that what a  *)
(* step takes from one write it takes from one place of one queue.         *)
(***************************************************************************)
EXTENDS NetWrites_proofs

(* Units(rs), for `l` units left of the writes. *)
UnitsOf(l, rs) ==
    LET sum[i \in 0..Len(rs)] == IF i = 0 THEN 0 ELSE sum[i - 1] + l[rs[i]]
    IN  sum[Len(rs)]

(* s is the function `sum` of Units. *)
Sums(s, l, rs) ==
    /\ s \in [0..Len(rs) -> Nat]
    /\ s[0] = 0
    /\ \A i \in 1..Len(rs) : s[i] = s[i - 1] + l[rs[i]]

LEMMA SumsExists ==
    ASSUME NEW l \in [Reqs -> Nat], NEW rs \in Seq(Reqs)
    PROVE  \E s : Sums(s, l, rs) /\ UnitsOf(l, rs) = s[Len(rs)]
<1> DEFINE n == Len(rs)
           step == [i \in 1..n |-> [v \in Nat |-> v + l[rs[i]]]]
<1>1. n \in Nat /\ \A i \in 1..n : l[rs[i]] \in Nat
  OBVIOUS
<1>2. step \in [1..n -> [Nat -> Nat]]
  <2>1. \A i \in 1..n : \A v \in Nat : v + l[rs[i]] \in Nat
    BY <1>1
  <2> QED
    BY <2>1
<1>3. PICK s \in [0..n -> Nat] : Iterates(s, n, 0, step)
  <2>1. 0 \in Nat
    OBVIOUS
  <2> HIDE DEF n, step
  <2> QED
    BY <1>1, <1>2, <2>1, Recursion
<1>4. \A i \in 1..n : i - 1 \in 0..n
  BY <1>1
<1>5. s[0] = 0 /\ \A i \in 1..n : s[i] = s[i - 1] + l[rs[i]]
  BY <1>3, <1>4 DEF Iterates
<1>6. Sums(s, l, rs)
  BY <1>5 DEF Sums
<1> DEFINE Is(sum) == sum = [i \in 0..n |-> IF i = 0 THEN 0 ELSE sum[i - 1] + l[rs[i]]]
           f == CHOOSE sum : Is(sum)
<1>7. Is(s)
  <2>1. \A i \in 0..n : s[i] = IF i = 0 THEN 0 ELSE s[i - 1] + l[rs[i]]
    <3>1. \A i \in 0..n : i = 0 \/ i \in 1..n
      BY <1>1
    <3> QED
      BY <1>5, <3>1
  <2> QED
    BY <1>3, <2>1
<1>8. Is(f)
  <2> HIDE DEF Is
  <2> QED
    BY <1>7
<1>9. UnitsOf(l, rs) = f[n]
  BY DEF UnitsOf
<1>10. f[0] = 0 /\ \A i \in 1..n : f[i] = f[i - 1] + l[rs[i]]
  <2> HIDE DEF f
  <2>1. 0 \in 0..n /\ \A i \in 1..n : i \in 0..n /\ i # 0
    BY <1>1
  <2> QED
    BY <1>8, <2>1
<1>11. \A i \in 0..n : f[i] = s[i]
  <2> HIDE DEF f, n
  <2> DEFINE T == {i \in 0..n : f[i] = s[i]}
  <2>1. 0 \in T
    BY <1>1, <1>5, <1>10
  <2>2. \A i \in 1..n : i - 1 \in T => i \in T
    BY <1>1, <1>5, <1>10
  <2>3. \A i \in 0..n : i \in T
    <3> HIDE DEF T
    <3> QED
      BY <1>1, <2>1, <2>2, UpTo
  <2> QED
    BY <2>3
<1> HIDE DEF f
<1> QED
  BY <1>1, <1>6, <1>9, <1>11

LEMMA SumsUnique ==
    ASSUME NEW l \in [Reqs -> Nat], NEW rs \in Seq(Reqs), NEW s, Sums(s, l, rs)
    PROVE  UnitsOf(l, rs) = s[Len(rs)]
<1>1. PICK t : Sums(t, l, rs) /\ UnitsOf(l, rs) = t[Len(rs)]
  BY SumsExists
<1> DEFINE n == Len(rs)
           T == {i \in 0..n : s[i] = t[i]}
<1>2. n \in Nat
  OBVIOUS
<1>3. 0 \in T /\ \A i \in 1..n : i - 1 \in T => i \in T
  BY <1>1, <1>2 DEF Sums
<1>4. \A i \in 0..n : i \in T
  <2> HIDE DEF T, n
  <2> QED
    BY <1>2, <1>3, UpTo
<1> QED
  BY <1>1, <1>2, <1>4

LEMMA UnitsType ==
    ASSUME NEW l \in [Reqs -> Nat], NEW rs \in Seq(Reqs)
    PROVE  UnitsOf(l, rs) \in Nat
<1>1. PICK s : Sums(s, l, rs) /\ UnitsOf(l, rs) = s[Len(rs)]
  BY SumsExists
<1>2. Len(rs) \in 0..Len(rs)
  OBVIOUS
<1> QED
  BY <1>1, <1>2 DEF Sums

LEMMA UnitsSmall ==
    ASSUME NEW l \in [Reqs -> Nat]
    PROVE  UnitsOf(l, <<>>) = 0 /\ \A r \in Reqs : UnitsOf(l, <<r>>) = l[r]
<1>1. UnitsOf(l, <<>>) = 0
  <2>1. <<>> \in Seq(Reqs) /\ Len(<<>>) = 0
    OBVIOUS
  <2>2. PICK s : Sums(s, l, <<>>) /\ UnitsOf(l, <<>>) = s[0]
    BY <2>1, SumsExists
  <2> QED
    BY <2>2 DEF Sums
<1>2. ASSUME NEW r \in Reqs PROVE UnitsOf(l, <<r>>) = l[r]
  <2> DEFINE rs == <<r>>
  <2>1. rs \in Seq(Reqs) /\ Len(rs) = 1 /\ rs[1] = r /\ l[r] \in Nat
    OBVIOUS
  <2> HIDE DEF rs
  <2>2. PICK s : Sums(s, l, rs) /\ UnitsOf(l, rs) = s[1]
    BY <2>1, SumsExists
  <2>3. s[0] = 0 /\ s[1] = s[0] + l[r]
    BY <2>1, <2>2 DEF Sums
  <2> QED
    BY <2>1, <2>2, <2>3 DEF rs
<1> QED
  BY <1>1, <1>2

LEMMA UnitsConcat ==
    ASSUME NEW l \in [Reqs -> Nat], NEW a \in Seq(Reqs), NEW b \in Seq(Reqs)
    PROVE  UnitsOf(l, a \o b) = UnitsOf(l, a) + UnitsOf(l, b)
<1> DEFINE m == Len(a)
           n == Len(b)
           c == a \o b
<1>1. /\ m \in Nat /\ n \in Nat /\ c \in Seq(Reqs) /\ Len(c) = m + n
      /\ \A i \in 1..(m + n) : c[i] = IF i <= m THEN a[i] ELSE b[i - m]
  OBVIOUS
<1>2. PICK s : Sums(s, l, a) /\ UnitsOf(l, a) = s[m]
  BY SumsExists
<1>3. PICK t : Sums(t, l, b) /\ UnitsOf(l, b) = t[n]
  BY SumsExists
<1>4. /\ s \in [0..m -> Nat] /\ s[0] = 0 /\ \A i \in 1..m : s[i] = s[i - 1] + l[a[i]]
      /\ t \in [0..n -> Nat] /\ t[0] = 0 /\ \A i \in 1..n : t[i] = t[i - 1] + l[b[i]]
  BY <1>2, <1>3 DEF Sums
<1> HIDE DEF c, m, n
<1> DEFINE u == [i \in 0..(m + n) |-> IF i <= m THEN s[i] ELSE s[m] + t[i - m]]
<1>5. u \in [0..(m + n) -> Nat] /\ u[0] = 0
  <2>1. ASSUME NEW i \in 0..(m + n) PROVE (IF i <= m THEN s[i] ELSE s[m] + t[i - m]) \in Nat
    <3>1. CASE i <= m
      BY <1>1, <1>4, <3>1
    <3>2. CASE ~(i <= m)
      <4>1. i - m \in 0..n /\ m \in 0..m
        BY <1>1, <3>2
      <4>2. t[i - m] \in Nat /\ s[m] \in Nat
        BY <1>4, <4>1
      <4> QED
        BY <3>2, <4>2
    <3> QED
      BY <3>1, <3>2
  <2>2. 0 \in 0..(m + n) /\ 0 <= m
    BY <1>1
  <2> QED
    BY <1>4, <2>1, <2>2
<1>6. ASSUME NEW i \in 1..(m + n) PROVE u[i] = u[i - 1] + l[c[i]]
  <2>1. i \in 0..(m + n) /\ i - 1 \in 0..(m + n)
    BY <1>1
  <2>2. CASE i <= m
    <3>1. i \in 1..m /\ i - 1 <= m
      BY <1>1, <2>2
    <3>2. u[i] = s[i] /\ u[i - 1] = s[i - 1] /\ c[i] = a[i]
      BY <1>1, <2>1, <2>2, <3>1
    <3> QED
      BY <1>4, <3>1, <3>2
  <2>3. CASE i = m + 1
    <3>1. 1 \in 1..n /\ i - m = 1 /\ i - 1 = m /\ ~(i <= m) /\ m <= m /\ m \in 0..m
      BY <1>1, <2>3
    <3>2. u[i] = s[m] + t[1] /\ u[i - 1] = s[m] /\ c[i] = b[1]
      BY <1>1, <2>1, <3>1
    <3>3. t[1] = t[0] + l[b[1]] /\ t[1] \in Nat /\ s[m] \in Nat
      <4>1. 1 \in 0..n /\ 1 - 1 = 0
        BY <1>1, <3>1
      <4> QED
        BY <1>4, <3>1, <4>1
    <3>4. b[1] \in Reqs
      BY <1>1, <3>1 DEF n
    <3> QED
      BY <1>4, <3>2, <3>3, <3>4
  <2>4. CASE i > m + 1
    <3> DEFINE j == i - m
    <3>1. j \in 1..n /\ (i - 1) - m = j - 1 /\ j - 1 \in 0..n /\ j \in 0..n
          /\ ~(i <= m) /\ ~(i - 1 <= m) /\ m \in 0..m
      BY <1>1, <2>4
    <3>2. u[i] = s[m] + t[j] /\ u[i - 1] = s[m] + t[j - 1] /\ c[i] = b[j]
      BY <1>1, <2>1, <3>1
    <3> HIDE DEF j
    <3>3. t[j] = t[j - 1] + l[b[j]] /\ t[j - 1] \in Nat /\ s[m] \in Nat /\ b[j] \in Reqs
      <4>1. b[j] \in Reqs
        BY <1>1, <3>1 DEF n
      <4>2. t[j - 1] \in Nat /\ s[m] \in Nat
        BY <1>4, <3>1
      <4> QED
        BY <1>4, <3>1, <4>1, <4>2
    <3>4. l[b[j]] \in Nat
      BY <3>3
    <3> HIDE DEF u
    <3> QED
      BY <3>2, <3>3, <3>4
  <2> QED
    BY <1>1, <2>2, <2>3, <2>4
<1>7. Sums(u, l, c)
  <2> HIDE DEF u
  <2> QED
    BY <1>1, <1>5, <1>6 DEF Sums
<1>8. UnitsOf(l, c) = u[m + n]
  <2> HIDE DEF u
  <2> QED
    BY <1>1, <1>7, SumsUnique
<1>9. u[m + n] = s[m] + t[n]
  <2>1. CASE n = 0
    BY <1>1, <1>4, <2>1
  <2>2. CASE n # 0
    <3>1. ~(m + n <= m) /\ (m + n) - m = n /\ m + n \in 0..(m + n)
      BY <1>1, <2>2
    <3> QED
      BY <3>1
  <2> QED
    BY <2>1, <2>2
<1> QED
  BY <1>2, <1>3, <1>8, <1>9 DEF c, m, n

(* Only what is left of the writes of the sequence matters. *)
LEMMA UnitsSame ==
    ASSUME NEW l \in [Reqs -> Nat], NEW k \in [Reqs -> Nat], NEW rs \in Seq(Reqs),
           \A r \in ToSet(rs) : k[r] = l[r]
    PROVE  UnitsOf(k, rs) = UnitsOf(l, rs)
<1>1. PICK s : Sums(s, l, rs) /\ UnitsOf(l, rs) = s[Len(rs)]
  BY SumsExists
<1>2. \A i \in 1..Len(rs) : k[rs[i]] = l[rs[i]]
  BY DEF ToSet
<1>3. Sums(s, k, rs)
  BY <1>1, <1>2 DEF Sums
<1> QED
  BY <1>1, <1>3, SumsUnique

LEMMA UnitsDef ==
    ASSUME NEW rs
    PROVE  Units(rs) = UnitsOf(left, rs) /\ Units(rs)' = UnitsOf(left', rs)
BY DEF Units, UnitsOf

-----------------------------------------------------------------------------
(* The sizes of the queues. *)

Sized(h) ==
    /\ handle[h].size \in Nat
    /\ handle[h].state = "open" /\ ~BeingClosed(h)
          => handle[h].size = UnitsOf(left, write_queue[h])

SizeKept == left \in [Reqs -> Nat] /\ \A h \in Handles : Sized(h)

(* The queue of a handle holds writes in flight, each once, and no other    *)
(* handle has them.                                                         *)
LEMMA QueueFacts ==
    ASSUME NetShape, NoRepeats, NEW h \in Handles
    PROVE  /\ write_queue[h] \in Seq(Reqs) /\ IsInjective(write_queue[h])
           /\ ToSet(write_queue[h]) \subseteq ToSet(Pending(h))
           /\ ToSet(write_queue[h]) \subseteq InFlight
           /\ \A g \in Handles \ {h} : ToSet(write_queue[h]) \cap ToSet(Pending(g)) = {}
<1> DEFINE w == write_queue[h]
           p == PendingIn(stack, <<>>, h)
<1>1. w \in Seq(Reqs) /\ <<>> \in Seq(Reqs) /\ stack \in Seq(Frames)
  BY DEF NetShape
<1>2. p \in Seq(Reqs)
  BY <1>1, PendingType
<1>3. Pending(h) = p \o w
  BY <1>1, PendingDef, PendingQueueLast
<1> HIDE DEF w, p
<1>4. IsInjective(w) /\ ToSet(w) \subseteq ToSet(Pending(h))
  <2>1. IsInjective(p \o w)
    BY <1>3 DEF NoRepeats
  <2>2. ToSet(p \o w) = ToSet(p) \cup ToSet(w) /\ IsInjective(w)
    BY <1>1, <1>2, <2>1, ConcatFacts
  <2> QED
    BY <1>3, <2>2
<1> QED
  BY <1>1, <1>4 DEF w, NoRepeats, InFlight

(* A handle stays in the middle of apc_close until CloseEnd. *)
LEMMA StaysClosed ==
    ASSUME IInv, NEW g \in Handles,
           \/ UNCHANGED stack \/ stack = <<>> \/ Top.pc \notin Flushing
           \/ \E f \in Frames : stack' = <<f>> \o stack
           \/ \E f \in Frames : /\ stack # <<>> /\ Replace(f)
                                /\ f.h = Top.h /\ f.pc \in Flushing
    PROVE  BeingClosed(g) => BeingClosed(g)'
<1>0. NetShape /\ stack \in Seq(Frames)
  BY DEF IInv, NetShape
<1>1. CASE stack = <<>> \/ Top.pc \notin Flushing
  <2>1. Alone
    BY <1>1, TopAlone DEF Alone
  <2> QED
    BY <2>1, AloneFacts
<1>2. CASE UNCHANGED stack
  BY <1>2 DEF BeingClosed, InFrame
<1>3. ASSUME NEW f \in Frames, stack' = <<f>> \o stack, BeingClosed(g) PROVE BeingClosed(g)'
  <2>1. PICK i \in 1..Len(stack) : stack[i].h = g /\ stack[i].pc \in Flushing
    BY <1>0, <1>3, BeingClosedIs
  <2>2. stack' \in Seq(Frames) /\ i + 1 \in 1..Len(stack') /\ stack'[i + 1] = stack[i]
    BY <1>0, <1>3
  <2> QED
    BY <2>1, <2>2, BeingClosedWas
<1>4. ASSUME NEW f \in Frames, stack # <<>>, Replace(f), f.h = Top.h, f.pc \in Flushing,
             BeingClosed(g)
      PROVE  BeingClosed(g)'
  <2>1. PICK i \in 1..Len(stack) : stack[i].h = g /\ stack[i].pc \in Flushing
    BY <1>0, <1>4, BeingClosedIs
  <2>2. /\ stack' \in Seq(Frames) /\ Len(stack') = Len(stack) /\ Len(stack) \in Nat
        /\ stack'[1] = f /\ stack[1] = Top
        /\ \A j \in 2..Len(stack) : stack'[j] = stack[j]
    BY <1>0, <1>4, ReplaceFacts, FrameFacts
  <2>3. i \in 1..Len(stack') /\ stack'[i].h = g /\ stack'[i].pc \in Flushing
    <3>1. i = 1 \/ i \in 2..Len(stack)
      BY <2>2
    <3> QED
      BY <1>4, <2>1, <2>2, <3>1
  <2> QED
    BY <2>2, <2>3, BeingClosedWas
<1> QED
  BY <1>1, <1>2, <1>3, <1>4

(* What a step does not touch keeps its size. *)
LEMMA SizedSame ==
    ASSUME NetShape, SizeKept, left' \in [Reqs -> Nat], NEW g \in Handles,
           handle'[g].size = handle[g].size,
           handle'[g].state = "open" => handle[g].state = "open",
           BeingClosed(g) => BeingClosed(g)',
           write_queue'[g] = write_queue[g],
           \A r \in ToSet(write_queue[g]) : left'[r] = left[r]
    PROVE  Sized(g)'
<1>1. write_queue[g] \in Seq(Reqs)
  BY DEF NetShape
<1>2. UnitsOf(left', write_queue[g]) = UnitsOf(left, write_queue[g])
  BY <1>1, UnitsSame DEF SizeKept
<1> QED
  BY <1>2 DEF Sized, SizeKept

(* A handle whose memory is used for the first time has no writes. *)
LEMMA SizedFresh ==
    ASSUME NetShape, SizeKept, left' \in [Reqs -> Nat], NEW g \in Handles,
           handle'[g].size = 0, write_queue'[g] = <<>>
    PROVE  Sized(g)'
<1>1. UnitsOf(left', <<>>) = 0
  BY UnitsSmall
<1> QED
  BY <1>1 DEF Sized

(* Steps that leave the writes alone and at most clear a handle that has no *)
(* writes.                                                                  *)
LEMMA SizesSame ==
    ASSUME IInv, SizeKept, UNCHANGED <<left, write_queue>>,
           \A g \in Handles :
              /\ BeingClosed(g) => BeingClosed(g)'
              /\ \/ /\ handle'[g].size = handle[g].size
                    /\ handle'[g].state = "open" => handle[g].state = "open"
                 \/ handle'[g].size = 0 /\ write_queue[g] = <<>>
    PROVE  SizeKept'
<1>1. NetShape /\ left' \in [Reqs -> Nat]
  BY DEF IInv, SizeKept
<1> SUFFICES ASSUME NEW g \in Handles PROVE Sized(g)'
  BY <1>1 DEF SizeKept
<1> QED
  BY <1>1, SizedSame, SizedFresh

(* The calls of the user. *)
LEMMA OtherCallSizes ==
    ASSUME IInv, SizeKept, NEW h \in Handles, UNCHANGED stack,
           \/ apc_net_init(h) \/ apc_bind(h) \/ apc_tcp_connect(h) \/ apc_listen(h)
           \/ apc_start_read(h) \/ apc_stop_read(h) \/ apc_reject(h)
           \/ \E c \in Handles : apc_accept(h, c)
    PROVE  SizeKept'
<1>0. NetShape /\ HandleShape
  BY DEF IInv, NetShape
<1>1. UNCHANGED <<left, write_queue>>
  BY DEF apc_net_init, apc_bind, apc_tcp_connect, apc_listen, apc_start_read, apc_stop_read,
         apc_reject, apc_accept
<1>2. \A g \in Handles : BeingClosed(g) => BeingClosed(g)'
  BY StaysClosed
<1> DEFINE Kept(g) == /\ handle'[g].size = handle[g].size
                      /\ handle'[g].state = "open" => handle[g].state = "open"
           Fresh(g) == handle'[g].size = 0 /\ write_queue[g] = <<>>
<1>3. \A g \in Handles : Kept(g) \/ Fresh(g)
  <2>1. CASE apc_net_init(h)
    <3>1. write_queue[h] = <<>>
      BY <2>1, NoSocketFacts DEF apc_net_init
    <3>2. PICK use \in Uses[h] :
             handle' = [handle EXCEPT ![h] = [NoHandleYet EXCEPT !.state = "open", !.use = use]]
      BY <2>1 DEF apc_net_init
    <3> QED
      BY <1>0, <3>1, <3>2 DEF HandleShape, NoHandleYet
  <2>2. CASE apc_bind(h)
    BY <1>0, <2>2 DEF apc_bind, HandleShape, Fields
  <2>3. CASE apc_tcp_connect(h)
    BY <1>0, <2>3 DEF apc_tcp_connect, HandleShape, Fields, With
  <2>4. CASE apc_listen(h)
    BY <1>0, <2>4 DEF apc_listen, HandleShape, Fields, With
  <2>5. CASE apc_start_read(h)
    BY <1>0, <2>5 DEF apc_start_read, HandleShape, Fields, With
  <2>6. CASE apc_stop_read(h)
    BY <1>0, <2>6 DEF apc_stop_read, StoppedReading, HandleShape, Fields
  <2>7. CASE apc_reject(h)
    BY <1>0, <2>7 DEF apc_reject, HandleShape, Fields
  <2>8. ASSUME NEW c \in Handles, apc_accept(h, c)
        PROVE  \A g \in Handles : Kept(g) \/ Fresh(g)
    <3> DEFINE x == [NoHandleYet EXCEPT !.state = "open", !.use = "stream", !.role = "stream"]
    <3>1. x.size = 0 /\ write_queue[c] = <<>> /\ h # c
      BY <2>8, NoSocketFacts DEF apc_accept, MayCall, NoHandleYet
    <3> HIDE DEF x
    <3>2. handle' = [handle EXCEPT ![c] = x, ![h].accepted = NoFd]
      BY <2>8 DEF apc_accept, x
    <3> QED
      BY <1>0, <3>1, <3>2 DEF HandleShape, Fields
  <2> QED
    BY <2>1, <2>2, <2>3, <2>4, <2>5, <2>6, <2>7, <2>8
<1> QED
  BY <1>1, <1>2, <1>3, SizesSame

LEMMA WriteCallSizes ==
    ASSUME IInv, Supported, NoRepeats, SizeKept, NEW h \in Handles, NEW r \in Reqs,
           UNCHANGED stack, apc_write(h, r)
    PROVE  SizeKept'
<1>0. NetShape /\ HandleShape
  BY DEF IInv, NetShape
<1>1. ~BeingClosed(h) /\ handle[h].connecting = FALSE /\ handle[h].state = "open"
      /\ r \notin InFlight
  BY <1>0, MayCallFacts DEF apc_write, Supported, HandleShape, MayCall
<1>2. PICK n \in Sizes :
         /\ left' = [left EXCEPT ![r] = n]
         /\ handle' = [handle EXCEPT ![h] = [With(h, {"ACTIVE", "WRITABLE"}) EXCEPT !.size = @ + n]]
  BY <1>1 DEF apc_write
<1>3. n \in Nat /\ left \in [Reqs -> Nat] /\ handle[h].size \in Nat
  BY NetAssumption DEF SizeKept, Sized
<1>4. left' \in [Reqs -> Nat] /\ left'[r] = n
  BY <1>2, <1>3
<1>5. \A g \in Handles : r \notin ToSet(write_queue[g])
  BY <1>0, <1>1, QueueFacts
<1>6. \A g \in Handles : \A s \in ToSet(write_queue[g]) : s \in Reqs /\ left'[s] = left[s]
  <2> SUFFICES ASSUME NEW g \in Handles, NEW s \in ToSet(write_queue[g])
               PROVE  s \in Reqs /\ left'[s] = left[s]
    OBVIOUS
  <2>1. write_queue[g] \in Seq(Reqs)
    BY <1>0 DEF NetShape
  <2>2. s \in Reqs
    BY <2>1 DEF ToSet
  <2> QED
    BY <1>2, <1>3, <1>5, <2>2
<1>7. /\ write_queue'[h] = Append(write_queue[h], r)
      /\ \A g \in Handles \ {h} : write_queue'[g] = write_queue[g]
  BY <1>0 DEF apc_write, NetShape
<1>8. /\ handle'[h].size = handle[h].size + n
      /\ \A g \in Handles \ {h} : handle'[g] = handle[g]
  BY <1>0, <1>2, <1>3 DEF HandleShape, Fields, With
<1>9. Sized(h)'
  <2> DEFINE w == write_queue[h]
  <2>1. w \in Seq(Reqs) /\ <<r>> \in Seq(Reqs)
    BY <1>0 DEF NetShape
  <2>2. Append(w, r) = w \o <<r>>
    <3> HIDE DEF w
    <3> QED
      BY <2>1
  <2>3. UnitsOf(left', w \o <<r>>) = UnitsOf(left', w) + UnitsOf(left', <<r>>)
    <3> HIDE DEF w
    <3> QED
      BY <1>4, <2>1, UnitsConcat
  <2>4. UnitsOf(left', w) = UnitsOf(left, w)
    <3>1. \A s \in ToSet(w) : left'[s] = left[s]
      BY <1>6
    <3> HIDE DEF w
    <3> QED
      BY <1>3, <1>4, <2>1, <3>1, UnitsSame
  <2>5. UnitsOf(left', <<r>>) = n
    BY <1>4, UnitsSmall
  <2>6. handle[h].size = UnitsOf(left, w)
    BY <1>1 DEF SizeKept, Sized
  <2> QED
    BY <1>3, <1>7, <1>8, <2>2, <2>3, <2>4, <2>5, <2>6 DEF Sized
<1>10. ASSUME NEW g \in Handles \ {h} PROVE Sized(g)'
  BY <1>0, <1>4, <1>6, <1>7, <1>8, StaysClosed, SizedSame
<1> QED
  BY <1>4, <1>9, <1>10 DEF SizeKept

(* apc_close and the answers. *)
LEMMA CloseSizes ==
    ASSUME IInv, NoRepeats, SizeKept, NEW h \in Handles, CloseStart(h)
    PROVE  SizeKept'
<1> DEFINE f == Frame("flush", h, {}, write_queue[h])
<1>0. NetShape /\ HandleShape /\ stack \in Seq(Frames) /\ write_queue \in [Handles -> Seq(Reqs)]
  BY DEF IInv, NetShape
<1>1. f \in Frames /\ f.h = h /\ f.pc = "flush" /\ stack' = <<f>> \o stack
  BY <1>0 DEF CloseStart, Frame, Frames
<1> HIDE DEF f
<1>2. BeingClosed(h)'
  <2>1. stack' \in Seq(Frames) /\ 1 \in 1..Len(stack') /\ stack'[1] = f
    BY <1>0, <1>1
  <2> QED
    BY <1>1, <2>1, BeingClosedWas DEF Flushing
<1>3. \A g \in Handles : BeingClosed(g) => BeingClosed(g)'
  BY <1>1, StaysClosed
<1>4. left' \in [Reqs -> Nat] /\ UNCHANGED left
  BY DEF CloseStart, SizeKept
<1>5. \A g \in Handles : /\ handle'[g].size = handle[g].size
                         /\ handle'[g].state = handle[g].state
                         /\ g # h => write_queue'[g] = write_queue[g]
  BY <1>0 DEF CloseStart, StoppedReading, HandleShape, Fields
<1>6. Sized(h)'
  BY <1>2, <1>5 DEF Sized, SizeKept
<1>7. ASSUME NEW g \in Handles \ {h} PROVE Sized(g)'
  BY <1>0, <1>3, <1>4, <1>5, SizedSame
<1> QED
  BY <1>4, <1>6, <1>7 DEF SizeKept

LEMMA CloseEndSizes ==
    ASSUME IInv, SizeKept, CloseEnd
    PROVE  SizeKept'
<1>h. PICK h : h = Top.h
  OBVIOUS
<1>0. NetShape /\ HandleShape /\ stack \in Seq(Frames) /\ write_queue \in [Handles -> Seq(Reqs)]
  BY DEF IInv, NetShape
<1>1. stack # <<>> /\ Return /\ UNCHANGED left
  BY DEF CloseEnd, At
<1>2. h \in Handles /\ stack[1] = Top
  BY <1>h, <1>0, <1>1, StackParts, FrameFacts
<1>3. handle' = [handle EXCEPT ![h] = [NoHandleYet EXCEPT !.state = "closing"]]
      /\ write_queue' = [write_queue EXCEPT ![h] = <<>>]
  BY <1>h DEF CloseEnd
<1>4. Sized(h)'
  BY <1>0, <1>2, <1>3 DEF Sized, HandleShape, NoHandleYet
<1>5. ASSUME NEW g \in Handles \ {h} PROVE Sized(g)'
  <2>1. BeingClosed(g) => BeingClosed(g)'
    <3>1. ASSUME BeingClosed(g) PROVE BeingClosed(g)'
      <4>1. PICK i \in 1..Len(stack) : stack[i].h = g /\ stack[i].pc \in Flushing
        BY <1>0, <3>1, BeingClosedIs
      <4>2. i # 1
        BY <1>h, <1>2, <4>1
      <4> DEFINE t == Tail(stack)
      <4>3. /\ t \in Seq(Frames) /\ Len(t) = Len(stack) - 1 /\ Len(stack) \in Nat
            /\ \A j \in 1..(Len(stack) - 1) : t[j] = stack[j + 1]
        BY <1>0, <1>1, StackParts
      <4> HIDE DEF t
      <4>4. i - 1 \in 1..Len(t) /\ t[i - 1] = stack[i]
        <5>1. i - 1 \in 1..(Len(stack) - 1) /\ (i - 1) + 1 = i
          BY <4>2, <4>3
        <5> QED
          BY <4>3, <5>1
      <4>5. stack' = t
        BY <1>1 DEF Return, t
      <4> QED
        BY <4>1, <4>3, <4>4, <4>5, BeingClosedWas
    <3> QED
      BY <3>1
  <2>2. handle'[g] = handle[g] /\ write_queue'[g] = write_queue[g]
    BY <1>0, <1>3 DEF HandleShape
  <2>3. left' \in [Reqs -> Nat]
    BY <1>1 DEF SizeKept
  <2> QED
    BY <1>0, <1>1, <2>1, <2>2, <2>3, SizedSame
<1> QED
  BY <1>1, <1>4, <1>5 DEF SizeKept

(* The write that is answered is in no queue. *)
LEMMA AnswerSizes ==
    ASSUME IInv, WControl, NoRepeats, SizeKept, AnswerFlushed \/ AnswerWritten
    PROVE  SizeKept'
<1>0. NetShape /\ HandleShape /\ stack \in Seq(Frames)
  BY DEF IInv, NetShape
<1>1. PICK h \in Handles : h = Top.h /\ Answers(h) /\ Pending(h) = Top.q \o write_queue[h]
  BY AnswerStep DEF AnswerFlushed, AnswerWritten
<1> DEFINE q == Top.q
           r == Head(q)
           w == write_queue[h]
<1>2. /\ stack # <<>> /\ q # <<>> /\ UNCHANGED <<handle, write_queue>>
      /\ left' = [left EXCEPT ![r] = 0]
  BY DEF AnswerFlushed, AnswerWritten, Answer, At
<1>3. q \in Seq(Reqs) /\ w \in Seq(Reqs)
  BY <1>0, <1>2, StackParts DEF NetShape
<1>4. r \in Reqs /\ r \in ToSet(Pending(h)) /\ r \notin ToSet(w)
  <2> HIDE DEF q, w
  <2>1. r \in Reqs /\ r \in ToSet(q)
    BY <1>2, <1>3, TailFacts
  <2>2. Pending(h) = q \o w /\ IsInjective(q \o w)
    BY <1>1 DEF q, w, NoRepeats
  <2>3. ToSet(q \o w) = ToSet(q) \cup ToSet(w) /\ ToSet(q) \cap ToSet(w) = {}
    BY <1>3, <2>2, ConcatFacts
  <2> QED
    BY <2>1, <2>2, <2>3
<1> HIDE DEF r
<1>5. \A g \in Handles : r \notin ToSet(write_queue[g])
  <2> SUFFICES ASSUME NEW g \in Handles, g # h PROVE r \notin ToSet(write_queue[g])
    BY <1>4
  <2>1. ToSet(write_queue[g]) \cap ToSet(Pending(h)) = {}
    BY <1>0, QueueFacts
  <2> QED
    BY <1>4, <2>1
<1>6. left \in [Reqs -> Nat] /\ left' \in [Reqs -> Nat]
  BY <1>2 DEF SizeKept
<1>7. ASSUME NEW g \in Handles PROVE Sized(g)'
  <2>1. write_queue[g] \in Seq(Reqs)
    BY <1>0 DEF NetShape
  <2>2. \A s \in ToSet(write_queue[g]) : left'[s] = left[s]
    BY <1>2, <1>5, <1>6, <2>1 DEF ToSet
  <2>3. BeingClosed(g) => BeingClosed(g)'
    <3>1. CASE AnswerWritten
      <4>1. Top.pc \notin Flushing
        BY <3>1 DEF AnswerWritten, Answer, At, Flushing
      <4> QED
        BY <4>1, StaysClosed
    <3>2. CASE AnswerFlushed
      <4> DEFINE f == Frame("on_flush", Top.h, Top.ev, Tail(q))
      <4>1. Top \in Frames /\ Tail(q) \in Seq(Reqs)
        <5>1. Top \in Frames
          BY <1>0, <1>2, StackParts
        <5> HIDE DEF q
        <5> QED
          BY <1>2, <1>3, <5>1
      <4> HIDE DEF q
      <4>2. f \in Frames /\ f.h = Top.h /\ f.pc \in Flushing
        BY <4>1 DEF Frame, Frames, CallbackPcs, Flushing
      <4>3. Replace(f)
        BY <3>2 DEF AnswerFlushed, Answer, q
      <4> HIDE DEF f
      <4> QED
        BY <1>2, <4>2, <4>3, StaysClosed
    <3> QED
      BY <3>1, <3>2
  <2> QED
    BY <1>0, <1>2, <1>6, <2>2, <2>3, SizedSame
<1> QED
  BY <1>6, <1>7 DEF SizeKept

(* A turn of the write loop: the finished writes leave the queue with what  *)
(* they had left; what another write has lost is taken from the size.       *)
LEMMA WrittenSizes ==
    ASSUME IInv, NoRepeats, SizeKept, WriteTurn, NEW h \in Handles, h = Top.h,
           NEW n \in 0..Len(write_queue[h]), Written(h, n),
           left' \in [Reqs -> Nat],
           \A s \in Reqs : s \notin ToSet(write_queue[h]) => left'[s] = left[s],
           handle'[h].size = UnitsOf(left', SubSeq(write_queue[h], n + 1, Len(write_queue[h]))),
           \A g \in Handles \ {h} : handle'[g] = handle[g]
    PROVE  SizeKept'
<1>0. NetShape /\ write_queue \in [Handles -> Seq(Reqs)]
  BY DEF IInv, NetShape
<1> DEFINE w == write_queue[h]
           rest == SubSeq(w, n + 1, Len(w))
<1>1. rest \in Seq(Reqs)
  <2>1. w \in Seq(Reqs) /\ n \in 0..Len(w)
    BY <1>0
  <2> HIDE DEF w
  <2> QED
    BY <2>1, SplitFacts
<1>2. /\ write_queue'[h] = rest
      /\ \A g \in Handles \ {h} : write_queue'[g] = write_queue[g]
  BY <1>0 DEF Written
<1>3. Sized(h)'
  <2> HIDE DEF rest
  <2>1. handle'[h].size = UnitsOf(left', rest)
    BY DEF rest
  <2> QED
    BY <1>1, <1>2, <2>1, UnitsType DEF Sized
<1>4. Top.pc \notin Flushing
  BY DEF WriteTurn, Writing, At, Flushing
<1>5. ASSUME NEW g \in Handles \ {h} PROVE Sized(g)'
  <2>1. /\ write_queue[g] \in Seq(Reqs) /\ ToSet(write_queue[g]) \cap ToSet(Pending(h)) = {}
        /\ ToSet(write_queue[h]) \subseteq ToSet(Pending(h))
    BY <1>0, QueueFacts
  <2>2. \A s \in ToSet(write_queue[g]) : left'[s] = left[s]
    <3>1. ToSet(write_queue[g]) \subseteq Reqs
      BY <2>1 DEF ToSet
    <3> QED
      BY <2>1, <3>1
  <2>3. BeingClosed(g) => BeingClosed(g)'
    BY <1>4, StaysClosed
  <2> QED
    BY <1>0, <1>2, <2>2, <2>3, SizedSame
<1> QED
  BY <1>3, <1>5 DEF SizeKept

(* core_tcp_write: k units of the first write, after which m is left and n  *)
(* writes are finished.                                                     *)
TakesUnits(l, w, k, m, n) ==
    /\ k \in 0..l[Head(w)]
    /\ m = [l EXCEPT ![Head(w)] = @ - k]
    /\ n = IF k = l[Head(w)] THEN 1 ELSE 0

LEMMA TakenFromFirst ==
    ASSUME NEW l \in [Reqs -> Nat], NEW w \in Seq(Reqs), IsInjective(w), w # <<>>,
           NEW k, NEW m, NEW n, TakesUnits(l, w, k, m, n)
    PROVE  /\ m \in [Reqs -> Nat]
           /\ UnitsOf(l, w) - k = UnitsOf(m, SubSeq(w, n + 1, Len(w)))
<1> DEFINE r == Head(w)
           t == Tail(w)
<1>0. k \in 0..l[r] /\ m = [l EXCEPT ![r] = @ - k] /\ n = IF k = l[r] THEN 1 ELSE 0
  BY DEF TakesUnits
<1>1. r \in Reqs /\ t \in Seq(Reqs) /\ r \notin ToSet(t) /\ w = <<r>> \o t
  BY TailFacts
<1>2. t = SubSeq(w, 2, Len(w)) /\ w = SubSeq(w, 1, Len(w))
  BY TailIsSubSeq, SubSeqFull
<1> HIDE DEF r, t
<1>3. l[r] \in Nat /\ k \in Nat /\ l[r] - k \in Nat /\ k <= l[r]
  BY <1>0, <1>1
<1>4. m \in [Reqs -> Nat] /\ m[r] = l[r] - k
  BY <1>0, <1>1, <1>3
<1>5. UnitsOf(m, t) = UnitsOf(l, t) /\ UnitsOf(l, t) \in Nat
  <2>1. \A s \in ToSet(t) : s \in Reqs /\ s # r
    BY <1>1 DEF ToSet
  <2>2. \A s \in ToSet(t) : m[s] = l[s]
    BY <1>0, <2>1
  <2> QED
    BY <1>1, <1>4, <2>2, UnitsSame, UnitsType
<1>6. <<r>> \in Seq(Reqs)
  BY <1>1
<1>7. UnitsOf(l, w) = l[r] + UnitsOf(l, t)
  <2>1. UnitsOf(l, <<r>> \o t) = UnitsOf(l, <<r>>) + UnitsOf(l, t)
    BY <1>1, <1>6, UnitsConcat
  <2> QED
    BY <1>1, <2>1, UnitsSmall
<1>8. UnitsOf(m, w) = m[r] + UnitsOf(m, t)
  <2>1. UnitsOf(m, <<r>> \o t) = UnitsOf(m, <<r>>) + UnitsOf(m, t)
    BY <1>1, <1>4, <1>6, UnitsConcat
  <2> QED
    BY <1>1, <1>4, <2>1, UnitsSmall
<1>9. CASE k = l[r]
  <2>1. UnitsOf(l, w) - k = UnitsOf(m, t)
    BY <1>3, <1>5, <1>7, <1>9
  <2>2. t = SubSeq(w, 1 + 1, Len(w))
    BY <1>2
  <2> QED
    BY <1>0, <1>4, <1>9, <2>1, <2>2
<1>10. CASE k # l[r]
  <2>1. UnitsOf(l, w) - k = UnitsOf(m, w)
    BY <1>3, <1>4, <1>5, <1>7, <1>8
  <2>2. w = SubSeq(w, 0 + 1, Len(w))
    BY <1>2
  <2> QED
    BY <1>0, <1>4, <1>10, <2>1, <2>2
<1> QED
  BY <1>9, <1>10

(* core_udp_write: the first n writes. *)
TakesWhole(l, w, n, sent, m) ==
    /\ n \in 0..Len(w) /\ sent = SubSeq(w, 1, n)
    /\ m = [r \in Reqs |-> IF r \in ToSet(sent) THEN 0 ELSE l[r]]

LEMMA TakenWhole ==
    ASSUME NEW l \in [Reqs -> Nat], NEW w \in Seq(Reqs), IsInjective(w),
           NEW n, NEW sent, NEW m, TakesWhole(l, w, n, sent, m)
    PROVE  /\ m \in [Reqs -> Nat] /\ ToSet(sent) \subseteq ToSet(w)
           /\ UnitsOf(l, w) - UnitsOf(l, sent) = UnitsOf(m, SubSeq(w, n + 1, Len(w)))
<1> DEFINE rest == SubSeq(w, n + 1, Len(w))
<1>0. /\ n \in 0..Len(w) /\ sent = SubSeq(w, 1, n)
      /\ m = [r \in Reqs |-> IF r \in ToSet(sent) THEN 0 ELSE l[r]]
  BY DEF TakesWhole
<1>1. sent \in Seq(Reqs) /\ rest \in Seq(Reqs) /\ sent \o rest = w
  BY <1>0, SplitFacts
<1>2. m \in [Reqs -> Nat]
  BY <1>0
<1> HIDE DEF rest
<1>3. ToSet(w) = ToSet(sent) \cup ToSet(rest) /\ ToSet(sent) \cap ToSet(rest) = {}
  <2>1. IsInjective(sent \o rest)
    BY <1>1
  <2> QED
    BY <1>1, <2>1, ConcatFacts
<1>4. \A s \in ToSet(rest) : m[s] = l[s]
  <2>1. \A s \in ToSet(rest) : s \in Reqs
    BY <1>1 DEF ToSet
  <2>2. \A s \in ToSet(rest) : s \notin ToSet(sent)
    BY <1>3
  <2> QED
    BY <1>0, <2>1, <2>2
<1>5. UnitsOf(m, rest) = UnitsOf(l, rest)
  BY <1>1, <1>2, <1>4, UnitsSame
<1>6. UnitsOf(l, w) = UnitsOf(l, sent) + UnitsOf(l, rest)
  BY <1>1, UnitsConcat
<1>7. UnitsOf(l, sent) \in Nat /\ UnitsOf(l, rest) \in Nat
  BY <1>1, UnitsType
<1>8. UnitsOf(l, w) - UnitsOf(l, sent) = UnitsOf(m, rest)
  BY <1>5, <1>6, <1>7
<1> QED
  BY <1>1, <1>2, <1>3, <1>8 DEF rest

(* The write loop. *)
LEMMA WritesSizes ==
    ASSUME IInv, NoRepeats, SizeKept, NothingToWrite \/ TcpWrites \/ TcpWriteFails \/ UdpWrites
    PROVE  SizeKept'
<1>0. NetShape /\ HandleShape
  BY DEF IInv, NetShape
<1>1. WriteTurn
  BY DEF NothingToWrite, TcpWrites, TcpWriteFails, UdpWrites
<1>2. InService
  BY <1>1 DEF InService, WriteTurn, Writing, At, Flushing
<1>3. PICK h \in Handles : h = Top.h
  BY <1>2, TopFacts
<1>4. handle[h].state = "open" /\ ~BeingClosed(h)
  BY <1>1, <1>2, <1>3, TopFacts DEF IInv, Sockets, WriteTurn
<1>5. write_queue[h] \in Seq(Reqs) /\ IsInjective(write_queue[h])
  BY <1>0, QueueFacts
<1>6. left \in [Reqs -> Nat] /\ handle[h].size = UnitsOf(left, write_queue[h])
  BY <1>4 DEF SizeKept, Sized
<1>7. /\ 0 \in 0..Len(write_queue[h])
      /\ write_queue[h] # <<>> =>
            /\ 1 \in 0..Len(write_queue[h])
            /\ Head(write_queue[h]) \in Reqs /\ Head(write_queue[h]) \in ToSet(write_queue[h])
  BY <1>5, TailFacts
<1>8. CASE NothingToWrite
  <2>1. Written(h, 0) /\ UNCHANGED <<handle, left>>
    BY <1>3, <1>8 DEF NothingToWrite
  <2>2. SubSeq(write_queue[h], 0 + 1, Len(write_queue[h])) = write_queue[h]
    BY <1>5, SubSeqFull
  <2> QED
    BY <1>1, <1>3, <1>6, <1>7, <2>1, <2>2, WrittenSizes
<1>9. ASSUME NEW k \in 0..left[Head(write_queue[h])], write_queue[h] # <<>>,
             left' = [left EXCEPT ![Head(write_queue[h])] = @ - k],
             handle'[h].size = handle[h].size - k,
             \A g \in Handles \ {h} : handle'[g] = handle[g],
             Written(h, IF k = left[Head(write_queue[h])] THEN 1 ELSE 0)
      PROVE  SizeKept'
  <2> DEFINE w == write_queue[h]
             n == IF k = left[Head(w)] THEN 1 ELSE 0
  <2>1. n \in 0..Len(w)
    BY <1>7, <1>9
  <2>2. /\ left' \in [Reqs -> Nat]
        /\ UnitsOf(left, w) - k = UnitsOf(left', SubSeq(w, n + 1, Len(w)))
    <3>1. TakesUnits(left, w, k, left', n)
      BY <1>9 DEF TakesUnits
    <3>2. w \in Seq(Reqs) /\ IsInjective(w) /\ w # <<>>
      BY <1>5, <1>9
    <3> HIDE DEF w, n
    <3> QED
      BY <1>6, <3>1, <3>2, TakenFromFirst
  <2>3. \A s \in Reqs : s \notin ToSet(w) => left'[s] = left[s]
    BY <1>6, <1>7, <1>9
  <2> HIDE DEF n
  <2>4. Written(h, n)
    BY <1>9 DEF n
  <2>5. handle'[h].size = UnitsOf(left', SubSeq(w, n + 1, Len(w)))
    BY <1>6, <1>9, <2>2
  <2> QED
    BY <1>1, <1>3, <1>9, <2>1, <2>2, <2>3, <2>4, <2>5, WrittenSizes
<1>10. CASE TcpWrites
  <2>1. PICK k \in 0..left[Head(write_queue[h])] :
           /\ left' = [left EXCEPT ![Head(write_queue[h])] = @ - k]
           /\ handle' = [handle EXCEPT ![h].size = @ - k]
           /\ Written(h, IF k = left[Head(write_queue[h])] THEN 1 ELSE 0)
    BY <1>3, <1>10 DEF TcpWrites
  <2>2. write_queue[h] # <<>>
    BY <1>3, <1>10 DEF TcpWrites, CanWrite
  <2>3. /\ handle'[h].size = handle[h].size - k
        /\ \A g \in Handles \ {h} : handle'[g] = handle[g]
    BY <1>0, <2>1 DEF HandleShape, Fields
  <2> QED
    BY <1>9, <2>1, <2>2, <2>3
<1>11. CASE TcpWriteFails
  <2> DEFINE k == left[Head(write_queue[h])]
  <2>1. /\ left' = [left EXCEPT ![Head(write_queue[h])] = 0]
        /\ handle' = [handle EXCEPT ![h].size = @ - k,
                                    ![h].flags = FlagsWithout(h, {"OUT"}) \ {"WRITABLE"}]
        /\ Written(h, 1) /\ write_queue[h] # <<>>
    BY <1>3, <1>11 DEF TcpWriteFails, CanWrite
  <2>2. k \in 0..k /\ k - k = 0
    <3>1. k \in Nat
      BY <1>6, <1>7, <2>1
    <3> HIDE DEF k
    <3> QED
      BY <3>1
  <2>3. left' = [left EXCEPT ![Head(write_queue[h])] = @ - k]
    BY <2>1, <2>2
  <2>4. /\ handle'[h].size = handle[h].size - k
        /\ \A g \in Handles \ {h} : handle'[g] = handle[g]
    BY <1>0, <2>1 DEF HandleShape, Fields
  <2>5. Written(h, IF k = left[Head(write_queue[h])] THEN 1 ELSE 0)
    BY <2>1
  <2> QED
    BY <1>9, <2>1, <2>2, <2>3, <2>4, <2>5
<1>12. CASE UdpWrites
  <2> DEFINE w == write_queue[h]
  <2>1. PICK n \in 0..Len(w) :
           /\ Written(h, n)
           /\ left' = [r \in Reqs |-> IF r \in ToSet(SubSeq(w, 1, n)) THEN 0 ELSE left[r]]
           /\ handle' = [handle EXCEPT ![h].size = @ - Units(SubSeq(w, 1, n))]
    BY <1>3, <1>12 DEF UdpWrites
  <2> DEFINE sent == SubSeq(w, 1, n)
  <2>2. /\ left' \in [Reqs -> Nat] /\ ToSet(sent) \subseteq ToSet(w)
        /\ UnitsOf(left, w) - UnitsOf(left, sent) = UnitsOf(left', SubSeq(w, n + 1, Len(w)))
    <3>1. TakesWhole(left, w, n, sent, left')
      BY <2>1 DEF TakesWhole
    <3>2. w \in Seq(Reqs) /\ IsInjective(w)
      BY <1>5
    <3> HIDE DEF w, sent
    <3> QED
      BY <1>6, <3>1, <3>2, TakenWhole
  <2> HIDE DEF sent
  <2>3. \A s \in Reqs : s \notin ToSet(w) => left'[s] = left[s]
    BY <1>6, <2>1, <2>2 DEF sent
  <2>4. Units(sent) = UnitsOf(left, sent)
    BY UnitsDef
  <2>5. /\ handle'[h].size = handle[h].size - Units(sent)
        /\ \A g \in Handles \ {h} : handle'[g] = handle[g]
    BY <1>0, <2>1 DEF HandleShape, Fields, sent
  <2>6. handle'[h].size = UnitsOf(left', SubSeq(w, n + 1, Len(w)))
    BY <1>6, <2>2, <2>4, <2>5
  <2> QED
    BY <1>1, <1>3, <2>1, <2>2, <2>3, <2>5, <2>6, WrittenSizes
<1> QED
  BY <1>8, <1>10, <1>11, <1>12

(* The other steps of the library. *)
LEMMA ServiceSizes ==
    ASSUME IInv, SizeKept,
           \/ ServerStops \/ AcceptFails \/ Accepts \/ ConnectionTaken \/ ConnectionLeft
           \/ StillConnecting \/ Connects \/ ReadLoopEnds \/ ReadData \/ ReadEnds \/ IoReturns
           \/ WritesServed \/ CallbackReturns
    PROVE  SizeKept'
<1>h. PICK h : h = Top.h
  OBVIOUS
<1>0. NetShape /\ HandleShape /\ stack \in Seq(Frames)
  BY DEF IInv, NetShape
<1>1. stack # <<>> /\ UNCHANGED <<left, write_queue>>
  BY DEF ServerStops, AcceptFails, Accepts, ConnectionTaken, ConnectionLeft, StillConnecting,
         Connects, ReadLoopEnds, ReadData, ReadEnds, IoReturns, WritesServed, CallbackReturns,
         Reading, Writing, At, handleVars
<1>2. h \in Handles /\ Top \in Frames
  BY <1>0, <1>1, <1>h, StackParts
<1>3. \A g \in Handles : /\ handle'[g].size = handle[g].size
                         /\ handle'[g].state = handle[g].state
  <2>1. CASE Accepts
    BY <1>0, <1>h, <1>2, <2>1 DEF Accepts, HandleShape, Fields
  <2>2. CASE ConnectionLeft
    BY <1>0, <1>h, <1>2, <2>2 DEF ConnectionLeft, HandleShape, Fields
  <2>3. CASE ReadEnds
    BY <1>0, <1>h, <1>2, <2>3 DEF ReadEnds, HandleShape, Fields
  <2>4. CASE WritesServed
    BY <1>0, <1>h, <1>2, <2>4 DEF WritesServed, HandleShape, Fields
  <2>5. CASE Connects
    <3>1. CASE handle' = [handle EXCEPT ![h] = [With(h, {"READABLE", "WRITABLE"})
                                                    EXCEPT !.connecting = FALSE]]
      BY <1>0, <1>2, <3>1 DEF HandleShape, Fields, With
    <3>2. CASE handle' = [handle EXCEPT ![h].connecting = FALSE,
                   ![h].flags = FlagsWithout(h, {"OUT"}) \cup {"READABLE", "WRITABLE"}]
      BY <1>0, <1>2, <3>2 DEF HandleShape, Fields
    <3> QED
      BY <1>h, <2>5, <3>1, <3>2 DEF Connects
  <2>6. CASE UNCHANGED handle
    BY <2>6
  <2> QED
    BY <2>1, <2>2, <2>3, <2>4, <2>5, <2>6
       DEF ServerStops, AcceptFails, ConnectionTaken, StillConnecting, ReadLoopEnds, ReadData,
           IoReturns, CallbackReturns, handleVars
<1>4. \A g \in Handles : BeingClosed(g) => BeingClosed(g)'
  <2>1. CASE Top.pc \notin Flushing
    BY <2>1, StaysClosed
  <2>2. CASE Top.pc \in Flushing
    <3> DEFINE f == [Top EXCEPT !.pc = "flush"]
    <3>1. f \in Frames /\ f.h = Top.h /\ f.pc \in Flushing
      BY <1>2 DEF Frames, Flushing
    <3>2. CallbackReturns
      BY <2>2 DEF ServerStops, AcceptFails, Accepts, ConnectionTaken, ConnectionLeft, Flushing,
                  StillConnecting, Connects, ReadLoopEnds, ReadData, ReadEnds, IoReturns,
                  WritesServed, Reading, Writing, At
    <3>3. Replace(f)
      BY <2>2, <3>2 DEF CallbackReturns, At, Flushing, Goto
    <3> HIDE DEF f
    <3> QED
      BY <1>1, <3>1, <3>3, StaysClosed
  <2> QED
    BY <2>1, <2>2
<1> QED
  BY <1>1, <1>3, <1>4, SizesSame

LEMMA LoopSizes ==
    ASSUME IInv, SizeKept, Poll \/ LoopCheck \/ RunClosing \/ \E f \in Fds : Dispatch(f)
    PROVE  SizeKept'
<1>0. NetShape /\ HandleShape
  BY DEF IInv, NetShape
<1>1. stack = <<>> /\ UNCHANGED <<left, write_queue>>
  BY DEF Poll, LoopCheck, RunClosing, Dispatch, AtLoop, handleVars
<1>2. \A g \in Handles : BeingClosed(g) => BeingClosed(g)'
  BY <1>1, StaysClosed
<1>3. CASE UNCHANGED handle
  BY <1>1, <1>2, <1>3, SizesSame
<1>4. CASE RunClosing
  <2>h. PICK h : h = Head(closing_queue)
    OBVIOUS
  <2>1. h \in Handles /\ handle[h].state = "closing"
    <3>1. closing_queue # <<>> /\ closing_queue \in Seq(Handles)
      BY <1>0, <1>4 DEF RunClosing, NetShape
    <3>2. h \in Handles /\ h \in ToSet(closing_queue)
      BY <2>h, <3>1, TailFacts
    <3> QED
      BY <3>2 DEF IInv, ClosingQueued
  <2>2. write_queue[h] = <<>>
    BY <2>1, NoSocketFacts
  <2>3. handle' = [handle EXCEPT ![h] = NoHandleYet] /\ NoHandleYet.size = 0
    BY <1>4, <2>h DEF RunClosing, NoHandleYet
  <2>4. /\ handle'[h].size = 0
        /\ \A g \in Handles \ {h} : handle'[g] = handle[g]
    BY <1>0, <2>1, <2>3 DEF HandleShape
  <2> QED
    BY <1>1, <1>2, <2>2, <2>4, SizesSame
<1> QED
  BY <1>3, <1>4 DEF Poll, LoopCheck, Dispatch, handleVars

LEMMA SizesStep ==
    ASSUME WInv, Supported, SizeKept, [Next]_vars
    PROVE  SizeKept'
<1>0. IInv /\ WControl /\ NoRepeats
  BY DEF WInv, Counted
<1>1. CASE UserStep
  <2>1. PICK h \in Handles : UserCall(h)
    BY <1>1 DEF UserStep
  <2>2. UNCHANGED stack
    BY <1>1 DEF UserStep
  <2>3. ASSUME NEW r \in Reqs, apc_write(h, r) PROVE SizeKept'
    BY <1>0, <2>2, <2>3, WriteCallSizes
  <2>4. CASE \/ apc_net_init(h) \/ apc_bind(h) \/ apc_tcp_connect(h) \/ apc_listen(h)
             \/ apc_start_read(h) \/ apc_stop_read(h) \/ apc_reject(h)
             \/ \E c \in Handles : apc_accept(h, c)
    BY <1>0, <2>2, <2>4, OtherCallSizes
  <2> QED
    BY <2>1, <2>3, <2>4 DEF UserCall
<1>2. ASSUME NEW h \in Handles, CloseStart(h) PROVE SizeKept'
  BY <1>0, <1>2, CloseSizes
<1>3. CASE CloseEnd
  BY <1>0, <1>3, CloseEndSizes
<1>4. CASE AnswerFlushed \/ AnswerWritten
  BY <1>0, <1>4, AnswerSizes
<1>5. CASE NothingToWrite \/ TcpWrites \/ TcpWriteFails \/ UdpWrites
  BY <1>0, <1>5, WritesSizes
<1>6. CASE \/ ServerStops \/ AcceptFails \/ Accepts \/ ConnectionTaken \/ ConnectionLeft
           \/ StillConnecting \/ Connects \/ ReadLoopEnds \/ ReadData \/ ReadEnds \/ IoReturns
           \/ WritesServed \/ CallbackReturns
  BY <1>0, <1>6, ServiceSizes
<1>7. CASE Poll \/ LoopCheck \/ RunClosing \/ \E f \in Fds : Dispatch(f)
  BY <1>0, <1>7, LoopSizes
<1>8. CASE UNCHANGED vars
  <2>1. UNCHANGED <<handle, write_queue, left, stack>>
    BY <1>8 DEF vars, handleVars
  <2>2. \A g \in Handles : BeingClosed(g) => BeingClosed(g)'
    BY <1>0, <2>1, StaysClosed
  <2> QED
    BY <1>0, <2>1, <2>2, SizesSame
<1> QED
  BY <1>1, <1>2, <1>3, <1>4, <1>5, <1>6, <1>7, <1>8 DEF Next

LEMMA SizesInit == Init => SizeKept
<1> SUFFICES ASSUME Init PROVE SizeKept
  OBVIOUS
<1>1. left \in [Reqs -> Nat]
  BY DEF Init
<1>2. \A h \in Handles : handle[h].size = 0 /\ handle[h].state = "free"
  BY DEF Init, NoHandleYet
<1> QED
  BY <1>1, <1>2 DEF SizeKept, Sized

LEMMA SizesInductive ==
    ASSUME Supported
    PROVE  Spec => [](WInv /\ SizeKept)
<1>1. WInv /\ SizeKept /\ [Next]_vars => (WInv /\ SizeKept)'
  BY WInvStep, SizesStep
<1> QED
  BY WInvInit, SizesInit, <1>1, PTL DEF Spec

(* write_queue_size is the sum of what the queued writes have left: through *)
(* writes the kernel takes in parts, writes that fail, datagrams sent many  *)
(* at once, and callbacks that write again while others are answered.       *)
THEOREM SizesAreExact ==
    ASSUME Supported
    PROVE  Spec => []SizeExact
<1>1. SizeKept => SizeExact
  <2> SUFFICES ASSUME SizeKept, NEW h \in Handles, handle[h].state = "open", ~BeingClosed(h)
               PROVE  handle[h].size = Units(write_queue[h])
    BY DEF SizeExact
  <2>1. Units(write_queue[h]) = UnitsOf(left, write_queue[h])
    BY DEF Units, UnitsOf
  <2> QED
    BY <2>1 DEF SizeKept, Sized
<1> QED
  BY <1>1, SizesInductive, PTL

-----------------------------------------------------------------------------
(* The types. *)

HandleType(sizes) ==
    [state : {"free", "open", "closing"}, use : {"none", "server", "stream", "udp"},
     flags : SUBSET {"ACTIVE", "READABLE", "WRITABLE"},
     role : {"none", "bound", "stream", "server"},
     reading : BOOLEAN, connecting : BOOLEAN,
     accepted : Fds \cup {NoFd}, size : sizes]

(* What the other invariants do not say of the types. *)
Typed == /\ handle \in [Handles -> HandleType(Int)]
         /\ phase \in {"timers", "events", "end"}
         /\ batch \in [Fds -> SUBSET (PollEvents \cup {"ERR"})]

(* One handle changes. *)
LEMMA OneTyped ==
    ASSUME Typed, NEW h \in Handles, NEW x \in HandleType(Int),
           handle' = [handle EXCEPT ![h] = x]
    PROVE  handle' \in [Handles -> HandleType(Int)]
BY DEF Typed

LEMMA FlagsTyped ==
    ASSUME Typed, NEW h \in Handles, NEW gone
    PROVE  FlagsWithout(h, gone) \in SUBSET {"ACTIVE", "READABLE", "WRITABLE"}
BY DEF Typed, HandleType, FlagsWithout

LEMMA NoHandleTyped ==
    /\ NoHandleYet \in HandleType(Int)
    /\ [NoHandleYet EXCEPT !.state = "closing"] \in HandleType(Int)
    /\ [NoHandleYet EXCEPT !.state = "open", !.use = "stream", !.role = "stream"]
          \in HandleType(Int)
    /\ \A use \in {"none", "server", "stream", "udp"} :
          [NoHandleYet EXCEPT !.state = "open", !.use = use] \in HandleType(Int)
<1>1. NoHandleYet \in HandleType(Int)
  BY DEF NoHandleYet, HandleType
<1> DEFINE x == NoHandleYet
<1>x. x \in HandleType(Int)
  BY <1>1
<1> HIDE DEF x
<1>2. [x EXCEPT !.state = "closing"] \in HandleType(Int)
  BY <1>x DEF HandleType
<1>3. [x EXCEPT !.state = "open", !.use = "stream", !.role = "stream"] \in HandleType(Int)
  BY <1>x DEF HandleType
<1>4. ASSUME NEW use \in {"none", "server", "stream", "udp"}
      PROVE  [x EXCEPT !.state = "open", !.use = use] \in HandleType(Int)
  BY <1>x DEF HandleType
<1> QED
  BY <1>x, <1>2, <1>3, <1>4 DEF x

LEMMA CallTyped ==
    ASSUME Typed, SizeKept, NEW h \in Handles, UserCall(h)
    PROVE  handle' \in [Handles -> HandleType(Int)]
<1>0. handle[h] \in HandleType(Int)
  BY DEF Typed
<1>1. CASE apc_net_init(h)
  <2>1. PICK use \in Uses[h] :
           handle' = [handle EXCEPT ![h] = [NoHandleYet EXCEPT !.state = "open", !.use = use]]
    BY <1>1 DEF apc_net_init
  <2>2. use \in {"none", "server", "stream", "udp"}
    BY NetAssumption
  <2>3. [NoHandleYet EXCEPT !.state = "open", !.use = use] \in HandleType(Int)
    BY <2>2, NoHandleTyped
  <2> QED
    BY <2>1, <2>3, OneTyped
<1>2. CASE apc_bind(h)
  <2> DEFINE x == [handle[h] EXCEPT !.role = IF Tcp(h) THEN "bound" ELSE "stream"]
  <2>1. x \in HandleType(Int)
    BY <1>0 DEF HandleType
  <2>2. handle' = [handle EXCEPT ![h] = x]
    BY <1>2 DEF apc_bind
  <2> HIDE DEF x
  <2> QED
    BY <2>1, <2>2, OneTyped
<1>3. CASE apc_tcp_connect(h)
  <2> DEFINE x == [With(h, {"ACTIVE"}) EXCEPT !.role = "stream", !.connecting = TRUE]
  <2>1. x \in HandleType(Int)
    BY <1>0 DEF HandleType, With
  <2>2. handle' = [handle EXCEPT ![h] = x]
    BY <1>3 DEF apc_tcp_connect
  <2> HIDE DEF x
  <2> QED
    BY <2>1, <2>2, OneTyped
<1>4. CASE apc_listen(h)
  <2> DEFINE x == [With(h, {"ACTIVE", "READABLE"}) EXCEPT !.role = "server"]
  <2>1. x \in HandleType(Int)
    BY <1>0 DEF HandleType, With
  <2>2. handle' = [handle EXCEPT ![h] = x]
    BY <1>4 DEF apc_listen
  <2> HIDE DEF x
  <2> QED
    BY <2>1, <2>2, OneTyped
<1>5. CASE apc_start_read(h)
  <2> DEFINE x == [With(h, {"ACTIVE", "READABLE"}) EXCEPT !.reading = TRUE]
  <2>1. x \in HandleType(Int)
    BY <1>0 DEF HandleType, With
  <2>2. handle' = [handle EXCEPT ![h] = x]
    BY <1>5 DEF apc_start_read
  <2> HIDE DEF x
  <2> QED
    BY <2>1, <2>2, OneTyped
<1>6. CASE apc_stop_read(h)
  <2>1. StoppedReading(h) \in HandleType(Int)
    BY <1>0, FlagsTyped DEF HandleType, StoppedReading
  <2> QED
    BY <1>6, <2>1, OneTyped DEF apc_stop_read
<1>7. CASE apc_reject(h)
  <2> DEFINE x == [handle[h] EXCEPT !.accepted = NoFd]
  <2>1. x \in HandleType(Int)
    BY <1>0 DEF HandleType
  <2>2. handle' = [handle EXCEPT ![h] = x]
    BY <1>7 DEF apc_reject
  <2> HIDE DEF x
  <2> QED
    BY <2>1, <2>2, OneTyped
<1>8. ASSUME NEW c \in Handles, apc_accept(h, c)
      PROVE  handle' \in [Handles -> HandleType(Int)]
  <2> DEFINE x == [NoHandleYet EXCEPT !.state = "open", !.use = "stream", !.role = "stream"]
             y == [handle[h] EXCEPT !.accepted = NoFd]
  <2>1. x \in HandleType(Int)
    BY NoHandleTyped
  <2>2. y \in HandleType(Int)
    BY <1>0 DEF HandleType
  <2>3. h # c
    BY <1>8 DEF apc_accept, MayCall
  <2>4. handle' = [handle EXCEPT ![c] = x, ![h] = y]
    <3>1. handle' = [handle EXCEPT ![c] = x, ![h].accepted = NoFd]
      BY <1>8 DEF apc_accept
    <3> HIDE DEF x
    <3> QED
      BY <2>3, <3>1 DEF Typed
  <2> HIDE DEF x, y
  <2> QED
    BY <2>1, <2>2, <2>4 DEF Typed
<1>9. ASSUME NEW r \in Reqs, apc_write(h, r)
      PROVE  handle' \in [Handles -> HandleType(Int)]
  <2>1. PICK n \in Sizes : handle' \in
           {[handle EXCEPT ![h].size = @ + n],
            [handle EXCEPT ![h] = [With(h, {"ACTIVE", "WRITABLE"}) EXCEPT !.size = @ + n]]}
    BY <1>9 DEF apc_write
  <2>2. n \in Nat
    BY NetAssumption
  <2> DEFINE x == [handle[h] EXCEPT !.size = @ + n]
             y == [With(h, {"ACTIVE", "WRITABLE"}) EXCEPT !.size = @ + n]
  <2>3. x \in HandleType(Int)
    BY <1>0, <2>2 DEF HandleType
  <2>4. y \in HandleType(Int)
    <3> DEFINE z == With(h, {"ACTIVE", "WRITABLE"})
    <3>1. z \in HandleType(Int)
      BY <1>0 DEF HandleType, With
    <3> HIDE DEF z
    <3>2. [z EXCEPT !.size = @ + n] \in HandleType(Int)
      BY <2>2, <3>1 DEF HandleType
    <3> QED
      BY <3>2 DEF z
  <2>5. handle' = [handle EXCEPT ![h] = x] \/ handle' = [handle EXCEPT ![h] = y]
    BY <2>1
  <2> HIDE DEF x, y
  <2> QED
    BY <2>3, <2>4, <2>5, OneTyped
<1> QED
  BY <1>1, <1>2, <1>3, <1>4, <1>5, <1>6, <1>7, <1>8, <1>9 DEF UserCall

LEMMA LibraryTyped ==
    ASSUME IInv, Typed, SizeKept, Next, ~UserStep
    PROVE  handle' \in [Handles -> HandleType(Int)]
<1>h. PICK h : h = Top.h
  OBVIOUS
<1>0. NetShape /\ HandleShape /\ stack \in Seq(Frames) /\ left \in [Reqs -> Nat]
  BY DEF IInv, NetShape, SizeKept
<1>1. stack # <<>> => h \in Handles /\ handle[h] \in HandleType(Int)
  BY <1>0, <1>h, StackParts DEF Typed
<1>2. ASSUME NEW g \in Handles, CloseStart(g) PROVE handle' \in [Handles -> HandleType(Int)]
  <2>1. handle[g] \in HandleType(Int)
    BY DEF Typed
  <2>2. StoppedReading(g) \in HandleType(Int)
    BY <2>1, FlagsTyped DEF HandleType, StoppedReading
  <2>3. \E x \in {StoppedReading(g), handle[g]} : handle' = [handle EXCEPT ![g] = x]
    BY <1>2 DEF CloseStart
  <2> QED
    BY <2>1, <2>2, <2>3, OneTyped
<1>3. CASE CloseEnd
  <2>1. [NoHandleYet EXCEPT !.state = "closing"] \in HandleType(Int)
    BY NoHandleTyped
  <2> QED
    BY <1>h, <1>1, <1>3, <2>1, OneTyped DEF CloseEnd, At
<1>4. CASE Accepts
  <2> DEFINE x == [handle[h] EXCEPT !.accepted = FreeFd]
  <2>1. x \in HandleType(Int)
    <3>1. FreeFd \in Fds
      <4>1. ReactorTypeOK /\ Watchers /\ Connections /\ HasFreeFd
        BY <1>0, <1>4 DEF IInv, NetShape, Accepts
      <4> QED
        BY <4>1, FreeFdFacts
    <3> QED
      BY <1>1, <1>4, <3>1 DEF HandleType, Accepts, At
  <2>2. handle' = [handle EXCEPT ![h] = x]
    BY <1>h, <1>4 DEF Accepts
  <2> HIDE DEF x
  <2> QED
    BY <1>1, <1>4, <2>1, <2>2, OneTyped DEF Accepts, At
<1>5. ASSUME stack # <<>>, NEW gone, NEW some \in SUBSET {"READABLE", "WRITABLE"},
             handle' \in {[handle EXCEPT ![h].flags = FlagsWithout(h, gone) \ some],
                          [handle EXCEPT ![h].flags = FlagsWithout(h, gone)],
                          [handle EXCEPT ![h].connecting = FALSE,
                                         ![h].flags = FlagsWithout(h, gone) \cup some]}
      PROVE  handle' \in [Handles -> HandleType(Int)]
  <2> DEFINE x == [handle[h] EXCEPT !.flags = FlagsWithout(h, gone) \ some]
             y == [handle[h] EXCEPT !.flags = FlagsWithout(h, gone)]
             z == [handle[h] EXCEPT !.connecting = FALSE, !.flags = FlagsWithout(h, gone) \cup some]
  <2>0. h \in Handles /\ handle[h] \in HandleType(Int)
        /\ FlagsWithout(h, gone) \in SUBSET {"ACTIVE", "READABLE", "WRITABLE"}
    BY <1>1, <1>5, FlagsTyped
  <2>1. x \in HandleType(Int)
    BY <2>0 DEF HandleType
  <2>2. y \in HandleType(Int)
    BY <2>0 DEF HandleType
  <2>3. z \in HandleType(Int)
    BY <2>0 DEF HandleType
  <2>4. \/ handle' = [handle EXCEPT ![h] = x] \/ handle' = [handle EXCEPT ![h] = y]
        \/ handle' = [handle EXCEPT ![h] = z]
    BY <1>5, <2>0 DEF Typed
  <2> HIDE DEF x, y, z
  <2> QED
    BY <2>0, <2>1, <2>2, <2>3, <2>4, OneTyped
<1>6. CASE ConnectionLeft \/ ReadEnds \/ WritesServed
  <2>1. CASE ConnectionLeft
    <3>1. /\ stack # <<>>
          /\ handle' = [handle EXCEPT ![h].flags = FlagsWithout(h, {"IN"}) \ {"READABLE"}]
      BY <1>h, <2>1 DEF ConnectionLeft, At
    <3>2. {"READABLE"} \in SUBSET {"READABLE", "WRITABLE"}
      OBVIOUS
    <3> QED
      BY <1>5, <3>1, <3>2
  <2>2. CASE ReadEnds
    BY <1>h, <1>5, <2>2 DEF ReadEnds, Reading, At
  <2>3. CASE WritesServed
    BY <1>h, <1>5, <2>3 DEF WritesServed, At, Typed
  <2> QED
    BY <1>6, <2>1, <2>2, <2>3
<1>7. CASE Connects
  <2>1. stack # <<>>
    BY <1>7 DEF Connects, At
  <2>2. CASE handle' = [handle EXCEPT ![h].connecting = FALSE,
                 ![h].flags = FlagsWithout(h, {"OUT"}) \cup {"READABLE", "WRITABLE"}]
    BY <1>5, <2>1, <2>2
  <2>3. CASE handle' = [handle EXCEPT ![h] = [With(h, {"READABLE", "WRITABLE"})
                                                  EXCEPT !.connecting = FALSE]]
    <3>1. [With(h, {"READABLE", "WRITABLE"}) EXCEPT !.connecting = FALSE] \in HandleType(Int)
      BY <1>1, <2>1 DEF HandleType, With
    <3> QED
      BY <1>1, <2>1, <2>3, <3>1, OneTyped
  <2> QED
    BY <1>h, <1>7, <2>2, <2>3 DEF Connects
<1>8. CASE NothingToWrite \/ TcpWrites \/ TcpWriteFails \/ UdpWrites
  <2>0. stack # <<>> /\ h \in Handles /\ handle[h] \in HandleType(Int)
    BY <1>1, <1>8 DEF NothingToWrite, TcpWrites, TcpWriteFails, UdpWrites, WriteTurn, Writing, At
  <2>1. ASSUME NEW n \in Int, handle' = [handle EXCEPT ![h].size = @ - n]
        PROVE  handle' \in [Handles -> HandleType(Int)]
    <3> DEFINE x == [handle[h] EXCEPT !.size = @ - n]
    <3>1. x \in HandleType(Int)
      BY <2>0, <2>1 DEF HandleType
    <3>2. handle' = [handle EXCEPT ![h] = x]
      BY <2>1
    <3> HIDE DEF x
    <3> QED
      BY <2>0, <3>1, <3>2, OneTyped
  <2>2. CASE NothingToWrite
    BY <2>2 DEF NothingToWrite, Typed
  <2> DEFINE w == write_queue[h]
  <2>3. w \in Seq(Reqs) /\ (w # <<>> => left[Head(w)] \in Nat)
    BY <1>0, <2>0 DEF NetShape
  <2>4. CASE TcpWrites
    <3>1. PICK n \in 0..left[Head(w)] : handle' = [handle EXCEPT ![h].size = @ - n]
      BY <1>h, <2>4 DEF TcpWrites
    <3>2. n \in Int
      BY <1>h, <2>3, <2>4 DEF TcpWrites, CanWrite
    <3> QED
      BY <2>1, <3>1, <3>2
  <2>5. CASE TcpWriteFails
    <3> DEFINE x == [handle[h] EXCEPT !.size = @ - left[Head(w)],
                                      !.flags = FlagsWithout(h, {"OUT"}) \ {"WRITABLE"}]
    <3>1. left[Head(w)] \in Nat
      BY <1>h, <2>3, <2>5 DEF TcpWriteFails, CanWrite
    <3>2. FlagsWithout(h, {"OUT"}) \in SUBSET {"ACTIVE", "READABLE", "WRITABLE"}
      BY <2>0, FlagsTyped
    <3>3. x \in HandleType(Int)
      <4> DEFINE n == left[Head(w)]
      <4>1. n \in Nat
        BY <3>1
      <4> DEFINE y == [handle[h] EXCEPT !.size = @ - n]
      <4> HIDE DEF n, w
      <4>2. y \in HandleType(Int)
        BY <2>0, <4>1 DEF HandleType
      <4>3. x = [y EXCEPT !.flags = FlagsWithout(h, {"OUT"}) \ {"WRITABLE"}]
        BY <2>0 DEF HandleType, n
      <4> HIDE DEF x, y
      <4> QED
        BY <3>2, <4>2, <4>3 DEF HandleType
    <3>4. handle' = [handle EXCEPT ![h] = x]
      BY <1>h, <2>0, <2>5 DEF TcpWriteFails, Typed
    <3> HIDE DEF x
    <3> QED
      BY <2>0, <3>3, <3>4, OneTyped
  <2>6. CASE UdpWrites
    <3>1. PICK n \in 0..Len(w) : handle' = [handle EXCEPT ![h].size = @ - Units(SubSeq(w, 1, n))]
      BY <1>h, <2>6 DEF UdpWrites
    <3> DEFINE sent == SubSeq(w, 1, n)
    <3>2. sent \in Seq(Reqs)
      <4> HIDE DEF w
      <4> QED
        BY <2>3, <3>1, SplitFacts
    <3> HIDE DEF sent
    <3>3. Units(sent) \in Int
      BY <1>0, <3>2, UnitsDef, UnitsType
    <3> QED
      BY <2>1, <3>1, <3>3 DEF sent
  <2> QED
    BY <1>8, <2>2, <2>4, <2>5, <2>6
<1>9. CASE RunClosing
  <2>1. closing_queue # <<>> /\ closing_queue \in Seq(Handles)
    BY <1>0, <1>9 DEF RunClosing, NetShape
  <2>2. PICK g \in Handles : g = Head(closing_queue)
    BY <2>1
  <2>3. NoHandleYet \in HandleType(Int)
    BY NoHandleTyped
  <2> QED
    BY <1>9, <2>2, <2>3, OneTyped DEF RunClosing
<1>10. CASE UNCHANGED handle
  BY <1>10 DEF Typed
<1> QED
  BY <1>2, <1>3, <1>4, <1>6, <1>7, <1>8, <1>9, <1>10
     DEF Next, AnswerFlushed, AnswerWritten, Answer, ServerStops, AcceptFails, ConnectionTaken,
         StillConnecting, ReadLoopEnds, ReadData, IoReturns, CallbackReturns, Poll, Dispatch,
         LoopCheck, handleVars

LEMMA TypedStep ==
    ASSUME IInv, Typed, SizeKept, [Next]_vars
    PROVE  Typed'
<1>1. handle' \in [Handles -> HandleType(Int)]
  BY CallTyped, LibraryTyped DEF UserStep, Typed, vars, handleVars
<1>2. phase' \in {"timers", "events", "end"}
  BY DEF Typed, Next, UserStep, CloseStart, CloseEnd, AnswerFlushed, AnswerWritten, Answer,
         ServerStops, AcceptFails, Accepts, ConnectionTaken, ConnectionLeft, StillConnecting,
         Connects, ReadLoopEnds, ReadData, ReadEnds, IoReturns, NothingToWrite, TcpWrites,
         TcpWriteFails, UdpWrites, WritesServed, CallbackReturns, Poll, Dispatch, RunClosing,
         LoopCheck, loopVars, vars
<1>3. batch' \in [Fds -> SUBSET (PollEvents \cup {"ERR"})]
  <2>1. CASE Poll
    BY <2>1 DEF Poll, Reports
  <2>2. ASSUME NEW f \in Fds, Dispatch(f) PROVE batch' \in [Fds -> SUBSET (PollEvents \cup {"ERR"})]
    BY <2>2 DEF Dispatch, Typed
  <2>3. CASE UNCHANGED batch
    BY <2>3 DEF Typed
  <2> QED
    BY <2>1, <2>2, <2>3
     DEF Next, UserStep, CloseStart, CloseEnd, AnswerFlushed, AnswerWritten, Answer,
         ServerStops, AcceptFails, Accepts, ConnectionTaken, ConnectionLeft, StillConnecting,
         Connects, ReadLoopEnds, ReadData, ReadEnds, IoReturns, NothingToWrite, TcpWrites,
         TcpWriteFails, UdpWrites, WritesServed, CallbackReturns, RunClosing,
         LoopCheck, loopVars, vars
<1> QED
  BY <1>1, <1>2, <1>3 DEF Typed

LEMMA TypedInit == Init => Typed
BY FdNumbers DEF Init, Typed, HandleType, NoHandleYet, NoEvents

(* The types: among them that no queue has a negative size and that the     *)
(* loop never counts fewer than no requests, the assertion of               *)
(* apc_deregister_request_.                                                 *)
THEOREM TypesKept ==
    ASSUME Supported
    PROVE  Spec => []TypeOK
<1>1. Typed /\ WInv /\ SizeKept /\ [Next]_vars => Typed'
  BY TypedStep DEF WInv
<1>2. Typed /\ WInv /\ SizeKept => TypeOK
  <2> SUFFICES ASSUME Typed, WInv, SizeKept PROVE TypeOK
    OBVIOUS
  <2>1. NetShape /\ active_requests \in Nat
    BY FS_CardinalityType DEF WInv, IInv, Counted, WritesCounted
  <2>2. \A h \in Handles : handle[h] \in HandleType(Nat)
    BY DEF Typed, SizeKept, Sized, HandleType
  <2>3. handle \in [Handles -> HandleType(Nat)]
    BY <2>2 DEF Typed
  <2> QED
    BY <2>1, <2>3 DEF TypeOK, Typed, NetShape, SizeKept, HandleType
<1> QED
  BY TypedInit, SizesInductive, <1>1, <1>2, PTL DEF Spec

-----------------------------------------------------------------------------
(* One connection at a time. *)

Accepting == {"server", "on_refused"}
ServerPcs == Accepting \cup {"on_connection"}

(* A server is told of connections only; one that still has the number of a *)
(* connection is in its callback or has stopped to listen.  While           *)
(* fd_watcher_server accepts it has none.                                   *)
ServerIdle(h) ==
    /\ handle[h].role \in {"bound", "server"} => watcher[h].events \subseteq {"IN"}
    /\ handle[h].accepted # NoFd =>
          /\ handle[h].role = "server"
          /\ watcher[h].events = {} \/ InFrame(h, "on_connection")
ServerFrame(f) ==
    /\ f.pc \in Accepting => handle[f.h].accepted = NoFd
    /\ f.pc \in ServerPcs /\ FdOf(f.h) # NoFd => handle[f.h].role = "server"
Served == /\ \A h \in Handles : ServerIdle(h)
          /\ \A i \in DOMAIN stack : ServerFrame(stack[i])

(* What most steps leave of a handle: what it accepts, or nothing of it.    *)
Serving(h) == \E i \in DOMAIN stack : stack[i].h = h /\ stack[i].pc \in ServerPcs
SameServer(h) == /\ handle'[h].accepted = handle[h].accepted
                 /\ handle'[h].role = handle[h].role
                 /\ watcher'[h].events \subseteq watcher[h].events
                 /\ FdOf(h)' # NoFd => FdOf(h) # NoFd
NoConnection(h) ==
    /\ handle'[h].accepted = NoFd
    /\ handle'[h].role \in {"bound", "server"} => watcher'[h].events \subseteq {"IN"}
    /\ FdOf(h)' # NoFd /\ Serving(h) => handle'[h].role = "server"

(* The stack as it was, without its first frame, or with another one there. *)
GoesTo(f) == /\ f.h = Top.h /\ f.pc # "on_connection"
             /\ f.pc \in Accepting =>
                   \/ Top.pc \in Accepting
                   \/ Top.pc = "on_connection" /\ handle[Top.h].accepted = NoFd
Unwinds == /\ stack # <<>>
           /\ Top.pc = "on_connection" => \/ handle'[Top.h].accepted = NoFd
                                          \/ watcher'[Top.h].events = {}
           /\ Return \/ \E f \in Frames : Replace(f) /\ GoesTo(f)
Rewinds == \/ UNCHANGED stack
           \/ Unwinds
           \/ \E f \in Frames : stack' = <<f>> \o stack /\ f.pc \notin ServerPcs

(* Every frame that serves a server did so before. *)
FrameFrom(x) == x.pc \in ServerPcs =>
    \E j \in DOMAIN stack :
       /\ x.h = stack[j].h /\ stack[j].pc \in ServerPcs
       /\ x.pc \in Accepting => stack[j].pc \in Accepting \/ handle[stack[j].h].accepted = NoFd
FramesFrom == \A i \in DOMAIN stack' : FrameFrom(stack'[i]) /\ stack'[i].h \in Handles
CallsKept == \A h : InFrame(h, "on_connection") =>
    \/ InFrame(h, "on_connection")'
    \/ handle'[h].accepted = NoFd \/ watcher'[h].events = {}

LEMMA RewindsFacts ==
    ASSUME NetShape, Rewinds
    PROVE  FramesFrom /\ CallsKept
<1>s. \A j \in DOMAIN stack : FrameFrom(stack[j])
  BY DEF FrameFrom
<1>0. stack \in Seq(Frames)
  BY DEF NetShape
<1>f. \A j \in DOMAIN stack : stack[j].h \in Handles
  <2>1. \A j \in DOMAIN stack : stack[j] \in Frames
    BY <1>0
  <2> QED
    BY <2>1 DEF Frames
<1>1. CASE UNCHANGED stack
  <2>1. CallsKept
    BY <1>1 DEF InFrame, CallsKept
  <2> QED
    BY <1>1, <1>s, <1>f, <2>1 DEF FramesFrom
<1>2. CASE Unwinds /\ Return
  <2> DEFINE t == Tail(stack)
  <2>1. /\ t \in Seq(Frames) /\ Len(t) = Len(stack) - 1 /\ Len(stack) \in Nat \ {0}
        /\ Top = stack[1] /\ \A i \in 1..(Len(stack) - 1) : t[i] = stack[i + 1]
    BY <1>0, <1>2, StackParts, FrameFacts DEF Unwinds
  <2>2. stack' = t
    BY <1>2 DEF Return
  <2> HIDE DEF t
  <2>3. /\ DOMAIN stack' = 1..(Len(stack) - 1) /\ DOMAIN stack = 1..Len(stack)
        /\ \A i \in 1..Len(t) : t[i] \in Frames
    BY <1>0, <2>1, <2>2
  <2>4. \A i \in DOMAIN stack' : i + 1 \in DOMAIN stack /\ stack'[i] = stack[i + 1]
    BY <2>1, <2>2, <2>3
  <2>5. \A j \in DOMAIN stack : j = 1 \/ (j - 1 \in DOMAIN stack' /\ stack'[j - 1] = stack[j])
    BY <2>1, <2>3, <2>4
  <2>6. \A h : InFrame(h, "on_connection") =>
           InFrame(h, "on_connection")' \/ (h = Top.h /\ Top.pc = "on_connection")
    BY <2>1, <2>5 DEF InFrame
  <2>7. FramesFrom
    BY <1>s, <1>f, <2>4 DEF FramesFrom
  <2> QED
    BY <1>2, <2>6, <2>7 DEF Unwinds, CallsKept
<1>3. CASE Unwinds /\ \E f \in Frames : Replace(f) /\ GoesTo(f)
  <2>1. PICK f \in Frames : Replace(f) /\ GoesTo(f)
    BY <1>3
  <2>2. /\ stack' \in Seq(Frames) /\ Len(stack') = Len(stack) /\ stack'[1] = f
        /\ \A i \in 2..Len(stack) : stack'[i] = stack[i]
    BY <1>0, <1>3, <2>1, ReplaceFacts DEF Unwinds
  <2>3. /\ DOMAIN stack' = 1..Len(stack) /\ DOMAIN stack = 1..Len(stack)
        /\ Len(stack) \in Nat /\ Len(stack) > 0 /\ Top = stack[1]
        /\ \A i \in DOMAIN stack' : stack'[i] \in Frames
    BY <1>0, <1>3, <2>2, FrameFacts DEF Unwinds
  <2>4. \A i \in DOMAIN stack' : i = 1 \/ stack'[i] = stack[i]
    BY <2>2, <2>3
  <2>5. \A h : InFrame(h, "on_connection") =>
           InFrame(h, "on_connection")' \/ (h = Top.h /\ Top.pc = "on_connection")
    BY <2>3, <2>4 DEF InFrame
  <2>6. f.pc \in ServerPcs => /\ f.pc \in Accepting /\ Top.pc \in ServerPcs
                              /\ Top.pc \in Accepting \/ handle[Top.h].accepted = NoFd
    BY <2>1 DEF GoesTo, ServerPcs
  <2>7. FrameFrom(f) /\ f.h \in Handles
    <3>1. 1 \in DOMAIN stack /\ stack[1].h = f.h /\ f.h \in Handles
      BY <1>f, <2>1, <2>3 DEF GoesTo
    <3> QED
      BY <2>3, <2>6, <3>1 DEF FrameFrom
  <2>8. FramesFrom
    <3>1. DOMAIN stack' = DOMAIN stack
      BY <2>3
    <3> QED
      BY <1>s, <1>f, <2>2, <2>4, <2>7, <3>1 DEF FramesFrom
  <2> QED
    BY <1>3, <2>5, <2>8 DEF Unwinds, CallsKept
<1>4. ASSUME NEW f \in Frames, stack' = <<f>> \o stack, f.pc \notin ServerPcs
      PROVE  FramesFrom /\ CallsKept
  <2>1. /\ stack' \in Seq(Frames) /\ Len(stack') = Len(stack) + 1 /\ stack'[1] = f
        /\ \A j \in 1..Len(stack) : stack'[j + 1] = stack[j]
    BY <1>0, <1>4
  <2>2. /\ DOMAIN stack' = 1..(Len(stack) + 1) /\ DOMAIN stack = 1..Len(stack)
        /\ Len(stack) \in Nat /\ \A i \in DOMAIN stack' : stack'[i] \in Frames
    BY <1>0, <2>1
  <2>3. \A i \in DOMAIN stack' : i = 1 \/ (i - 1 \in DOMAIN stack /\ stack'[i] = stack[i - 1])
    BY <2>1, <2>2
  <2>4. \A j \in DOMAIN stack : j + 1 \in DOMAIN stack'
    BY <2>2
  <2>5. FrameFrom(f) /\ f.h \in Handles
    BY <1>4 DEF FrameFrom, Frames
  <2>6. FramesFrom
    BY <1>s, <1>f, <2>1, <2>3, <2>5 DEF FramesFrom
  <2>7. \A h : InFrame(h, "on_connection") => InFrame(h, "on_connection")'
    BY <2>1, <2>2, <2>4 DEF InFrame
  <2> QED
    BY <2>6, <2>7 DEF CallsKept
<1> QED
  BY <1>1, <1>2, <1>3, <1>4 DEF Rewinds, Unwinds

LEMMA ServedKept ==
    ASSUME NetShape, Served, Rewinds, \A h \in Handles : SameServer(h) \/ NoConnection(h)
    PROVE  Served'
<1>1. ASSUME NEW h \in Handles PROVE ServerIdle(h)'
  <2>1. ServerIdle(h)
    BY DEF Served
  <2>2. CASE SameServer(h)
    BY <2>1, <2>2, RewindsFacts DEF ServerIdle, SameServer, CallsKept
  <2>3. CASE NoConnection(h)
    BY <2>3 DEF ServerIdle, NoConnection
  <2> QED
    BY <2>2, <2>3
<1>2. ASSUME NEW i \in DOMAIN stack' PROVE ServerFrame(stack[i])'
  <2> SUFFICES ASSUME stack'[i].pc \in ServerPcs PROVE ServerFrame(stack[i])'
    BY DEF ServerFrame, ServerPcs
  <2>1. PICK j \in DOMAIN stack :
           /\ stack'[i].h = stack[j].h /\ stack[j].pc \in ServerPcs
           /\ stack'[i].pc \in Accepting =>
                 stack[j].pc \in Accepting \/ handle[stack[j].h].accepted = NoFd
    BY RewindsFacts DEF FramesFrom, FrameFrom
  <2>2. PICK h \in Handles : h = stack'[i].h
    BY RewindsFacts DEF FramesFrom
  <2>3. ServerFrame(stack[j]) /\ Serving(h)
    BY <2>1, <2>2 DEF Served, Serving
  <2>4. CASE SameServer(h)
    BY <2>1, <2>2, <2>3, <2>4 DEF ServerFrame, SameServer
  <2>5. CASE NoConnection(h)
    BY <2>1, <2>2, <2>3, <2>5 DEF ServerFrame, NoConnection
  <2> QED
    BY <2>4, <2>5
<1> QED
  BY <1>1, <1>2 DEF Served

(* Events that are given up are all that a watcher loses. *)
LEMMA DeregisterLeaves ==
    ASSUME ReactorTypeOK, NEW h \in Handles, NEW ev, apc_event_watcher_deregister(h, ev)
    PROVE  /\ watcher'[h].fd = watcher[h].fd
           /\ watcher'[h].events \in {watcher[h].events, watcher[h].events \ ev}
           /\ FdOf(h) # NoFd => watcher'[h].events = watcher[h].events \ ev
           /\ \A g \in Handles \ {h} : watcher'[g] = watcher[g]
<1> DEFINE new == Deregistered(h, ev)
<1>1. new.fd = watcher[h].fd /\ new.events = watcher[h].events \ ev
  BY DEF Deregistered, ReactorTypeOK
<1>2. IF FdOf(h) = NoFd THEN watcher' = watcher ELSE watcher' = [watcher EXCEPT ![h] = new]
  BY DEF apc_event_watcher_deregister, reactorVars
<1> HIDE DEF new
<1> QED
  BY <1>1, <1>2 DEF ReactorTypeOK

(* A handle without a descriptor is not that of a function that accepts. *)
LEMMA NotServing ==
    ASSUME IInv, NEW h \in Handles,
           handle[h].state = "free" \/ (handle[h].state = "open" /\ FdOf(h) = NoFd)
    PROVE  ~Serving(h)
<1> SUFFICES ASSUME NEW i \in DOMAIN stack, stack[i].h = h, stack[i].pc \in ServerPcs PROVE FALSE
  BY DEF Serving
<1>1. Resumable(i)
  BY FrameFacts DEF IInv, Suspended, NetShape
<1> QED
  BY <1>1 DEF Resumable, Flushing, ServerPcs, Accepting

LEMMA UserServed ==
    ASSUME IInv, Supported, Served, UserStep
    PROVE  Served'
<1>0. NetShape /\ HandleShape /\ ReactorTypeOK /\ Sockets
  BY DEF IInv, NetShape
<1>1. PICK h \in Handles : UserCall(h)
  BY DEF UserStep
<1>2. Rewinds
  BY DEF UserStep, Rewinds
<1>3. ServerIdle(h) /\ handle[h] = handle[h] /\ DOMAIN handle[h] = Fields
  BY <1>0 DEF Served, HandleShape
<1> DEFINE Others == \A g \in Handles \ {h} : SameServer(g)
<1> SUFFICES \/ Others /\ (SameServer(h) \/ NoConnection(h))
             \/ \A g \in Handles : SameServer(g) \/ NoConnection(g)
  BY <1>0, <1>2, ServedKept
(* The watcher is registered, or made with a descriptor. *)
<1>4. ASSUME NEW w, NEW ev, RegisterAs(h, w, ev), DOMAIN w = {"fd", "events", "registered", "queued"}
      PROVE  /\ \A g \in Handles \ {h} : watcher'[g] = watcher[g]
             /\ watcher'[h].events = w.events \cup ev /\ watcher'[h].fd = w.fd
  BY <1>0, <1>4 DEF RegisterAs, ReactorTypeOK
<1>5. DOMAIN watcher[h] = {"fd", "events", "registered", "queued"}
  BY <1>0 DEF ReactorTypeOK
<1>6. /\ DOMAIN apc_event_watcher_init(FreeFd) = {"fd", "events", "registered", "queued"}
      /\ apc_event_watcher_init(FreeFd).events = {} /\ NewWatcher.events = {}
      /\ NewWatcher.fd = NoFd
  BY DEF apc_event_watcher_init, NewWatcher
<1>7. CASE apc_net_init(h)
  <2>1. PICK use \in Uses[h] :
           handle' = [handle EXCEPT ![h] = [NoHandleYet EXCEPT !.state = "open", !.use = use]]
    BY <1>7 DEF apc_net_init
  <2>2. /\ handle'[h].accepted = NoFd /\ handle'[h].role = "none"
        /\ \A g \in Handles \ {h} : handle'[g] = handle[g]
    BY <1>0, <2>1 DEF HandleShape, NoHandleYet
  <2>3. watcher' = [watcher EXCEPT ![h] = NewWatcher]
    BY <1>7 DEF apc_net_init
  <2>4. FdOf(h)' = NoFd /\ \A g \in Handles \ {h} : watcher'[g] = watcher[g]
    BY <1>0, <1>6, <2>3 DEF FdOf, ReactorTypeOK
  <2> QED
    BY <2>2, <2>4 DEF SameServer, NoConnection, FdOf
<1>8. CASE apc_bind(h)
  <2>1. /\ FdOf(h) = NoFd /\ MayCall(h)
        /\ watcher' = [watcher EXCEPT ![h] = apc_event_watcher_init(FreeFd)]
        /\ handle' = [handle EXCEPT ![h].role = IF Tcp(h) THEN "bound" ELSE "stream"]
    BY <1>8 DEF apc_bind
  <2>2. handle[h].role = "none" /\ handle[h].accepted = NoFd /\ ~Serving(h)
    BY <1>0, <1>3, <2>1, MayCallFacts, NotServing DEF Sockets, ServerIdle
  <2>3. /\ handle'[h].accepted = NoFd /\ \A g \in Handles \ {h} : handle'[g] = handle[g]
    BY <1>0, <1>3, <2>1, <2>2 DEF HandleShape, Fields
  <2>4. watcher'[h].events = {} /\ \A g \in Handles \ {h} : watcher'[g] = watcher[g]
    BY <1>0, <1>6, <2>1 DEF ReactorTypeOK
  <2> QED
    BY <2>2, <2>3, <2>4 DEF SameServer, NoConnection, FdOf
<1>9. CASE apc_tcp_connect(h)
  <2>1. /\ FdOf(h) = NoFd /\ MayCall(h)
        /\ RegisterAs(h, apc_event_watcher_init(FreeFd), {"OUT"})
        /\ handle' = [handle EXCEPT ![h] = [With(h, {"ACTIVE"}) EXCEPT
                                               !.role = "stream", !.connecting = TRUE]]
    BY <1>9 DEF apc_tcp_connect
  <2>2. handle[h].role = "none" /\ handle[h].accepted = NoFd /\ ~Serving(h)
    BY <1>0, <1>3, <2>1, MayCallFacts, NotServing DEF Sockets, ServerIdle
  <2>3. /\ handle'[h].accepted = NoFd /\ handle'[h].role = "stream"
        /\ \A g \in Handles \ {h} : handle'[g] = handle[g]
    BY <1>0, <1>3, <2>1, <2>2 DEF HandleShape, Fields, With
  <2> QED
    BY <1>4, <1>6, <2>1, <2>2, <2>3 DEF SameServer, NoConnection, FdOf
<1>10. CASE apc_listen(h)
  <2>1. /\ handle[h].accepted = NoFd /\ handle[h].role \in {"bound", "server"}
        /\ RegisterAs(h, watcher[h], {"IN"})
        /\ handle' = [handle EXCEPT ![h] = [With(h, {"ACTIVE", "READABLE"}) EXCEPT !.role = "server"]]
    BY <1>10 DEF apc_listen, Supported, apc_event_watcher_register
  <2>2. /\ handle'[h].accepted = NoFd /\ handle'[h].role = "server"
        /\ \A g \in Handles \ {h} : handle'[g] = handle[g]
    BY <1>0, <1>3, <2>1 DEF HandleShape, Fields, With
  <2>3. watcher'[h].events \subseteq {"IN"} /\ \A g \in Handles \ {h} : watcher'[g] = watcher[g]
    BY <1>3, <1>4, <1>5, <2>1 DEF ServerIdle
  <2> QED
    BY <2>2, <2>3 DEF SameServer, NoConnection, FdOf
(* A stream has no connections to accept. *)
<1>11. ASSUME handle[h].role = "stream", handle'[h].role = "stream",
              handle'[h].accepted = handle[h].accepted,
              \A g \in Handles \ {h} : handle'[g] = handle[g] /\ watcher'[g] = watcher[g],
              watcher'[h].fd = watcher[h].fd
       PROVE  Others /\ NoConnection(h)
  <2>1. handle[h].accepted = NoFd
    BY <1>3, <1>11 DEF ServerIdle
  <2>2. FdOf(h)' # NoFd => ~Serving(h)
    BY <1>11 DEF Served, ServerFrame, Serving, FdOf
  <2> QED
    BY <1>11, <2>1, <2>2 DEF SameServer, NoConnection, FdOf
<1>12. CASE apc_start_read(h)
  <2>1. /\ handle[h].role = "stream" /\ RegisterAs(h, watcher[h], {"IN"})
        /\ handle' = [handle EXCEPT ![h] = [With(h, {"ACTIVE", "READABLE"}) EXCEPT !.reading = TRUE]]
    BY <1>12 DEF apc_start_read, apc_event_watcher_register
  <2>2. /\ handle'[h].accepted = handle[h].accepted /\ handle'[h].role = "stream"
        /\ \A g \in Handles \ {h} : handle'[g] = handle[g]
    BY <1>0, <1>3, <2>1 DEF HandleShape, Fields, With
  <2> QED
    BY <1>4, <1>5, <1>11, <2>1, <2>2
<1>13. CASE apc_stop_read(h)
  <2>1. /\ handle[h].role = "stream" /\ apc_event_watcher_deregister(h, {"OUT"})
        /\ handle' = [handle EXCEPT ![h] = StoppedReading(h)]
    BY <1>13 DEF apc_stop_read
  <2>2. /\ handle'[h].accepted = handle[h].accepted /\ handle'[h].role = "stream"
        /\ \A g \in Handles \ {h} : handle'[g] = handle[g]
    BY <1>0, <1>3, <2>1 DEF HandleShape, Fields, StoppedReading
  <2>3. watcher'[h].fd = watcher[h].fd /\ \A g \in Handles \ {h} : watcher'[g] = watcher[g]
    BY <1>0, <2>1, DeregisterLeaves
  <2> QED
    BY <1>11, <2>1, <2>2, <2>3
<1>14. CASE apc_reject(h)
  <2>1. /\ handle[h].accepted # NoFd /\ handle' = [handle EXCEPT ![h].accepted = NoFd]
        /\ watcher' = watcher
    BY <1>14 DEF apc_reject, reactorVars
  <2>2. /\ handle'[h].accepted = NoFd /\ handle'[h].role = "server"
        /\ \A g \in Handles \ {h} : handle'[g] = handle[g]
    BY <1>0, <1>3, <2>1 DEF HandleShape, Fields, ServerIdle
  <2> QED
    BY <1>3, <2>1, <2>2 DEF SameServer, NoConnection, FdOf, ServerIdle
<1>15. ASSUME NEW c \in Handles, apc_accept(h, c)
       PROVE  \A g \in Handles : SameServer(g) \/ NoConnection(g)
  <2> DEFINE w == apc_event_watcher_init(handle[h].accepted)
             x == [NoHandleYet EXCEPT !.state = "open", !.use = "stream", !.role = "stream"]
  <2>1. /\ handle[h].accepted # NoFd /\ MayCall(h) /\ handle[c].state = "free"
        /\ RegisterAs(c, w, {"IN"})
        /\ handle' = [handle EXCEPT ![c] = x, ![h].accepted = NoFd]
    BY <1>15 DEF apc_accept
  <2>2. c # h /\ ~Serving(c)
    BY <2>1, MayCallFacts, NotServing
  <2>3. x.accepted = NoFd /\ x.role = "stream"
    BY DEF NoHandleYet
  <2> HIDE DEF x, w
  <2>4. /\ handle'[c] = x /\ handle'[h] = [handle[h] EXCEPT !.accepted = NoFd]
        /\ \A g \in Handles \ {h, c} : handle'[g] = handle[g]
    BY <1>0, <2>1, <2>2 DEF HandleShape
  <2>5. handle'[h].accepted = NoFd /\ handle'[h].role = "server" /\ handle[h].role = "server"
    BY <1>3, <2>1, <2>4 DEF ServerIdle, Fields
  <2>6. \A g \in Handles \ {c} : watcher'[g] = watcher[g]
    BY <1>0, <2>1 DEF RegisterAs, ReactorTypeOK
  <2>7. NoConnection(c)
    BY <2>2, <2>3, <2>4 DEF NoConnection
  <2>8. NoConnection(h)
    BY <1>3, <2>2, <2>5, <2>6 DEF NoConnection, ServerIdle
  <2> QED
    BY <2>4, <2>6, <2>7, <2>8 DEF SameServer, FdOf
<1>16. ASSUME NEW r \in Reqs, apc_write(h, r) PROVE Others /\ NoConnection(h)
  <2>1. PICK n \in Sizes :
           \/ handle' = [handle EXCEPT ![h].size = @ + n] /\ UNCHANGED reactorVars
           \/ /\ handle' = [handle EXCEPT ![h] = [With(h, {"ACTIVE", "WRITABLE"}) EXCEPT !.size = @ + n]]
              /\ RegisterAs(h, watcher[h], {"OUT"})
    BY <1>16 DEF apc_write, apc_event_watcher_register
  <2>2. /\ handle'[h].accepted = handle[h].accepted /\ handle'[h].role = handle[h].role
        /\ \A g \in Handles \ {h} : handle'[g] = handle[g]
    <3>1. CASE handle' = [handle EXCEPT ![h].size = @ + n]
      BY <1>0, <1>3, <3>1 DEF HandleShape, Fields
    <3>2. CASE handle' = [handle EXCEPT ![h] = [With(h, {"ACTIVE", "WRITABLE"}) EXCEPT !.size = @ + n]]
      BY <1>0, <1>3, <3>2 DEF HandleShape, Fields, With
    <3> QED
      BY <2>1, <3>1, <3>2
  <2>3. handle[h].role = "stream"
    BY <1>16 DEF apc_write
  <2>4. watcher'[h].fd = watcher[h].fd /\ \A g \in Handles \ {h} : watcher'[g] = watcher[g]
    BY <1>4, <1>5, <2>1 DEF reactorVars
  <2> QED
    BY <1>11, <2>2, <2>3, <2>4
<1> QED
  BY <1>1, <1>7, <1>8, <1>9, <1>10, <1>12, <1>13, <1>14, <1>15, <1>16 DEF UserCall

LEMMA CloseServed ==
    ASSUME IInv, Served, CloseEnd \/ \E h \in Handles : CloseStart(h)
    PROVE  Served'
<1>0. NetShape /\ HandleShape /\ ReactorTypeOK /\ stack \in Seq(Frames)
  BY DEF IInv, NetShape
<1>1. ASSUME NEW h \in Handles, CloseStart(h) PROVE Served'
  <2>1. /\ apc_event_watcher_deregister(h, PollEvents)
        /\ \E x \in {StoppedReading(h), handle[h]} : handle' = [handle EXCEPT ![h] = x]
        /\ stack' = <<Frame("flush", h, {}, write_queue[h])>> \o stack
    BY <1>1 DEF CloseStart, apc_event_watcher_close
  <2>2. /\ \A g \in Handles : /\ handle'[g].accepted = handle[g].accepted
                              /\ handle'[g].role = handle[g].role
    BY <1>0, <2>1 DEF HandleShape, Fields, StoppedReading
  <2>3. \A g \in Handles : SameServer(g)
    BY <1>0, <2>1, <2>2, DeregisterLeaves DEF SameServer, FdOf
  <2>4. Rewinds
    <3> DEFINE f == Frame("flush", h, {}, write_queue[h])
    <3>1. f \in Frames /\ f.pc = "flush"
      BY <1>0 DEF Frame, Frames, NetShape
    <3> HIDE DEF f
    <3>2. stack' = <<f>> \o stack
      BY <2>1 DEF f
    <3> QED
      BY <3>1, <3>2 DEF Rewinds, ServerPcs, Accepting
  <2> QED
    BY <1>0, <2>3, <2>4, ServedKept
<1>2. CASE CloseEnd
  <2>1. PICK h : h = Top.h
    OBVIOUS
  <2>2. /\ stack # <<>> /\ Top.pc = "flush" /\ Return
        /\ watcher' = [watcher EXCEPT ![h].fd = NoFd]
        /\ handle' = [handle EXCEPT ![h] = [NoHandleYet EXCEPT !.state = "closing"]]
    BY <1>2, <2>1 DEF CloseEnd, At
  <2>3. h \in Handles
    BY <1>0, <2>1, <2>2, StackParts
  <2>4. /\ FdOf(h)' = NoFd /\ \A g \in Handles \ {h} : watcher'[g] = watcher[g]
    BY <1>0, <2>2, <2>3 DEF FdOf, ReactorTypeOK
  <2>5. /\ handle'[h].accepted = NoFd /\ handle'[h].role = "none"
        /\ \A g \in Handles \ {h} : handle'[g] = handle[g]
    BY <1>0, <2>2, <2>3 DEF HandleShape, NoHandleYet
  <2>6. \A g \in Handles : SameServer(g) \/ NoConnection(g)
    BY <2>4, <2>5 DEF SameServer, NoConnection, FdOf
  <2>7. Rewinds
    BY <2>2 DEF Rewinds, Unwinds
  <2> QED
    BY <1>0, <2>6, <2>7, ServedKept
<1> QED
  BY <1>1, <1>2

(* The steps of a function that is innermost. *)
Serves == \/ ServerStops \/ AcceptFails \/ ConnectionTaken \/ ConnectionLeft
          \/ StillConnecting \/ Connects \/ ReadLoopEnds \/ ReadData \/ ReadEnds
          \/ IoReturns \/ NothingToWrite \/ TcpWrites \/ TcpWriteFails \/ UdpWrites
          \/ WritesServed \/ CallbackReturns \/ AnswerFlushed \/ AnswerWritten

LEMMA ServesSame ==
    ASSUME IInv, Serves
    PROVE  /\ stack # <<>> /\ \A g \in Handles : SameServer(g)
<1>h. PICK h : h = Top.h
  OBVIOUS
<1>0. NetShape /\ HandleShape /\ ReactorTypeOK /\ stack \in Seq(Frames)
  BY DEF IInv, NetShape
<1>1. stack # <<>>
  BY DEF Serves, ServerStops, AcceptFails, ConnectionTaken, ConnectionLeft, StillConnecting,
         Connects, ReadLoopEnds, ReadData, ReadEnds, IoReturns, NothingToWrite, TcpWrites,
         TcpWriteFails, UdpWrites, WritesServed, CallbackReturns, AnswerFlushed, AnswerWritten,
         Answer, Reading, Writing, WriteTurn, At
<1>2. h \in Handles /\ DOMAIN handle[h] = Fields
  BY <1>0, <1>1, <1>h, StackParts DEF HandleShape
<1>3. UNCHANGED reactorVars \/ \E ev : apc_event_watcher_deregister(h, ev)
  BY <1>h DEF Serves, ServerStops, AcceptFails, ConnectionTaken, ConnectionLeft, StillConnecting,
         Connects, ReadLoopEnds, ReadData, ReadEnds, IoReturns, NothingToWrite, TcpWrites,
         TcpWriteFails, UdpWrites, WritesServed, CallbackReturns, AnswerFlushed, AnswerWritten,
         Answer
<1>4. \A g \in Handles : watcher'[g].fd = watcher[g].fd
                         /\ watcher'[g].events \subseteq watcher[g].events
  BY <1>0, <1>2, <1>3, DeregisterLeaves DEF reactorVars
<1>5. \A g \in Handles : handle'[g].accepted = handle[g].accepted /\ handle'[g].role = handle[g].role
  <2>1. ASSUME NEW x, DOMAIN x = Fields, x.accepted = handle[h].accepted, x.role = handle[h].role,
               handle' = [handle EXCEPT ![h] = x]
        PROVE  \A g \in Handles : /\ handle'[g].accepted = handle[g].accepted
                                  /\ handle'[g].role = handle[g].role
    BY <1>0, <1>2, <2>1 DEF HandleShape
  <2>2. ASSUME NEW flags, handle' = [handle EXCEPT ![h].flags = flags]
        PROVE  \A g \in Handles : /\ handle'[g].accepted = handle[g].accepted
                                  /\ handle'[g].role = handle[g].role
    BY <1>0, <1>2, <2>2 DEF HandleShape, Fields
  <2>3. CASE ConnectionLeft
    BY <1>h, <2>2, <2>3 DEF ConnectionLeft
  <2>4. CASE ReadEnds
    BY <1>h, <2>2, <2>4 DEF ReadEnds
  <2>5. CASE WritesServed
    BY <1>h, <2>2, <2>5 DEF WritesServed
  <2>6. CASE Connects
    <3>1. CASE handle' = [handle EXCEPT ![h] = [With(h, {"READABLE", "WRITABLE"})
                                                    EXCEPT !.connecting = FALSE]]
      BY <1>0, <1>2, <3>1 DEF HandleShape, Fields, With
    <3>2. CASE handle' = [handle EXCEPT ![h].connecting = FALSE,
                   ![h].flags = FlagsWithout(h, {"OUT"}) \cup {"READABLE", "WRITABLE"}]
      BY <1>0, <1>2, <3>2 DEF HandleShape, Fields
    <3> QED
      BY <1>h, <2>6, <3>1, <3>2 DEF Connects
  <2>7. ASSUME NEW n, handle' = [handle EXCEPT ![h].size = @ - n]
        PROVE  \A g \in Handles : /\ handle'[g].accepted = handle[g].accepted
                                  /\ handle'[g].role = handle[g].role
    BY <1>0, <1>2, <2>7 DEF HandleShape, Fields
  <2>8. CASE TcpWrites
    BY <1>h, <2>7, <2>8 DEF TcpWrites
  <2>9. CASE UdpWrites
    BY <1>h, <2>7, <2>9 DEF UdpWrites
  <2>10. CASE TcpWriteFails
    <3>1. PICK n, flags : handle' = [handle EXCEPT ![h].size = @ - n, ![h].flags = flags]
      BY <1>h, <2>10 DEF TcpWriteFails
    <3> QED
      BY <1>0, <1>2, <3>1 DEF HandleShape, Fields
  <2>11. CASE UNCHANGED handle
    BY <2>11
  <2> QED
    BY <2>3, <2>4, <2>5, <2>6, <2>8, <2>9, <2>10, <2>11
       DEF Serves, ServerStops, AcceptFails, ConnectionTaken, StillConnecting, ReadLoopEnds,
           ReadData, IoReturns, NothingToWrite, CallbackReturns, AnswerFlushed, AnswerWritten,
           Answer, handleVars
<1> QED
  BY <1>1, <1>4, <1>5 DEF SameServer, FdOf

LEMMA ReplacedFrame ==
    ASSUME NetShape, NetShape', stack # <<>>, NEW f, Replace(f)
    PROVE  f \in Frames
<1> DEFINE t == Tail(stack)
<1>1. t \in Seq(Frames) /\ stack' = <<f>> \o t /\ stack' \in Seq(Frames)
  BY StackParts DEF NetShape, Replace
<1> HIDE DEF t
<1>2. DOMAIN stack' = 1..(1 + Len(t)) /\ Len(t) \in Nat /\ stack'[1] = f
  BY <1>1
<1> QED
  BY <1>1, <1>2

LEMMA ServesServed ==
    ASSUME IInv, IInv', Served, Serves
    PROVE  Served'
<1>0. NetShape /\ NetShape'
  BY DEF IInv
<1>1. stack # <<>> /\ \A g \in Handles : SameServer(g)
  BY ServesSame
<1>2. Top.h \in Handles
  BY <1>0, <1>1, StackParts DEF NetShape
<1>3. CASE Top.pc # "on_connection" /\ Return
  BY <1>1, <1>3, <1>0, ServedKept DEF Rewinds, Unwinds
<1>4. ASSUME NEW f, Replace(f), f.h = Top.h, f.pc # "on_connection", Top.pc # "on_connection",
             f.pc \in Accepting => Top.pc \in Accepting
      PROVE  Served'
  <2>1. f \in Frames
    BY <1>0, <1>1, <1>4, ReplacedFrame
  <2>2. GoesTo(f)
    BY <1>4 DEF GoesTo
  <2> QED
    BY <1>0, <1>1, <1>4, <2>1, <2>2, ServedKept DEF Rewinds, Unwinds
<1>5. ASSUME NEW pc, Goto(pc), pc # "on_connection", Top.pc # "on_connection",
             pc \in Accepting => Top.pc \in Accepting
      PROVE  Served'
  <2> DEFINE f == [Top EXCEPT !.pc = pc]
  <2>1. f.h = Top.h /\ f.pc = pc
    BY <1>0, <1>1, StackParts DEF Frames, NetShape
  <2>2. Replace(f)
    BY <1>5 DEF Goto
  <2> HIDE DEF f
  <2> QED
    BY <1>4, <1>5, <2>1, <2>2
<1>6. ASSUME NEW f \in {[Top EXCEPT !.ev = NoMoreReads]}
                       \cup {[Top EXCEPT !.pc = "on_read", !.ev = ev] : ev \in {Top.ev, NoMoreReads}},
             Reading, Replace(f)
      PROVE  Served'
  <2>1. Top.pc = "io" /\ Top \in Frames
    BY <1>0, <1>1, <1>6, StackParts DEF Reading, At, NetShape
  <2>2. f.h = Top.h /\ f.pc \in {"io", "on_read"}
    BY <2>1 DEF Frames
  <2> QED
    BY <1>4, <1>6, <2>1, <2>2 DEF Accepting
<1>7. ASSUME NEW n, Written(Top.h, n), Top.pc = "io" PROVE Served'
  <2> DEFINE q == SubSeq(write_queue[Top.h], 1, n)
             f == [Top EXCEPT !.pc = "written", !.q = q]
  <2> HIDE DEF q
  <2>1. f.h = Top.h /\ f.pc = "written"
    BY <1>0, <1>1, StackParts DEF Frames, NetShape
  <2>2. Replace(f)
    BY <1>7 DEF Written, q
  <2> HIDE DEF f
  <2> QED
    BY <1>4, <1>7, <2>1, <2>2 DEF Accepting
<1>8. ASSUME NEW pc, NEW callback \in {"on_flush", "on_write"}, pc \in {"flush", "written"},
             Answer(pc, callback)
      PROVE  Served'
  <2> DEFINE f == Frame(callback, Top.h, Top.ev, Tail(Top.q))
  <2>1. f.h = Top.h /\ f.pc = callback /\ Replace(f) /\ Top.pc = pc
    BY <1>8 DEF Frame, Answer, At
  <2> HIDE DEF f
  <2> QED
    BY <1>4, <1>8, <2>1 DEF Accepting
<1>9. CASE ServerStops \/ StillConnecting \/ IoReturns \/ WritesServed
  BY <1>3, <1>9 DEF ServerStops, StillConnecting, IoReturns, WritesServed, Writing, At
<1>10. CASE AcceptFails \/ Connects
  BY <1>5, <1>10 DEF AcceptFails, Connects, At, Accepting
<1>11. CASE ConnectionTaken
  <2> DEFINE f == [Top EXCEPT !.pc = "server"]
  <2>1. f.h = Top.h /\ f.pc = "server"
    BY <1>0, <1>1, StackParts DEF Frames, NetShape
  <2>2. /\ Replace(f) /\ Top.pc = "on_connection" /\ handle[Top.h].accepted = NoFd
        /\ UNCHANGED handle
    BY <1>11 DEF ConnectionTaken, Goto, At, handleVars
  <2> HIDE DEF f
  <2>3. f \in Frames
    BY <1>0, <1>1, <2>2, ReplacedFrame
  <2>4. PICK h : h = Top.h
    OBVIOUS
  <2>5. handle'[h].accepted = NoFd
    BY <2>2, <2>4
  <2>6. Rewinds
    BY <1>1, <2>1, <2>2, <2>3 DEF Rewinds, Unwinds, GoesTo
  <2> QED
    BY <1>0, <1>1, <2>6, ServedKept
<1>12. CASE ConnectionLeft
  <2>1. PICK h \in Handles : h = Top.h
    BY <1>2
  <2>2. /\ Return /\ handle[h].accepted # NoFd /\ apc_event_watcher_deregister(h, {"IN"})
    BY <1>12, <2>1 DEF ConnectionLeft, At
  <2>3. ServerIdle(h)
    BY DEF Served
  <2>4. handle[h].role = "server" /\ watcher[h].events \subseteq {"IN"} /\ FdOf(h) # NoFd
    BY <2>2, <2>3 DEF ServerIdle, IInv, Sockets
  <2>5. watcher'[h].events = {}
    <3>1. watcher'[h].events = watcher[h].events \ {"IN"}
      BY <1>0, <2>2, <2>4, DeregisterLeaves DEF NetShape
    <3> QED
      BY <2>4, <3>1
  <2>6. Rewinds
    BY <1>1, <2>1, <2>2, <2>5 DEF Rewinds, Unwinds
  <2> QED
    BY <1>0, <1>1, <2>6, ServedKept
<1>13. CASE ReadLoopEnds \/ ReadData \/ ReadEnds
  BY <1>6, <1>13 DEF ReadLoopEnds, ReadData, ReadEnds
<1>14. CASE NothingToWrite \/ TcpWrites \/ TcpWriteFails \/ UdpWrites
  <2>1. Top.pc = "io" /\ \E n : Written(Top.h, n)
    BY <1>14 DEF NothingToWrite, TcpWrites, TcpWriteFails, UdpWrites, WriteTurn, Writing, At
  <2> QED
    BY <1>7, <2>1
<1>15. CASE CallbackReturns
  BY <1>3, <1>5, <1>15 DEF CallbackReturns, At, Accepting
<1>16. CASE AnswerFlushed \/ AnswerWritten
  BY <1>8, <1>16 DEF AnswerFlushed, AnswerWritten
<1> QED
  BY <1>9, <1>10, <1>11, <1>12, <1>13, <1>14, <1>15, <1>16 DEF Serves

(* A connection is accepted when the one before it is gone. *)
LEMMA AcceptsServed ==
    ASSUME IInv, Served, Accepts
    PROVE  Served'
<1>0. NetShape /\ HandleShape /\ stack \in Seq(Frames)
  BY DEF IInv, NetShape
<1>1. PICK h : h = Top.h
  OBVIOUS
<1>2. /\ stack # <<>> /\ Top.pc = "server" /\ FdOf(h) # NoFd
      /\ handle' = [handle EXCEPT ![h].accepted = FreeFd]
      /\ Goto("on_connection") /\ watcher' = watcher
  BY <1>1 DEF Accepts, At, reactorVars
<1>3. Top \in Frames /\ h \in Handles /\ Top = stack[1] /\ 1 \in DOMAIN stack
  BY <1>0, <1>1, <1>2, StackParts, FrameFacts
<1>4. handle[h].role = "server"
  <2>1. ServerFrame(stack[1])
    BY <1>3 DEF Served
  <2>2. stack[1].h = h /\ stack[1].pc = "server"
    BY <1>1, <1>2, <1>3
  <2> QED
    BY <1>2, <2>1, <2>2 DEF ServerFrame, ServerPcs, Accepting
<1> DEFINE f == [Top EXCEPT !.pc = "on_connection"]
<1>5. f.pc = "on_connection" /\ f.h = h
  BY <1>1, <1>3 DEF Frames
<1>6. stack' = <<f>>
  <2>1. InService
    BY <1>2 DEF InService, Flushing
  <2> QED
    BY <1>2, <2>1, TopFacts DEF Goto
<1> HIDE DEF f
<1>7. DOMAIN stack' = {1} /\ stack'[1] = f
  BY <1>6
<1>8. handle'[h].role = "server" /\ \A g \in Handles \ {h} : handle'[g] = handle[g]
  BY <1>0, <1>2, <1>3, <1>4 DEF HandleShape, Fields
<1>9. ASSUME NEW g \in Handles PROVE ServerIdle(g)'
  <2>1. ServerIdle(g)
    BY DEF Served
  <2>2. CASE g = h
    <3>1. InFrame(h, "on_connection")'
      BY <1>5, <1>7 DEF InFrame
    <3> QED
      BY <1>2, <1>4, <1>8, <2>1, <2>2, <3>1 DEF ServerIdle
  <2>3. CASE g # h
    <3>1. ~InFrame(g, "on_connection")
      <4>1. stack = <<Top>>
        BY <1>2, TopAlone DEF Alone, Flushing
      <4>2. DOMAIN stack = {1}
        <5> DEFINE t == Top
        <5>1. stack = <<t>>
          BY <4>1
        <5> HIDE DEF t
        <5> QED
          BY <5>1
      <4> QED
        BY <1>2, <1>3, <4>2 DEF InFrame
    <3> QED
      BY <1>2, <1>8, <2>1, <2>3, <3>1 DEF ServerIdle
  <2> QED
    BY <2>2, <2>3
<1>10. ASSUME NEW i \in DOMAIN stack' PROVE ServerFrame(stack[i])'
  BY <1>5, <1>7, <1>8 DEF ServerFrame, Accepting
<1> QED
  BY <1>9, <1>10 DEF Served

LEMMA LoopServed ==
    ASSUME IInv, Served, Poll \/ LoopCheck \/ RunClosing \/ \E f \in Fds : Dispatch(f)
    PROVE  Served'
<1>0. NetShape /\ HandleShape /\ ReactorTypeOK /\ Watchers /\ Sockets /\ ClosingQueued
      /\ stack \in Seq(Frames) /\ closing_queue \in Seq(Handles)
  BY DEF IInv, NetShape
<1>1. CASE Poll \/ LoopCheck
  <2>1. UNCHANGED <<handle, stack>>
    BY <1>1 DEF Poll, LoopCheck, handleVars
  <2>2. \A g \in Handles : watcher'[g].fd = watcher[g].fd /\ watcher'[g].events = watcher[g].events
    BY <1>0, <1>1 DEF Poll, LoopCheck, TellKernel, ReactorTypeOK, reactorVars
  <2> QED
    BY <1>0, <2>1, <2>2, ServedKept DEF Rewinds, SameServer, FdOf
<1>2. CASE RunClosing
  <2>1. PICK h : h = Head(closing_queue)
    OBVIOUS
  <2>2. /\ stack = <<>> /\ closing_queue # <<>>
        /\ handle' = [handle EXCEPT ![h] = NoHandleYet]
        /\ stack' = <<Frame("on_closing", h, {}, <<>>)>> /\ watcher' = watcher
    BY <1>2, <2>1 DEF RunClosing, AtLoop, reactorVars
  <2>3. h \in Handles /\ handle[h].state = "closing"
    BY <1>0, <2>1, <2>2, TailFacts DEF ClosingQueued
  <2>4. FdOf(h)' = NoFd
    BY <1>0, <2>2, <2>3 DEF Sockets, FdOf
  <2>5. /\ handle'[h].accepted = NoFd /\ handle'[h].role = "none"
        /\ \A g \in Handles \ {h} : handle'[g] = handle[g]
    BY <1>0, <2>2, <2>3 DEF HandleShape, NoHandleYet
  <2>6. \A g \in Handles : SameServer(g) \/ NoConnection(g)
    BY <2>2, <2>4, <2>5 DEF SameServer, NoConnection, FdOf
  <2>7. Rewinds
    <3> DEFINE f == Frame("on_closing", h, {}, <<>>)
    <3>1. f \in Frames /\ f.pc = "on_closing"
      BY <2>3 DEF Frame, Frames, CallbackPcs
    <3> HIDE DEF f
    <3>2. stack' = <<f>> \o stack
      BY <2>2, <3>1 DEF f
    <3> QED
      BY <3>1, <3>2 DEF Rewinds, ServerPcs, Accepting
  <2> QED
    BY <1>0, <2>6, <2>7, ServedKept
<1>3. ASSUME NEW d \in Fds, Dispatch(d) PROVE Served'
  <2>1. PICK h : h = event_watchers[d]
    OBVIOUS
  <2>2. /\ stack = <<>> /\ UNCHANGED <<handle, watcher>>
        /\ stack' # stack => /\ h # NoHandle
                             /\ stack' = <<Frame(EventPc(h), h, Wanted(h, batch[d]), <<>>)>>
    BY <1>3, <2>1 DEF Dispatch, AtLoop, handleVars, reactorVars, DropInterest
  <2>3. CASE stack' = stack
    BY <1>0, <2>2, <2>3, ServedKept DEF Rewinds, SameServer, FdOf
  <2>4. CASE stack' # stack
    <3>1. h \in Handles /\ watcher[h].events # {}
      BY <1>0, <2>1, <2>2, <2>4 DEF Watchers, Table, ReactorTypeOK
    <3> DEFINE f == Frame(EventPc(h), h, Wanted(h, batch[d]), <<>>)
    <3>2. f.pc = EventPc(h) /\ f.h = h /\ stack' = <<f>>
      BY <2>2, <2>4 DEF Frame
    <3> HIDE DEF f
    <3>3. DOMAIN stack' = {1} /\ stack'[1] = f
      BY <3>2
    <3>4. \A g \in Handles : ServerIdle(g) /\ ~InFrame(g, "on_connection")
      BY <2>2 DEF Served, InFrame
    <3>5. \A g \in Handles : ServerIdle(g)'
      BY <2>2, <3>4 DEF ServerIdle
    <3>6. /\ f.pc \notin Accepting \cup {"on_connection"} \/ handle[h].role = "server"
          /\ handle[h].accepted = NoFd
      BY <3>1, <3>2, <3>4 DEF EventPc, Accepting, ServerIdle
    <3>7. \A i \in DOMAIN stack' : ServerFrame(stack[i])'
      BY <2>2, <3>2, <3>3, <3>6 DEF ServerFrame, ServerPcs
    <3> QED
      BY <3>5, <3>7 DEF Served
  <2> QED
    BY <2>3, <2>4
<1> QED
  BY <1>1, <1>2, <1>3

LEMMA ServedStep ==
    ASSUME IInv, Served, Supported, [Next]_vars
    PROVE  Served'
<1>0. IInv'
  BY IInvStep
<1>1. CASE UserStep
  BY <1>1, UserServed
<1>2. CASE CloseEnd \/ \E h \in Handles : CloseStart(h)
  BY <1>2, CloseServed
<1>3. CASE Serves
  BY <1>0, <1>3, ServesServed
<1>4. CASE Accepts
  BY <1>4, AcceptsServed
<1>5. CASE Poll \/ LoopCheck \/ RunClosing \/ \E f \in Fds : Dispatch(f)
  BY <1>5, LoopServed
<1>6. CASE UNCHANGED vars
  <2>1. UNCHANGED <<handle, watcher, stack>>
    BY <1>6 DEF vars, handleVars, reactorVars
  <2> QED
    BY <2>1, ServedKept DEF IInv, Rewinds, SameServer, FdOf
<1> QED
  BY <1>1, <1>2, <1>3, <1>4, <1>5, <1>6 DEF Next, Serves

LEMMA ServedInit == Init => Served
<1> SUFFICES ASSUME Init PROVE Served
  OBVIOUS
<1>1. /\ \A h \in Handles : handle[h].accepted = NoFd /\ handle[h].role = "none"
      /\ stack = <<>>
  BY DEF Init, NoHandleYet
<1> QED
  BY <1>1 DEF Served, ServerIdle

(* accepted_fd is -1 whenever fd_watcher_server is about to accept: no      *)
(* connection is overwritten by the next one, whatever on_connection does   *)
(* with it, and however the callbacks close, reuse and listen on handles.   *)
THEOREM OneConnectionAtATime ==
    ASSUME Supported
    PROVE  Spec => []AcceptsOneByOne
<1>1. IInv /\ Served /\ [Next]_vars => (IInv /\ Served)'
  BY IInvStep, ServedStep
<1>2. IInv /\ Served => AcceptsOneByOne
  <2> SUFFICES ASSUME IInv, Served, stack # <<>>, Top.pc = "server"
               PROVE  handle[Top.h].accepted = NoFd
    BY DEF AcceptsOneByOne, At
  <2>1. Top = stack[1] /\ 1 \in DOMAIN stack
    BY FrameFacts DEF IInv, NetShape
  <2>2. ServerFrame(stack[1])
    BY <2>1 DEF Served
  <2> QED
    BY <2>1, <2>2 DEF ServerFrame, Accepting
<1> QED
  BY IInvInit, ServedInit, <1>1, <1>2, PTL DEF Spec
===============================================================================
