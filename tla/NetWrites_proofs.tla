--------------------------- MODULE NetWrites_proofs ---------------------------
(***************************************************************************)
(* Proofs about the writes of Net: they are counted, their units are       *)
(* counted, and they are called back in order, for any handles, writes and *)
(* sizes, under the use of the library that the passing runs have.         *)
(*                                                                         *)
(* The writes of a handle that are not called back, Pending(h), are spread *)
(* over its queue and the frames of the stack.  The first lemmas say how   *)
(* they change when a frame comes or goes; then every step is shown to     *)
(* leave them alone, to add one at the end or to take one from the front,  *)
(* together with what it does to the counters.                             *)
(***************************************************************************)
EXTENDS Net_proofs

(* Pending(h) for any stack, and `w` for the queue of the handle. *)
PendingIn(st, w, h) ==
    LET from[i \in 0..Len(st)] ==
            IF i = 0 THEN w
            ELSE IF st[i].h = h THEN st[i].q \o from[i - 1] ELSE from[i - 1]
    IN  from[Len(st)]

(* What frame f adds to the writes w of h that were queued after its own. *)
Added(f, w, h) == IF f.h = h THEN f.q \o w ELSE w

(* s is the function `from` of Pending. *)
Collects(s, st, w, h) ==
    /\ s \in [0..Len(st) -> Seq(Reqs)]
    /\ s[0] = w
    /\ \A i \in 1..Len(st) : s[i] = Added(st[i], s[i - 1], h)

LEMMA AddedType ==
    ASSUME NEW f \in Frames, NEW w \in Seq(Reqs), NEW h
    PROVE  Added(f, w, h) \in Seq(Reqs)
BY DEF Added, Frames

(* There is such a function, and Pending is its last value. *)
LEMMA CollectsExists ==
    ASSUME NEW st \in Seq(Frames), NEW w \in Seq(Reqs), NEW h
    PROVE  \E s : Collects(s, st, w, h) /\ PendingIn(st, w, h) = s[Len(st)]
<1> DEFINE n == Len(st)
           V == Seq(Reqs)
           step == [i \in 1..n |-> [v \in V |-> Added(st[i], v, h)]]
<1>1. n \in Nat /\ \A i \in 1..n : st[i] \in Frames
  OBVIOUS
<1>2. step \in [1..n -> [V -> V]]
  BY <1>1, AddedType
<1>3. PICK s \in [0..n -> V] : Iterates(s, n, w, step)
  <2>1. w \in V
    OBVIOUS
  <2> HIDE DEF n, V, step
  <2> QED
    BY <1>1, <1>2, <2>1, Recursion
<1>4. \A i \in 1..n : i - 1 \in 0..n
  BY <1>1
<1>5. s[0] = w /\ \A i \in 1..n : s[i] = Added(st[i], s[i - 1], h)
  BY <1>3, <1>4 DEF Iterates
<1>6. Collects(s, st, w, h)
  BY <1>5 DEF Collects
<1> DEFINE Is(from) == from = [i \in 0..n |-> IF i = 0 THEN w
                                ELSE IF st[i].h = h THEN st[i].q \o from[i - 1] ELSE from[i - 1]]
           f == CHOOSE from : Is(from)
<1>7. Is(s)
  <2>1. \A i \in 0..n : s[i] = IF i = 0 THEN w
                               ELSE IF st[i].h = h THEN st[i].q \o s[i - 1] ELSE s[i - 1]
    <3>1. \A i \in 0..n : i = 0 \/ i \in 1..n
      BY <1>1
    <3> QED
      BY <1>5, <3>1 DEF Added
  <2> QED
    BY <1>3, <2>1
<1>8. Is(f)
  <2> HIDE DEF Is
  <2> QED
    BY <1>7
<1>9. PendingIn(st, w, h) = f[n]
  BY DEF PendingIn
<1>10. f[0] = w /\ \A i \in 1..n : f[i] = Added(st[i], f[i - 1], h)
  <2> HIDE DEF f
  <2>1. 0 \in 0..n /\ \A i \in 1..n : i \in 0..n /\ i # 0
    BY <1>1
  <2> QED
    BY <1>8, <2>1 DEF Added
<1>11. \A i \in 0..n : f[i] = s[i]
  <2> HIDE DEF f, n
  <2> DEFINE T == {i \in 0..n : f[i] = s[i]}
  <2>1. 0 \in T
    BY <1>1, <1>5, <1>10
  <2>2. \A i \in 1..n : i - 1 \in T => i \in T
    BY <1>1, <1>5, <1>10
  <2>3. \A i \in 0..n : i \in T
    <3> HIDE DEF T
    <3> QED
      BY <1>1, <2>1, <2>2, UpTo
  <2> QED
    BY <2>3
<1> HIDE DEF f
<1> QED
  BY <1>1, <1>6, <1>9, <1>11

(* There is only one. *)
LEMMA CollectsUnique ==
    ASSUME NEW st \in Seq(Frames), NEW w \in Seq(Reqs), NEW h,
           NEW s, Collects(s, st, w, h)
    PROVE  PendingIn(st, w, h) = s[Len(st)]
<1>1. PICK t : Collects(t, st, w, h) /\ PendingIn(st, w, h) = t[Len(st)]
  BY CollectsExists
<1> DEFINE n == Len(st)
           T == {i \in 0..n : s[i] = t[i]}
<1>2. n \in Nat
  OBVIOUS
<1>3. 0 \in T /\ \A i \in 1..n : i - 1 \in T => i \in T
  BY <1>1, <1>2 DEF Collects
<1>4. \A i \in 0..n : i \in T
  <2> HIDE DEF T, n
  <2> QED
    BY <1>2, <1>3, UpTo
<1> QED
  BY <1>1, <1>2, <1>4

LEMMA PendingType ==
    ASSUME NEW st \in Seq(Frames), NEW w \in Seq(Reqs), NEW h
    PROVE  PendingIn(st, w, h) \in Seq(Reqs)
<1>1. PICK s : Collects(s, st, w, h) /\ PendingIn(st, w, h) = s[Len(st)]
  BY CollectsExists
<1>2. Len(st) \in 0..Len(st)
  OBVIOUS
<1> QED
  BY <1>1, <1>2 DEF Collects

LEMMA PendingEmpty ==
    ASSUME NEW w \in Seq(Reqs), NEW h
    PROVE  PendingIn(<<>>, w, h) = w
<1>1. <<>> \in Seq(Frames) /\ Len(<<>>) = 0
  OBVIOUS
<1>2. PICK s : Collects(s, <<>>, w, h) /\ PendingIn(<<>>, w, h) = s[0]
  BY <1>1, CollectsExists
<1> QED
  BY <1>2 DEF Collects

(* The innermost frame holds the writes just before those of the queue. *)
LEMMA PendingPush ==
    ASSUME NEW t \in Seq(Frames), NEW f \in Frames, NEW w \in Seq(Reqs), NEW h
    PROVE  PendingIn(<<f>> \o t, w, h) = PendingIn(t, Added(f, w, h), h)
<1> DEFINE st == <<f>> \o t
           n == Len(t)
<1>1. /\ st \in Seq(Frames) /\ n \in Nat /\ Len(st) = n + 1 /\ st[1] = f
      /\ \A i \in 1..n : st[i + 1] = t[i]
  OBVIOUS
<1> HIDE DEF st
<1>2. PICK s : Collects(s, st, w, h) /\ PendingIn(st, w, h) = s[n + 1]
  BY <1>1, CollectsExists
<1> DEFINE u == [i \in 0..n |-> s[i + 1]]
<1>3. \A i \in 0..n : i + 1 \in 1..(n + 1) /\ i + 1 \in 0..(n + 1) /\ (i + 1) - 1 = i
  BY <1>1
<1>4. u \in [0..n -> Seq(Reqs)]
  BY <1>1, <1>2, <1>3 DEF Collects
<1>5. u[0] = Added(f, w, h)
  BY <1>1, <1>2, <1>3 DEF Collects
<1>6. \A i \in 1..n : u[i] = Added(t[i], u[i - 1], h)
  <2> SUFFICES ASSUME NEW i \in 1..n PROVE u[i] = Added(t[i], u[i - 1], h)
    OBVIOUS
  <2>1. u[i] = s[i + 1] /\ u[i - 1] = s[i]
    BY <1>1
  <2>2. s[i + 1] = Added(st[i + 1], s[i], h)
    <3>1. \A j \in 1..(n + 1) : s[j] = Added(st[j], s[j - 1], h)
      BY <1>1, <1>2 DEF Collects
    <3> QED
      BY <3>1, <1>3
  <2> QED
    BY <2>1, <2>2, <1>1
<1>7. Collects(u, t, Added(f, w, h), h)
  BY <1>4, <1>5, <1>6 DEF Collects
<1>8. PendingIn(t, Added(f, w, h), h) = u[n]
  <2> HIDE DEF u
  <2> QED
    BY <1>7, AddedType, CollectsUnique
<1>9. u[n] = s[n + 1]
  BY <1>1
<1> QED
  BY <1>2, <1>8, <1>9 DEF st

(* The writes of the queue come last. *)
LEMMA PendingQueueLast ==
    ASSUME NEW st \in Seq(Frames), NEW w \in Seq(Reqs), NEW h
    PROVE  PendingIn(st, w, h) = PendingIn(st, <<>>, h) \o w
<1> DEFINE n == Len(st)
<1>1. <<>> \in Seq(Reqs) /\ n \in Nat /\ \A i \in 1..n : st[i] \in Frames
  OBVIOUS
<1>2. PICK s : Collects(s, st, <<>>, h) /\ PendingIn(st, <<>>, h) = s[n]
  BY <1>1, CollectsExists
<1> DEFINE u == [i \in 0..n |-> s[i] \o w]
<1>3. u \in [0..n -> Seq(Reqs)] /\ u[0] = w
  <2>1. s[0] = <<>> /\ \A i \in 0..n : s[i] \in Seq(Reqs)
    BY <1>2 DEF Collects
  <2>2. \A v \in Seq(Reqs) : v \o w \in Seq(Reqs)
    OBVIOUS
  <2>3. <<>> \o w = w
    OBVIOUS
  <2> QED
    BY <1>1, <2>1, <2>2, <2>3
<1>4. ASSUME NEW i \in 1..n PROVE u[i] = Added(st[i], u[i - 1], h)
  <2>1. i \in 0..n /\ i - 1 \in 0..n /\ s[i - 1] \in Seq(Reqs) /\ st[i].q \in Seq(Reqs)
    <3>1. i \in 0..n /\ i - 1 \in 0..n
      BY <1>1
    <3>2. st[i] \in Frames
      BY <1>1
    <3> QED
      BY <1>2, <3>1, <3>2 DEF Collects, Frames
  <2>2. s[i] = Added(st[i], s[i - 1], h)
    BY <1>2 DEF Collects
  <2>3. (st[i].q \o s[i - 1]) \o w = st[i].q \o (s[i - 1] \o w)
    <3> DEFINE a == st[i].q
               b == s[i - 1]
    <3>1. a \in Seq(Reqs) /\ b \in Seq(Reqs)
      BY <2>1
    <3> HIDE DEF a, b
    <3>2. (a \o b) \o w = a \o (b \o w)
      BY <3>1, ConcatAssociative
    <3> QED
      BY <3>2 DEF a, b
  <2> QED
    BY <2>1, <2>2, <2>3 DEF Added
<1>5. Collects(u, st, w, h)
  BY <1>3, <1>4 DEF Collects
<1>6. PendingIn(st, w, h) = u[n]
  <2> HIDE DEF u
  <2> QED
    BY <1>5, CollectsUnique
<1>7. u[n] = s[n] \o w
  BY <1>1
<1> QED
  BY <1>2, <1>6, <1>7

(* Frames that hold no writes of the handle add nothing. *)
LEMMA PendingNothing ==
    ASSUME NEW st \in Seq(Frames), NEW w \in Seq(Reqs), NEW h,
           \A i \in 1..Len(st) : st[i].h = h => st[i].q = <<>>
    PROVE  PendingIn(st, w, h) = w
<1> DEFINE n == Len(st)
           u == [i \in 0..n |-> w]
<1>1. n \in Nat /\ u \in [0..n -> Seq(Reqs)] /\ u[0] = w /\ <<>> \o w = w
  OBVIOUS
<1>2. ASSUME NEW i \in 1..n PROVE u[i] = Added(st[i], u[i - 1], h)
  <2>1. u[i] = w /\ u[i - 1] = w
    BY <1>1
  <2> QED
    BY <1>1, <2>1 DEF Added
<1>3. Collects(u, st, w, h)
  BY <1>1, <1>2 DEF Collects
<1>4. PendingIn(st, w, h) = u[n]
  <2> HIDE DEF u
  <2> QED
    BY <1>3, CollectsUnique
<1> QED
  BY <1>1, <1>4

(* Pending, before and after a step. *)
LEMMA PendingDef ==
    ASSUME NEW h \in Handles
    PROVE  /\ Pending(h) = PendingIn(stack, write_queue[h], h)
           /\ Pending(h)' = PendingIn(stack', write_queue'[h], h)
BY DEF Pending, PendingIn

-----------------------------------------------------------------------------
(* What a step does to the writes and to the requests that are counted. *)

(* Only frames that answer writes hold some. *)
Holders == {"written", "on_write", "flush", "on_flush"}
HeldWhere == \A i \in 1..Len(stack) : stack[i].q # <<>> => stack[i].pc \in Holders

(* A handle that is being closed queues nothing and does not connect. *)
Flushed == \A h \in Handles :
    BeingClosed(h) => ~handle[h].connecting /\ write_queue[h] = <<>>

WControl == HeldWhere /\ Flushed

Same == \A h \in Handles : Pending(h)' = Pending(h)
SameBut(h) == \A g \in Handles \ {h} : Pending(g)' = Pending(g)

Adds(h, r) == /\ r \notin InFlight
              /\ Pending(h)' = Append(Pending(h), r) /\ SameBut(h)
Answers(h) == /\ Pending(h) # <<>>
              /\ Pending(h)' = Tail(Pending(h)) /\ SameBut(h)

(* The kinds of steps: nothing; a write is made or answered; a handle       *)
(* begins to connect, or the connect is decided.                            *)
Nothing == Same /\ Connecting' = Connecting /\ active_requests' = active_requests
Made == /\ \E h \in Handles : \E r \in Reqs : Adds(h, r)
        /\ Connecting' = Connecting /\ active_requests' = active_requests + 1
Answered == /\ \E h \in Handles : Answers(h)
            /\ Connecting' = Connecting /\ active_requests' = active_requests - 1
Begun == /\ Same /\ active_requests' = active_requests + 1
         /\ \E h \in Handles \ Connecting : Connecting' = Connecting \cup {h}
Decided == /\ Same /\ active_requests' = active_requests - 1
           /\ \E h \in Connecting : Connecting' = Connecting \ {h}

WriteStep == Nothing \/ Made \/ Answered \/ Begun \/ Decided

(* The stack as its innermost frame and the others. *)
LEMMA StackParts ==
    ASSUME stack \in Seq(Frames), stack # <<>>
    PROVE  /\ Top \in Frames /\ Top.h \in Handles /\ Top.q \in Seq(Reqs)
           /\ Tail(stack) \in Seq(Frames)
           /\ stack = <<Top>> \o Tail(stack)
           /\ Len(Tail(stack)) = Len(stack) - 1 /\ Len(stack) \in Nat \ {0}
           /\ \A i \in 1..(Len(stack) - 1) : Tail(stack)[i] = stack[i + 1]
<1>1. Top \in Frames
  BY FrameFacts
<1>2. Top.h \in Handles /\ Top.q \in Seq(Reqs)
  BY <1>1 DEF Frames
<1>3. Tail(stack) \in Seq(Frames) /\ stack = <<Top>> \o Tail(stack)
  BY DEF Top
<1>4. /\ Len(Tail(stack)) = Len(stack) - 1 /\ Len(stack) \in Nat \ {0}
      /\ \A i \in 1..(Len(stack) - 1) : Tail(stack)[i] = stack[i + 1]
  BY HeadTailProperties
<1> QED
  BY <1>1, <1>2, <1>3, <1>4

(* The pending writes as those of the outer frames after what the innermost *)
(* frame adds to the queue.                                                 *)
LEMMA PendingTop ==
    ASSUME NetShape, stack # <<>>, NEW h \in Handles
    PROVE  Pending(h) = PendingIn(Tail(stack), Added(Top, write_queue[h], h), h)
<1>1. stack \in Seq(Frames) /\ write_queue[h] \in Seq(Reqs)
  BY DEF NetShape
<1> DEFINE t == Tail(stack)
           f == Top
<1>2. f \in Frames /\ t \in Seq(Frames) /\ stack = <<f>> \o t
  BY <1>1, StackParts
<1> HIDE DEF f, t
<1>3. PendingIn(<<f>> \o t, write_queue[h], h) = PendingIn(t, Added(f, write_queue[h], h), h)
  BY <1>1, <1>2, PendingPush
<1>4. Pending(h) = PendingIn(<<f>> \o t, write_queue[h], h)
  BY <1>2, PendingDef
<1> QED
  BY <1>3, <1>4 DEF f, t

(* The same after a step that replaced the innermost frame. *)
LEMMA PendingReplaced ==
    ASSUME NetShape, stack # <<>>, NEW f \in Frames, Replace(f), NEW h \in Handles,
           write_queue'[h] \in Seq(Reqs)
    PROVE  Pending(h)' = PendingIn(Tail(stack), Added(f, write_queue'[h], h), h)
<1>1. Tail(stack) \in Seq(Frames)
  BY StackParts DEF NetShape
<1>2. stack' = <<f>> \o Tail(stack)
  BY DEF Replace
<1>3. Pending(h)' = PendingIn(<<f>> \o Tail(stack), write_queue'[h], h)
  BY <1>2, PendingDef
<1>4. PendingIn(<<f>> \o Tail(stack), write_queue'[h], h)
         = PendingIn(Tail(stack), Added(f, write_queue'[h], h), h)
  <2> DEFINE t == Tail(stack)
  <2>1. t \in Seq(Frames)
    BY <1>1
  <2> HIDE DEF t
  <2>2. PendingIn(<<f>> \o t, write_queue'[h], h)
         = PendingIn(t, Added(f, write_queue'[h], h), h)
    BY <2>1, PendingPush
  <2> QED
    BY <2>2 DEF t
<1> QED
  BY <1>3, <1>4

(* A new innermost frame. *)
LEMMA PendingPushed ==
    ASSUME NetShape, NEW f \in Frames, stack' = <<f>> \o stack, NEW h \in Handles,
           write_queue'[h] \in Seq(Reqs)
    PROVE  Pending(h)' = PendingIn(stack, Added(f, write_queue'[h], h), h)
<1>1. stack \in Seq(Frames)
  BY DEF NetShape
<1>2. Pending(h)' = PendingIn(<<f>> \o stack, write_queue'[h], h)
  BY PendingDef
<1>3. PendingIn(<<f>> \o stack, write_queue'[h], h)
         = PendingIn(stack, Added(f, write_queue'[h], h), h)
  BY <1>1, PendingPush
<1> QED
  BY <1>2, <1>3

(* A handle is being closed while a frame of apc_close of it is suspended.  *)
LEMMA BeingClosedIs ==
    ASSUME stack \in Seq(Frames), NEW h
    PROVE  BeingClosed(h) <=> \E i \in 1..Len(stack) : stack[i].h = h /\ stack[i].pc \in Flushing
BY DEF BeingClosed, InFrame, Flushing

LEMMA BeingClosedWas ==
    ASSUME stack' \in Seq(Frames), NEW h
    PROVE  BeingClosed(h)' <=>
              \E i \in 1..Len(stack') : stack'[i].h = h /\ stack'[i].pc \in Flushing
BY DEF BeingClosed, InFrame, Flushing

-----------------------------------------------------------------------------
(* Steps that leave the writes where they are: the innermost frame waits    *)
(* for a callback or goes on, ends without writes to answer, or is new.     *)
Swapped(f) ==
    /\ stack # <<>> /\ f \in Frames /\ Replace(f)
    /\ f.h = Top.h /\ f.q = Top.q
    /\ f.pc \in Flushing <=> Top.pc \in Flushing
    /\ f.q # <<>> => f.pc \in Holders
Popped == stack # <<>> /\ Top.q = <<>> /\ Return
Pushed(f) == /\ stack = <<>> /\ f \in Frames /\ stack' = <<f>>
             /\ f.q = <<>> /\ f.pc \notin Flushing

Calm == stack' = stack \/ Popped \/ \E f \in Frames : Swapped(f) \/ Pushed(f)

LEMMA CalmSame ==
    ASSUME NetShape, Calm, UNCHANGED write_queue
    PROVE  Same
<1> SUFFICES ASSUME NEW h \in Handles PROVE Pending(h)' = Pending(h)
  BY DEF Same
<1>1. stack \in Seq(Frames) /\ write_queue[h] \in Seq(Reqs) /\ write_queue'[h] = write_queue[h]
  BY DEF NetShape
<1>2. CASE stack' = stack
  BY <1>1, <1>2, PendingDef
<1>3. CASE Popped
  <2>1. Added(Top, write_queue[h], h) = write_queue[h]
    <3>1. <<>> \o write_queue[h] = write_queue[h]
      BY <1>1
    <3> QED
      BY <1>3, <3>1 DEF Added, Popped
  <2>2. Pending(h) = PendingIn(Tail(stack), write_queue[h], h)
    BY <1>3, <2>1, PendingTop DEF Popped
  <2>3. Pending(h)' = PendingIn(Tail(stack), write_queue[h], h)
    BY <1>1, <1>3, PendingDef DEF Popped, Return
  <2> QED
    BY <2>2, <2>3
<1>4. ASSUME NEW f \in Frames, Swapped(f) PROVE Pending(h)' = Pending(h)
  <2>1. Added(f, write_queue'[h], h) = Added(Top, write_queue[h], h)
    BY <1>1, <1>4 DEF Added, Swapped
  <2> QED
    BY <1>1, <1>4, <2>1, PendingTop, PendingReplaced DEF Swapped
<1>5. ASSUME NEW f \in Frames, Pushed(f) PROVE Pending(h)' = Pending(h)
  <2>1. stack' = <<f>> \o stack
    BY <1>5 DEF Pushed
  <2>2. Added(f, write_queue'[h], h) = write_queue[h]
    <3>1. <<>> \o write_queue[h] = write_queue[h]
      BY <1>1
    <3> QED
      BY <1>1, <1>5, <3>1 DEF Added, Pushed
  <2> QED
    BY <1>1, <2>1, <2>2, PendingDef, PendingPushed
<1> QED
  BY <1>2, <1>3, <1>4, <1>5 DEF Calm

(* Where the frames come from that a calm step leaves. *)
LEMMA CalmFrames ==
    ASSUME NetShape, Calm
    PROVE  /\ stack' \in Seq(Frames)
           /\ \A i \in 1..Len(stack') :
                 \/ stack'[i].q = <<>> /\ stack'[i].pc \notin Flushing
                 \/ \E j \in 1..Len(stack) :
                       /\ stack'[i].h = stack[j].h /\ stack'[i].q = stack[j].q
                       /\ stack'[i].pc \in Flushing <=> stack[j].pc \in Flushing
                       /\ \/ stack'[i].pc = stack[j].pc
                          \/ stack'[i].q # <<>> => stack'[i].pc \in Holders
<1>0. stack \in Seq(Frames)
  BY DEF NetShape
<1>1. CASE stack' = stack
  BY <1>0, <1>1
<1>2. CASE Popped
  <2>1. stack' = Tail(stack) /\ stack # <<>>
    BY <1>2 DEF Popped, Return
  <2>2. stack' \in Seq(Frames) /\ Len(stack') = Len(stack) - 1 /\ Len(stack) \in Nat
    BY <1>0, <2>1, StackParts
  <2>3. \A i \in 1..Len(stack') : i + 1 \in 1..Len(stack) /\ stack'[i] = stack[i + 1]
    BY <1>0, <2>1, <2>2, StackParts
  <2> QED
    BY <2>2, <2>3
<1>3. ASSUME NEW f \in Frames, Swapped(f)
      PROVE  /\ stack' \in Seq(Frames) /\ Len(stack') = Len(stack) /\ Len(stack) \in Nat \ {0}
             /\ stack'[1] = f /\ stack[1] = Top
             /\ \A i \in 2..Len(stack) : stack'[i] = stack[i]
  BY <1>0, <1>3, ReplaceFacts, FrameFacts DEF Swapped
<1>4. ASSUME NEW f \in Frames, Swapped(f), NEW i \in 1..Len(stack')
      PROVE  \E j \in 1..Len(stack) :
                /\ stack'[i].h = stack[j].h /\ stack'[i].q = stack[j].q
                /\ stack'[i].pc \in Flushing <=> stack[j].pc \in Flushing
                /\ \/ stack'[i].pc = stack[j].pc
                   \/ stack'[i].q # <<>> => stack'[i].pc \in Holders
  <2>1. i \in 1..Len(stack)
    BY <1>3, <1>4
  <2>2. CASE i = 1
    <3>1. 1 \in 1..Len(stack)
      BY <1>3, <1>4
    <3> QED
      BY <1>3, <1>4, <2>2, <3>1 DEF Swapped
  <2>3. CASE i # 1
    <3>1. stack'[i] = stack[i]
      BY <1>3, <1>4, <2>1, <2>3
    <3> QED
      BY <2>1, <3>1
  <2> QED
    BY <2>2, <2>3
<1>5. ASSUME NEW f \in Frames, Pushed(f)
      PROVE  /\ stack' \in Seq(Frames) /\ Len(stack') = 1 /\ stack'[1] = f
  BY <1>5 DEF Pushed
<1>6. ASSUME NEW f \in Frames, Pushed(f), NEW i \in 1..Len(stack')
      PROVE  stack'[i].q = <<>> /\ stack'[i].pc \notin Flushing
  BY <1>5, <1>6 DEF Pushed
<1> QED
  BY <1>1, <1>2, <1>3, <1>4, <1>5, <1>6 DEF Calm

(* A calm step keeps the control of the writes, unless it starts to connect *)
(* or to write on a handle that is being closed.                            *)
LEMMA CalmControl ==
    ASSUME NetShape, WControl, Calm,
           \A h \in Handles : BeingClosed(h) =>
              /\ handle'[h].connecting = handle[h].connecting
              /\ write_queue'[h] = write_queue[h]
    PROVE  WControl'
<1>0. stack \in Seq(Frames)
  BY DEF NetShape
<1>1. HeldWhere'
  BY CalmFrames DEF HeldWhere, WControl, Holders, Flushing
<1>2. \A h \in Handles : BeingClosed(h)' => BeingClosed(h)
  BY <1>0, CalmFrames, BeingClosedIs, BeingClosedWas
<1> QED
  BY <1>1, <1>2 DEF WControl, Flushed

LEMMA CalmStep ==
    ASSUME NetShape, WControl, Calm, UNCHANGED <<write_queue, active_requests>>,
           \A h \in Handles : handle'[h].connecting = handle[h].connecting
    PROVE  WriteStep /\ WControl'
<1>1. Same /\ WControl'
  BY CalmSame, CalmControl
<1>2. Connecting' = Connecting
  BY DEF Connecting
<1> QED
  BY <1>1, <1>2 DEF WriteStep, Nothing

(* The function of the innermost frame holds no writes, except when it      *)
(* answers some; so it may end, and a callback of it may be called.         *)
LEMMA TopHolds ==
    ASSUME NetShape, WControl, stack # <<>>, Top.pc \notin Holders
    PROVE  Top.q = <<>>
BY FrameFacts DEF NetShape, WControl, HeldWhere

LEMMA ReturnCalm ==
    ASSUME NetShape, WControl, stack # <<>>, Return, Top.pc \notin Holders \/ Top.q = <<>>
    PROVE  Calm
BY TopHolds DEF Calm, Popped

(* The innermost frame goes to `pc` with events `ev`. *)
LEMMA ReplaceCalm ==
    ASSUME NetShape, WControl, stack # <<>>,
           NEW f \in Frames, Replace(f), f.h = Top.h, f.q = Top.q,
           \/ Top.pc \notin Holders /\ f.pc \notin Flushing
           \/ Top.pc = "on_write" /\ f.pc = "written"
           \/ Top.pc = "on_flush" /\ f.pc = "flush"
    PROVE  Calm
<1>1. Swapped(f)
  BY TopHolds DEF Swapped, Holders, Flushing
<1> QED
  BY <1>1 DEF Calm

LEMMA GotoCalm ==
    ASSUME NetShape, WControl, stack # <<>>,
           NEW pc \in CallbackPcs \cup {"io", "server", "connect", "flush", "written"},
           Goto(pc),
           \/ Top.pc \notin Holders /\ pc \notin Flushing
           \/ Top.pc = "on_write" /\ pc = "written"
           \/ Top.pc = "on_flush" /\ pc = "flush"
    PROVE  Calm
<1> DEFINE f == [Top EXCEPT !.pc = pc]
<1>1. Top \in Frames
  BY FrameFacts DEF NetShape
<1>2. f \in Frames /\ f.h = Top.h /\ f.q = Top.q /\ f.pc = pc
  BY <1>1 DEF Frames
<1>3. Replace(f)
  BY DEF Goto
<1> HIDE DEF f
<1> QED
  BY <1>2, <1>3, ReplaceCalm

-----------------------------------------------------------------------------
(* Calls of the user. *)

(* A handle without a descriptor does not connect and has no queue. *)
LEMMA NoSocketFacts ==
    ASSUME IInv, NEW h \in Handles, FdOf(h) = NoFd \/ handle[h].state # "open"
    PROVE  handle[h].connecting = FALSE /\ write_queue[h] = <<>>
BY DEF IInv, Sockets, NetShape, HandleShape

(* apc_net_init, apc_bind, apc_listen, apc_start_read, apc_stop_read,       *)
(* apc_reject and apc_accept have nothing to do with writes.                *)
LEMMA OtherCallStep ==
    ASSUME IInv, WControl, NEW h \in Handles, UNCHANGED stack,
           \/ apc_net_init(h) \/ apc_bind(h) \/ apc_listen(h)
           \/ apc_start_read(h) \/ apc_stop_read(h) \/ apc_reject(h)
           \/ \E c \in Handles : apc_accept(h, c)
    PROVE  WriteStep /\ WControl'
<1>0. NetShape /\ HandleShape /\ Calm
  BY DEF IInv, NetShape, Calm
<1>1. UNCHANGED <<write_queue, active_requests>>
  BY DEF apc_net_init, apc_bind, apc_listen, apc_start_read, apc_stop_read, apc_reject,
         apc_accept
<1>2. ASSUME NEW x, "connecting" \in DOMAIN x, x.connecting = handle[h].connecting,
             handle' = [handle EXCEPT ![h] = x]
      PROVE  \A g \in Handles : handle'[g].connecting = handle[g].connecting
  BY <1>0, <1>2 DEF HandleShape
<1>3. DOMAIN handle[h] = Fields /\ NoHandleYet.connecting = FALSE
  BY <1>0 DEF HandleShape, NoHandleYet
<1>4. CASE apc_net_init(h)
  <2>1. handle[h].connecting = FALSE
    BY <1>4, NoSocketFacts DEF apc_net_init
  <2>2. PICK use \in Uses[h] :
           handle' = [handle EXCEPT ![h] = [NoHandleYet EXCEPT !.state = "open", !.use = use]]
    BY <1>4 DEF apc_net_init
  <2>3. \A g \in Handles : handle'[g].connecting = handle[g].connecting
    BY <1>0, <2>1, <2>2 DEF HandleShape, NoHandleYet
  <2> QED
    BY <1>0, <1>1, <2>3, CalmStep
<1>5. CASE apc_bind(h) \/ apc_reject(h)
  <2>1. \A g \in Handles : handle'[g].connecting = handle[g].connecting
    <3>1. CASE apc_bind(h)
      BY <1>0, <1>3, <3>1 DEF HandleShape, apc_bind, Fields
    <3>2. CASE apc_reject(h)
      BY <1>0, <1>3, <3>2 DEF HandleShape, apc_reject, Fields
    <3> QED
      BY <1>5, <3>1, <3>2
  <2> QED
    BY <1>0, <1>1, <2>1, CalmStep
<1>6. CASE apc_listen(h) \/ apc_start_read(h)
  <2>1. \A g \in Handles : handle'[g].connecting = handle[g].connecting
    <3>1. CASE apc_listen(h)
      BY <1>0, <1>3, <3>1 DEF HandleShape, apc_listen, With, Fields
    <3>2. CASE apc_start_read(h)
      BY <1>0, <1>3, <3>2 DEF HandleShape, apc_start_read, With, Fields
    <3> QED
      BY <1>6, <3>1, <3>2
  <2> QED
    BY <1>0, <1>1, <2>1, CalmStep
<1>7. CASE apc_stop_read(h)
  <2>1. \A g \in Handles : handle'[g].connecting = handle[g].connecting
    BY <1>0, <1>3, <1>7 DEF HandleShape, apc_stop_read, StoppedReading, Fields
  <2> QED
    BY <1>0, <1>1, <2>1, CalmStep
<1>8. ASSUME NEW c \in Handles, apc_accept(h, c) PROVE WriteStep /\ WControl'
  <2>1. handle[c].connecting = FALSE
    BY <1>8, NoSocketFacts DEF apc_accept
  <2>2. \A g \in Handles : handle'[g].connecting = handle[g].connecting
    <3> DEFINE x == [NoHandleYet EXCEPT !.state = "open", !.use = "stream", !.role = "stream"]
    <3>1. x.connecting = FALSE
      BY DEF NoHandleYet
    <3>2. h # c
      BY <1>8 DEF apc_accept, MayCall
    <3> HIDE DEF x
    <3>3. handle' = [handle EXCEPT ![c] = x, ![h].accepted = NoFd]
      BY <1>8 DEF apc_accept, x
    <3> QED
      BY <1>0, <1>3, <2>1, <3>1, <3>2, <3>3 DEF HandleShape, Fields
  <2> QED
    BY <1>0, <1>1, <2>2, CalmStep
<1> QED
  BY <1>4, <1>5, <1>6, <1>7, <1>8

(* apc_tcp_connect. *)
LEMMA ConnectStep ==
    ASSUME IInv, Supported, WControl, NEW h \in Handles, UNCHANGED stack, apc_tcp_connect(h)
    PROVE  WriteStep /\ WControl'
<1>0. NetShape /\ HandleShape /\ Calm
  BY DEF IInv, NetShape, Calm
<1>1. ~BeingClosed(h) /\ handle[h].connecting = FALSE
  BY MayCallFacts, NoSocketFacts DEF apc_tcp_connect
<1>2. /\ handle'[h].connecting = TRUE
      /\ \A g \in Handles \ {h} : handle'[g].connecting = handle[g].connecting
      /\ UNCHANGED write_queue /\ active_requests' = active_requests + 1
  BY <1>0 DEF HandleShape, apc_tcp_connect, With, Fields
<1>3. Same /\ WControl'
  BY <1>0, <1>1, <1>2, CalmSame, CalmControl
<1>4. h \in Handles \ Connecting /\ Connecting' = Connecting \cup {h}
  BY <1>1, <1>2 DEF Connecting
<1> QED
  BY <1>2, <1>3, <1>4 DEF WriteStep, Begun

(* apc_write: the write is the last one. *)
LEMMA WriteCallStep ==
    ASSUME IInv, Supported, WControl, NEW h \in Handles, NEW r \in Reqs,
           UNCHANGED stack, apc_write(h, r)
    PROVE  WriteStep /\ WControl'
<1>0. NetShape /\ HandleShape /\ Calm /\ stack \in Seq(Frames)
  BY DEF IInv, NetShape, Calm
<1>1. ~BeingClosed(h) /\ handle[h].connecting = FALSE /\ r \notin InFlight
  BY <1>0, MayCallFacts DEF apc_write, Supported, HandleShape
<1>2. /\ write_queue' = [write_queue EXCEPT ![h] = Append(@, r)]
      /\ active_requests' = active_requests + 1
      /\ \A g \in Handles : handle'[g].connecting = handle[g].connecting
  <2>1. PICK n \in Sizes :
           handle' = [handle EXCEPT ![h] = [With(h, {"ACTIVE", "WRITABLE"}) EXCEPT !.size = @ + n]]
    BY <1>1 DEF apc_write
  <2> QED
    BY <1>0, <1>1, <2>1 DEF apc_write, HandleShape, With, Fields
<1>3. write_queue \in [Handles -> Seq(Reqs)]
  BY <1>0 DEF NetShape
<1>4. /\ write_queue'[h] = Append(write_queue[h], r)
      /\ \A g \in Handles \ {h} : write_queue'[g] = write_queue[g]
  BY <1>2, <1>3
<1>5. SameBut(h)
  BY <1>4, PendingDef DEF SameBut
<1>6. Pending(h)' = Append(Pending(h), r)
  <2> DEFINE p == PendingIn(stack, <<>>, h)
             w == write_queue[h]
  <2>1. w \in Seq(Reqs) /\ Append(w, r) \in Seq(Reqs) /\ <<>> \in Seq(Reqs)
    BY <1>3
  <2>2. p \in Seq(Reqs)
    BY <1>0, <2>1, PendingType
  <2>3. Pending(h) = p \o w
    BY <1>0, <2>1, PendingDef, PendingQueueLast
  <2>4. Pending(h)' = p \o Append(w, r)
    <3>1. Pending(h)' = PendingIn(stack, Append(w, r), h)
      BY <1>4, PendingDef
    <3> HIDE DEF w
    <3> QED
      BY <1>0, <2>1, <3>1, PendingQueueLast
  <2> HIDE DEF p, w
  <2>5. p \o Append(w, r) = Append(p \o w, r)
    BY <2>1, <2>2
  <2> QED
    BY <2>3, <2>4, <2>5
<1>7. WControl'
  BY <1>0, <1>1, <1>2, <1>4, CalmControl
<1>8. Connecting' = Connecting
  BY <1>2 DEF Connecting
<1> QED
  BY <1>1, <1>2, <1>5, <1>6, <1>7, <1>8 DEF WriteStep, Made, Adds

-----------------------------------------------------------------------------
(* apc_close.  The queue goes to the frame that answers it. *)
LEMMA CloseStartStep ==
    ASSUME IInv, Supported, WControl, NEW h \in Handles, CloseStart(h)
    PROVE  WriteStep /\ WControl'
<1> DEFINE w == write_queue[h]
           f == Frame("flush", h, {}, w)
<1>0. NetShape /\ HandleShape /\ stack \in Seq(Frames) /\ write_queue \in [Handles -> Seq(Reqs)]
  BY DEF IInv, NetShape
<1>1. /\ ~BeingClosed(h) /\ handle[h].connecting = FALSE
  BY <1>0, MayCallFacts DEF CloseStart, MayClose, Supported, HandleShape
<1>2. f \in Frames /\ f.h = h /\ f.q = w /\ f.pc = "flush"
  BY <1>0 DEF Frame, Frames
<1>3. stack' = <<f>> \o stack /\ active_requests' = active_requests
  BY DEF CloseStart
<1>4. /\ write_queue'[h] = <<>>
      /\ \A g \in Handles \ {h} : write_queue'[g] = write_queue[g]
  BY <1>0 DEF CloseStart
<1>5. \A g \in Handles : handle'[g].connecting = handle[g].connecting
  BY <1>0, <1>1 DEF CloseStart, StoppedReading, HandleShape, Fields
<1> HIDE DEF f
<1>6. Same
  <2> SUFFICES ASSUME NEW g \in Handles PROVE Pending(g)' = Pending(g)
    BY DEF Same
  <2>1. write_queue'[g] \in Seq(Reqs)
    <3>1. <<>> \in Seq(Reqs) /\ write_queue[g] \in Seq(Reqs)
      BY <1>0
    <3> HIDE DEF w
    <3> QED
      BY <1>4, <3>1
  <2>2. Added(f, write_queue'[g], g) = write_queue[g]
    <3>1. w \o <<>> = w
      BY <1>0
    <3> QED
      BY <1>2, <1>4, <3>1 DEF Added
  <2> QED
    BY <1>0, <1>2, <1>3, <2>1, <2>2, PendingPushed, PendingDef
<1>7. /\ stack' \in Seq(Frames) /\ Len(stack') = Len(stack) + 1 /\ Len(stack) \in Nat
      /\ stack'[1] = f /\ \A i \in 2..Len(stack') : stack'[i] = stack[i - 1]
  BY <1>0, <1>2, <1>3
<1>8. HeldWhere'
  <2> SUFFICES ASSUME NEW i \in 1..Len(stack'), stack'[i].q # <<>>
               PROVE  stack'[i].pc \in Holders
    BY DEF HeldWhere
  <2>1. CASE i = 1
    BY <1>2, <1>7, <2>1 DEF Holders
  <2>2. CASE i # 1
    <3>1. i - 1 \in 1..Len(stack) /\ stack'[i] = stack[i - 1]
      BY <1>7, <2>2
    <3> QED
      BY <3>1 DEF WControl, HeldWhere
  <2> QED
    BY <2>1, <2>2
<1>9. \A g \in Handles : BeingClosed(g)' => BeingClosed(g) \/ g = h
  <2> SUFFICES ASSUME NEW g \in Handles, BeingClosed(g)', g # h PROVE BeingClosed(g)
    OBVIOUS
  <2>1. PICK i \in 1..Len(stack') : stack'[i].h = g /\ stack'[i].pc \in Flushing
    BY <1>7, BeingClosedWas
  <2>2. i # 1
    BY <1>2, <1>7, <2>1
  <2>3. i - 1 \in 1..Len(stack) /\ stack'[i] = stack[i - 1]
    BY <1>7, <2>2
  <2> QED
    BY <1>0, <2>1, <2>3, BeingClosedIs
<1>10. Flushed'
  BY <1>1, <1>4, <1>5, <1>9 DEF Flushed, WControl
<1>11. Connecting' = Connecting
  BY <1>5 DEF Connecting
<1> QED
  BY <1>3, <1>6, <1>8, <1>10, <1>11 DEF WriteStep, Nothing, WControl

LEMMA CloseEndStep ==
    ASSUME IInv, WControl, CloseEnd
    PROVE  WriteStep /\ WControl'
<1> DEFINE h == Top.h
<1>0. NetShape /\ HandleShape /\ stack \in Seq(Frames) /\ write_queue \in [Handles -> Seq(Reqs)]
  BY DEF IInv, NetShape
<1>1. stack # <<>> /\ Top.pc = "flush" /\ Top.q = <<>> /\ Return
  BY DEF CloseEnd, At
<1>2. h \in Handles /\ 1 \in 1..Len(stack) /\ stack[1] = Top
  BY <1>0, <1>1, StackParts, FrameFacts
<1>3. BeingClosed(h)
  BY <1>0, <1>1, <1>2, BeingClosedIs DEF Flushing
<1>4. write_queue[h] = <<>> /\ handle[h].connecting = FALSE
  BY <1>0, <1>2, <1>3 DEF WControl, Flushed, HandleShape
<1>5. UNCHANGED <<write_queue, active_requests>>
  BY <1>0, <1>4 DEF CloseEnd
<1>6. \A g \in Handles : handle'[g].connecting = handle[g].connecting
  BY <1>0, <1>4 DEF CloseEnd, HandleShape, NoHandleYet
<1> QED
  BY <1>0, <1>1, <1>5, <1>6, ReturnCalm, CalmStep

(* core_write_callbacks.  The frames below hold no writes of the handle, so *)
(* that the first write of the innermost one is the first of all.           *)
LEMMA AnswerStep ==
    ASSUME IInv, WControl, NEW pc, NEW callback, Answer(pc, callback),
           \/ pc = "flush" /\ callback = "on_flush"
           \/ pc = "written" /\ callback = "on_write"
    PROVE  /\ WriteStep /\ WControl'
           /\ \E h \in Handles : /\ h = Top.h /\ Answers(h)
                                 /\ Pending(h) = Top.q \o write_queue[h]
<1>h. PICK h : h = Top.h
  OBVIOUS
<1> DEFINE q == Top.q
           t == Tail(stack)
           f == Frame(callback, h, Top.ev, Tail(q))
           w == write_queue[h]
<1>0. /\ NetShape /\ HandleShape /\ stack \in Seq(Frames)
      /\ write_queue \in [Handles -> Seq(Reqs)] /\ Suspended
  BY DEF IInv, NetShape
<1>1. /\ stack # <<>> /\ Top.pc = pc /\ q # <<>> /\ Replace(f)
      /\ UNCHANGED <<handle, write_queue>> /\ active_requests' = active_requests - 1
  BY <1>h DEF Answer, At
<1>2. h \in Handles /\ q \in Seq(Reqs) /\ Top \in Frames /\ t \in Seq(Frames)
  BY <1>0, <1>1, <1>h, StackParts
<1>3. Tail(q) \in Seq(Reqs) /\ w \in Seq(Reqs) /\ q = <<Head(q)>> \o Tail(q)
  BY <1>0, <1>1, <1>2
<1>4. f \in Frames /\ f.h = h /\ f.q = Tail(q) /\ f.pc = callback
  BY <1>2, <1>3 DEF Frame, Frames, CallbackPcs
<1>5. \A i \in 1..Len(t) : t[i].h = h => t[i].q = <<>>
  <2> SUFFICES ASSUME NEW i \in 1..Len(t), t[i].h = h PROVE t[i].q = <<>>
    OBVIOUS
  <2>1. /\ Len(t) = Len(stack) - 1 /\ Len(stack) \in Nat /\ t[i] = stack[i + 1]
        /\ i + 1 \in 1..Len(stack) /\ i + 1 # 1 /\ 1 \in 1..(Len(stack) - 1)
    <3>1. Len(t) = Len(stack) - 1 /\ Len(stack) \in Nat
      BY <1>0, <1>1, StackParts
    <3>2. t[i] = stack[i + 1]
      BY <1>0, <1>1, <3>1, StackParts
    <3> HIDE DEF t
    <3> QED
      BY <3>1, <3>2
  <2>2. stack[1] = Top /\ Top.pc \in Flushing /\ Resumable(1)
    BY <1>0, <1>1, <2>1, FrameFacts DEF Suspended
  <2> QED
    BY <1>h, <2>1, <2>2 DEF Resumable
<1>6. \A v \in Seq(Reqs) : PendingIn(t, v, h) = v
  <2> HIDE DEF t
  <2> QED
    BY <1>2, <1>5, PendingNothing
<1>7. Pending(h) = q \o w
  <2>1. Pending(h) = PendingIn(t, q \o w, h)
    BY <1>h, <1>0, <1>1, <1>2, PendingTop DEF Added
  <2>2. q \o w \in Seq(Reqs)
    <3> HIDE DEF q, w
    <3> QED
      BY <1>2, <1>3
  <2> QED
    BY <1>6, <2>1, <2>2
<1>8. Pending(h)' = Tail(q) \o w
  <2> HIDE DEF f
  <2>1. Pending(h)' = PendingIn(t, Added(f, write_queue'[h], h), h)
    <3>1. write_queue'[h] \in Seq(Reqs)
      <4>1. write_queue'[h] = w
        BY <1>1
      <4> HIDE DEF w
      <4> QED
        BY <1>3, <4>1
    <3> HIDE DEF q, w
    <3> QED
      BY <1>0, <1>1, <1>2, <1>4, <3>1, PendingReplaced
  <2>2. Added(f, write_queue'[h], h) = Tail(q) \o w
    BY <1>1, <1>4 DEF Added
  <2>3. Tail(q) \o w \in Seq(Reqs)
    <3> HIDE DEF q, w
    <3> QED
      BY <1>3
  <2> QED
    BY <1>6, <2>1, <2>2, <2>3
<1>9. /\ q \o w # <<>> /\ Tail(q \o w) = Tail(q) \o w /\ Head(q \o w) = Head(q)
  <2> HIDE DEF q, w
  <2> QED
    BY <1>1, <1>2, <1>3
<1>10. SameBut(h)
  <2> HIDE DEF f
  <2> SUFFICES ASSUME NEW g \in Handles \ {h} PROVE Pending(g)' = Pending(g)
    BY DEF SameBut
  <2>1. Pending(g) = PendingIn(t, write_queue[g], g)
    BY <1>h, <1>0, <1>1, PendingTop DEF Added
  <2>2. Pending(g)' = PendingIn(t, Added(f, write_queue'[g], g), g)
    BY <1>0, <1>1, <1>4, PendingReplaced
  <2> QED
    BY <1>1, <1>4, <2>1, <2>2 DEF Added
<1>11. Answers(h)
  BY <1>7, <1>8, <1>9, <1>10 DEF Answers
<1>12. Connecting' = Connecting
  BY <1>1 DEF Connecting
<1>13. WControl'
  <2> HIDE DEF f
  <2>1. /\ stack' \in Seq(Frames) /\ Len(stack') = Len(stack) /\ Len(stack) \in Nat \ {0}
        /\ stack'[1] = f /\ stack[1] = Top
        /\ \A i \in 2..Len(stack) : stack'[i] = stack[i]
    BY <1>0, <1>1, <1>4, ReplaceFacts, FrameFacts
  <2>2. \A i \in 1..Len(stack) : /\ i = 1 \/ stack'[i] = stack[i]
                                 /\ stack'[i].h = stack[i].h
                                 /\ stack'[i].pc \in Flushing <=> stack[i].pc \in Flushing
    BY <1>h, <1>1, <1>4, <2>1 DEF Flushing
  <2>3. HeldWhere'
    BY <1>4, <2>1, <2>2 DEF HeldWhere, WControl, Holders
  <2>4. \A g \in Handles : BeingClosed(g)' => BeingClosed(g)
    BY <1>0, <2>1, <2>2, BeingClosedIs, BeingClosedWas
  <2> QED
    BY <1>1, <2>3, <2>4 DEF WControl, Flushed
<1> QED
  BY <1>h, <1>1, <1>2, <1>7, <1>9, <1>11, <1>12, <1>13 DEF WriteStep, Answered

-----------------------------------------------------------------------------
(* The i/o callbacks. *)

(* The writes that are finished go from the queue to the frame. *)
LEMMA WrittenStep ==
    ASSUME IInv, WControl, WriteTurn, NEW h, h = Top.h, NEW n \in 0..Len(write_queue[h]),
           Written(h, n), UNCHANGED active_requests,
           \A g \in Handles : handle'[g].connecting = handle[g].connecting
    PROVE  WriteStep /\ WControl'
<1> DEFINE wq == write_queue[h]
           sent == SubSeq(wq, 1, n)
           rest == SubSeq(wq, n + 1, Len(wq))
           f == [Top EXCEPT !.pc = "written", !.q = sent]
<1>0. NetShape /\ stack \in Seq(Frames) /\ write_queue \in [Handles -> Seq(Reqs)]
  BY DEF IInv, NetShape
<1>1. stack # <<>> /\ Top.pc = "io" /\ InService
  BY DEF WriteTurn, Writing, At, InService, Flushing
<1>2. /\ h \in Handles /\ Top \in Frames /\ Tail(stack) = <<>> /\ ~BeingClosed(h)
      /\ \A x : Replace(x) <=> stack' = <<x>>
  BY <1>1, TopFacts
<1>3. Top.q = <<>> /\ wq \in Seq(Reqs)
  BY <1>0, <1>1, <1>2, TopHolds DEF Holders
<1>4. sent \in Seq(Reqs) /\ rest \in Seq(Reqs) /\ sent \o rest = wq
  <2>1. n \in 0..Len(wq)
    OBVIOUS
  <2> HIDE DEF wq
  <2> QED
    BY <1>3, <2>1, SplitFacts
<1>5. /\ write_queue'[h] = rest
      /\ \A g \in Handles \ {h} : write_queue'[g] = write_queue[g]
  BY <1>0, <1>2 DEF Written
<1> HIDE DEF sent, rest
<1>6. f \in Frames /\ f.h = h /\ f.q = sent /\ f.pc = "written"
  BY <1>2, <1>4 DEF Frames
<1>7. stack' = <<f>> /\ Replace(f)
  BY <1>2 DEF Written, sent
<1> HIDE DEF f, wq
<1>8. Same
  <2> SUFFICES ASSUME NEW g \in Handles PROVE Pending(g)' = Pending(g)
    BY DEF Same
  <2> DEFINE w == write_queue[g]
             u == write_queue'[g]
  <2>1. w \in Seq(Reqs) /\ u \in Seq(Reqs)
    <3>1. CASE g = h
      BY <1>3, <1>4, <1>5, <3>1 DEF wq
    <3>2. CASE g # h
      BY <1>0, <1>5, <3>2
    <3> QED
      BY <3>1, <3>2
  <2>2. Added(Top, w, g) = w
    <3> HIDE DEF w
    <3>1. <<>> \o w = w
      BY <2>1
    <3> QED
      BY <1>3, <3>1 DEF Added
  <2>3. Added(f, u, g) = w
    BY <1>4, <1>5, <1>6 DEF Added, wq
  <2>4. Pending(g) = PendingIn(<<>>, w, g)
    BY <1>0, <1>1, <1>2, <2>2, PendingTop
  <2>5. Pending(g)' = PendingIn(<<>>, w, g)
    BY <1>0, <1>1, <1>2, <1>6, <1>7, <2>1, <2>3, PendingReplaced
  <2> QED
    BY <2>4, <2>5
<1>9. WControl'
  <2>1. /\ stack' \in Seq(Frames) /\ \A i \in 1..Len(stack') : stack'[i] = f
    BY <1>6, <1>7
  <2>2. HeldWhere'
    BY <1>6, <2>1 DEF HeldWhere, Holders
  <2>3. \A g \in Handles : ~BeingClosed(g)'
    BY <1>6, <2>1, BeingClosedWas DEF Flushing
  <2> QED
    BY <2>2, <2>3 DEF WControl, Flushed
<1>10. Connecting' = Connecting
  BY DEF Connecting
<1> QED
  BY <1>8, <1>9, <1>10 DEF WriteStep, Nothing

(* core_tcp_write and core_udp_write. *)
LEMMA WritesStep ==
    ASSUME IInv, WControl, NothingToWrite \/ TcpWrites \/ TcpWriteFails \/ UdpWrites
    PROVE  WriteStep /\ WControl'
<1>h. PICK h : h = Top.h
  OBVIOUS
<1>0. NetShape /\ HandleShape
  BY DEF IInv, NetShape
<1>1. WriteTurn /\ UNCHANGED active_requests
  BY DEF NothingToWrite, TcpWrites, TcpWriteFails, UdpWrites
<1>2. h \in Handles /\ write_queue[h] \in Seq(Reqs)
  <2>1. InService
    BY <1>1 DEF InService, WriteTurn, Writing, At, Flushing
  <2>2. h \in Handles
    BY <1>h, <2>1, TopFacts
  <2> QED
    BY <1>0, <2>2 DEF NetShape
<1>3. \A g \in Handles : handle'[g].connecting = handle[g].connecting
  <2>1. CASE NothingToWrite
    BY <2>1 DEF NothingToWrite
  <2>2. CASE TcpWrites
    BY <1>0, <1>h, <1>2, <2>2 DEF TcpWrites, HandleShape, Fields
  <2>3. CASE TcpWriteFails
    BY <1>0, <1>h, <1>2, <2>3 DEF TcpWriteFails, HandleShape, Fields
  <2>4. CASE UdpWrites
    BY <1>0, <1>h, <1>2, <2>4 DEF UdpWrites, HandleShape, Fields
  <2> QED
    BY <2>1, <2>2, <2>3, <2>4
<1>4. \E n \in 0..Len(write_queue[h]) : Written(h, n)
  <2>1. 0 \in 0..Len(write_queue[h])
        /\ (write_queue[h] # <<>> => 1 \in 0..Len(write_queue[h]))
    BY <1>2
  <2>2. CASE NothingToWrite
    BY <1>h, <2>1, <2>2 DEF NothingToWrite
  <2>3. CASE TcpWrites
    BY <1>h, <2>1, <2>3 DEF TcpWrites, CanWrite
  <2>4. CASE TcpWriteFails
    BY <1>h, <2>1, <2>4 DEF TcpWriteFails, CanWrite
  <2>5. CASE UdpWrites
    BY <1>h, <2>1, <2>5 DEF UdpWrites
  <2> QED
    BY <2>2, <2>3, <2>4, <2>5
<1> QED
  BY <1>h, <1>1, <1>3, <1>4, WrittenStep

(* core_tcp_connect, when the connect is decided. *)
LEMMA ConnectsStep ==
    ASSUME IInv, WControl, Connects
    PROVE  WriteStep /\ WControl'
<1>h. PICK h : h = Top.h
  OBVIOUS
<1>0. NetShape /\ HandleShape
  BY DEF IInv, NetShape
<1>1. /\ stack # <<>> /\ Top.pc = "connect" /\ InService /\ Goto("on_connected")
      /\ UNCHANGED write_queue /\ active_requests' = active_requests - 1
  BY DEF Connects, At, InService, Flushing
<1>2. h \in Handles /\ handle[h].connecting /\ ~BeingClosed(h)
  BY <1>h, <1>1, TopFacts
<1>3. /\ handle'[h].connecting = FALSE
      /\ \A g \in Handles \ {h} : handle'[g].connecting = handle[g].connecting
  <2>1. CASE handle' = [handle EXCEPT ![h] = [With(h, {"READABLE", "WRITABLE"})
                                                  EXCEPT !.connecting = FALSE]]
    BY <1>0, <1>2, <2>1 DEF HandleShape, Fields, With
  <2>2. CASE handle' = [handle EXCEPT ![h].connecting = FALSE,
                 ![h].flags = FlagsWithout(h, {"OUT"}) \cup {"READABLE", "WRITABLE"}]
    BY <1>0, <1>2, <2>2 DEF HandleShape, Fields
  <2> QED
    BY <1>h, <2>1, <2>2 DEF Connects
<1>4. Calm
  BY <1>0, <1>1, GotoCalm DEF Holders, Flushing, CallbackPcs
<1>5. Same /\ WControl'
  BY <1>0, <1>1, <1>2, <1>3, <1>4, CalmSame, CalmControl
<1>6. h \in Connecting /\ Connecting' = Connecting \ {h}
  BY <1>2, <1>3 DEF Connecting
<1> QED
  BY <1>1, <1>5, <1>6 DEF WriteStep, Decided

(* The other steps of the i/o callbacks and the ends of the callbacks. *)
LEMMA ServiceStep ==
    ASSUME IInv, WControl,
           \/ ServerStops \/ AcceptFails \/ Accepts \/ ConnectionTaken \/ ConnectionLeft
           \/ StillConnecting \/ ReadLoopEnds \/ ReadData \/ ReadEnds \/ IoReturns
           \/ WritesServed \/ CallbackReturns
    PROVE  WriteStep /\ WControl'
<1>h. PICK h : h = Top.h
  OBVIOUS
<1>0. NetShape /\ HandleShape /\ stack \in Seq(Frames)
  BY DEF IInv, NetShape
<1>1. stack # <<>> /\ UNCHANGED <<write_queue, active_requests>>
  BY DEF ServerStops, AcceptFails, Accepts, ConnectionTaken, ConnectionLeft, StillConnecting,
         ReadLoopEnds, ReadData, ReadEnds, IoReturns, WritesServed, CallbackReturns,
         Reading, Writing, At, handleVars
<1>2. h \in Handles /\ Top \in Frames
  BY <1>0, <1>1, <1>h, StackParts
<1>3. \A g \in Handles : handle'[g].connecting = handle[g].connecting
  <2>1. CASE Accepts
    BY <1>0, <1>h, <1>2, <2>1 DEF Accepts, HandleShape, Fields
  <2>2. CASE ConnectionLeft
    BY <1>0, <1>h, <1>2, <2>2 DEF ConnectionLeft, HandleShape, Fields
  <2>3. CASE ReadEnds
    BY <1>0, <1>h, <1>2, <2>3 DEF ReadEnds, HandleShape, Fields
  <2>4. CASE WritesServed
    BY <1>0, <1>h, <1>2, <2>4 DEF WritesServed, HandleShape, Fields
  <2>5. CASE UNCHANGED handle
    BY <2>5
  <2> QED
    BY <2>1, <2>2, <2>3, <2>4, <2>5
       DEF ServerStops, AcceptFails, ConnectionTaken, StillConnecting, ReadLoopEnds, ReadData,
           IoReturns, CallbackReturns, handleVars
<1>4. Calm
  <2>1. CASE ServerStops \/ ConnectionLeft \/ StillConnecting \/ IoReturns \/ WritesServed
    <3>1. Return /\ (Top.pc \notin Holders \/ Top.q = <<>>)
      BY <2>1 DEF ServerStops, ConnectionLeft, StillConnecting, IoReturns, WritesServed, Writing,
                  At, Holders
    <3> QED
      BY <1>0, <1>1, <3>1, ReturnCalm
  <2>2. CASE AcceptFails \/ Accepts \/ ConnectionTaken
    <3>1. PICK pc \in {"on_refused", "on_connection", "server"} :
             Goto(pc) /\ Top.pc \in {"server", "on_connection"}
      BY <2>2 DEF AcceptFails, Accepts, ConnectionTaken, At
    <3> QED
      BY <1>0, <1>1, <3>1, GotoCalm DEF Holders, Flushing, CallbackPcs
  <2>3. CASE ReadLoopEnds
    <3> DEFINE f == [Top EXCEPT !.ev = NoMoreReads]
    <3>1. f \in Frames /\ f.h = Top.h /\ f.pc = Top.pc /\ f.q = Top.q
      BY <1>2 DEF Frames, NoMoreReads
    <3>2. Replace(f) /\ Top.pc = "io"
      BY <2>3 DEF ReadLoopEnds, Reading, At
    <3> HIDE DEF f
    <3> QED
      BY <1>0, <1>1, <3>1, <3>2, ReplaceCalm DEF Holders, Flushing
  <2>4. CASE ReadData \/ ReadEnds
    <3>0. PICK ev \in {Top.ev, NoMoreReads} : Replace([Top EXCEPT !.pc = "on_read", !.ev = ev])
      BY <2>4 DEF ReadData, ReadEnds
    <3> DEFINE f == [Top EXCEPT !.pc = "on_read", !.ev = ev]
    <3>1. f \in Frames /\ f.h = Top.h /\ f.pc = "on_read" /\ f.q = Top.q
      BY <1>2 DEF Frames, NoMoreReads, CallbackPcs
    <3>2. Replace(f) /\ Top.pc = "io"
      BY <2>4, <3>0 DEF ReadData, ReadEnds, Reading, At
    <3> HIDE DEF f
    <3> QED
      BY <1>0, <1>1, <3>1, <3>2, ReplaceCalm DEF Holders, Flushing
  <2>5. CASE CallbackReturns
    <3>1. CASE (At("on_connected") \/ At("on_closing")) /\ Return
      BY <1>0, <1>1, <3>1, ReturnCalm DEF At, Holders
    <3>2. CASE At("on_refused") /\ Goto("server")
      BY <1>0, <1>1, <3>2, GotoCalm DEF At, Holders, Flushing
    <3>3. CASE At("on_read") /\ Goto("io")
      BY <1>0, <1>1, <3>3, GotoCalm DEF At, Holders, Flushing
    <3>4. CASE At("on_write") /\ Goto("written")
      BY <1>0, <1>1, <3>4, GotoCalm DEF At
    <3>5. CASE At("on_flush") /\ Goto("flush")
      BY <1>0, <1>1, <3>5, GotoCalm DEF At
    <3> QED
      BY <2>5, <3>1, <3>2, <3>3, <3>4, <3>5 DEF CallbackReturns
  <2> QED
    BY <2>1, <2>2, <2>3, <2>4, <2>5
<1> QED
  BY <1>0, <1>1, <1>3, <1>4, CalmStep

(* apc_loop_run. *)
LEMMA LoopStep ==
    ASSUME IInv, WControl, Poll \/ LoopCheck \/ RunClosing \/ \E f \in Fds : Dispatch(f)
    PROVE  WriteStep /\ WControl'
<1>0. NetShape /\ HandleShape
  BY DEF IInv, NetShape
<1>1. stack = <<>> /\ UNCHANGED <<write_queue, active_requests>>
  BY DEF Poll, LoopCheck, RunClosing, Dispatch, AtLoop, handleVars
<1>2. CASE Poll \/ LoopCheck
  <2>1. UNCHANGED <<handle, stack>>
    BY <1>2 DEF Poll, LoopCheck, handleVars
  <2> QED
    BY <1>0, <1>1, <2>1, CalmStep DEF Calm
<1>3. CASE RunClosing
  <2>h. PICK h : h = Head(closing_queue)
    OBVIOUS
  <2>1. h \in Handles /\ handle[h].state = "closing"
    <3>1. closing_queue # <<>> /\ closing_queue \in Seq(Handles)
      BY <1>0, <1>3 DEF RunClosing, NetShape
    <3>2. h \in Handles /\ h \in ToSet(closing_queue)
      BY <2>h, <3>1, TailFacts
    <3> QED
      BY <3>2 DEF IInv, ClosingQueued
  <2>2. handle[h].connecting = FALSE
    BY <2>1, NoSocketFacts
  <2>3. \A g \in Handles : handle'[g].connecting = handle[g].connecting
    BY <1>0, <1>3, <2>h, <2>1, <2>2 DEF RunClosing, HandleShape, NoHandleYet
  <2> DEFINE f == Frame("on_closing", h, {}, <<>>)
  <2>4. f \in Frames /\ f.q = <<>> /\ f.pc = "on_closing"
    BY <2>1 DEF Frame, Frames, CallbackPcs
  <2>5. stack' = <<f>>
    BY <1>3, <2>h DEF RunClosing
  <2> HIDE DEF f
  <2>6. Calm
    BY <1>1, <2>4, <2>5 DEF Calm, Pushed, Flushing
  <2> QED
    BY <1>0, <1>1, <2>3, <2>6, CalmStep
<1>4. ASSUME NEW e \in Fds, Dispatch(e) PROVE WriteStep /\ WControl'
  <2>1. UNCHANGED handle
    BY <1>4 DEF Dispatch, handleVars
  <2>2. Calm
    <3>1. CASE UNCHANGED stack
      BY <3>1 DEF Calm
    <3>2. CASE stack' # stack
      <4>h. PICK h \in Handles : h = event_watchers[e]
        BY <1>0, <1>4, <3>2 DEF Dispatch, NetShape, ReactorTypeOK
      <4> DEFINE ev == Wanted(h, batch[e])
                 f == Frame(EventPc(h), h, ev, <<>>)
      <4>1. ev \in SUBSET (PollEvents \cup {"ERR"})
        BY <1>0, <4>h DEF Wanted, NetShape, ReactorTypeOK
      <4>2. EventPc(h) \in {"server", "connect", "io"}
        BY DEF EventPc
      <4>3. f \in Frames /\ f.q = <<>> /\ f.pc \notin Flushing
        BY <4>1, <4>2 DEF Frame, Frames, Flushing
      <4>4. stack' = <<f>>
        BY <1>4, <3>2, <4>h DEF Dispatch
      <4> HIDE DEF f
      <4> QED
        BY <1>1, <4>3, <4>4 DEF Calm, Pushed
    <3> QED
      BY <3>1, <3>2
  <2> QED
    BY <1>0, <1>1, <2>1, <2>2, CalmStep
<1> QED
  BY <1>2, <1>3, <1>4

(* Every step is one of the kinds. *)
LEMMA EveryWriteStep ==
    ASSUME IInv, Supported, WControl, [Next]_vars
    PROVE  WriteStep /\ WControl'
<1>1. CASE UserStep
  <2>1. PICK h \in Handles : UserCall(h)
    BY <1>1 DEF UserStep
  <2>2. UNCHANGED stack
    BY <1>1 DEF UserStep
  <2>3. CASE apc_tcp_connect(h)
    BY <2>2, <2>3, ConnectStep
  <2>4. ASSUME NEW r \in Reqs, apc_write(h, r) PROVE WriteStep /\ WControl'
    BY <2>2, <2>4, WriteCallStep
  <2>5. CASE \/ apc_net_init(h) \/ apc_bind(h) \/ apc_listen(h)
             \/ apc_start_read(h) \/ apc_stop_read(h) \/ apc_reject(h)
             \/ \E c \in Handles : apc_accept(h, c)
    BY <2>2, <2>5, OtherCallStep
  <2> QED
    BY <2>1, <2>3, <2>4, <2>5 DEF UserCall
<1>2. ASSUME NEW h \in Handles, CloseStart(h) PROVE WriteStep /\ WControl'
  BY <1>2, CloseStartStep
<1>3. CASE CloseEnd
  BY <1>3, CloseEndStep
<1>4. CASE AnswerFlushed \/ AnswerWritten
  BY <1>4, AnswerStep DEF AnswerFlushed, AnswerWritten
<1>5. CASE NothingToWrite \/ TcpWrites \/ TcpWriteFails \/ UdpWrites
  BY <1>5, WritesStep
<1>6. CASE Connects
  BY <1>6, ConnectsStep
<1>7. CASE \/ ServerStops \/ AcceptFails \/ Accepts \/ ConnectionTaken \/ ConnectionLeft
           \/ StillConnecting \/ ReadLoopEnds \/ ReadData \/ ReadEnds \/ IoReturns
           \/ WritesServed \/ CallbackReturns
  BY <1>7, ServiceStep
<1>8. CASE Poll \/ LoopCheck \/ RunClosing \/ \E f \in Fds : Dispatch(f)
  BY <1>8, LoopStep
<1>9. CASE UNCHANGED vars
  <2>1. UNCHANGED <<handle, write_queue, active_requests, stack>>
    BY <1>9 DEF vars, handleVars
  <2> QED
    BY <2>1, CalmStep DEF Calm, IInv
<1> QED
  BY <1>1, <1>2, <1>3, <1>4, <1>5, <1>6, <1>7, <1>8, <1>9 DEF Next

-----------------------------------------------------------------------------
(* active_requests. *)

(* No write is pending twice. *)
NoRepeats == \A h \in Handles :
    /\ IsInjective(Pending(h))
    /\ \A g \in Handles \ {h} : ToSet(Pending(h)) \cap ToSet(Pending(g)) = {}

Counted == /\ NoRepeats
           /\ IsFiniteSet(InFlight) /\ IsFiniteSet(Connecting)
           /\ WritesCounted

WInv == IInv /\ WControl /\ Counted

LEMMA PendingSeq ==
    ASSUME NetShape
    PROVE  \A h \in Handles : Pending(h) \in Seq(Reqs)
BY PendingDef, PendingType DEF NetShape

(* The writes in flight after one has been made. *)
LEMMA AddsFacts ==
    ASSUME NetShape, NoRepeats, NEW h \in Handles, NEW r \in Reqs, Adds(h, r)
    PROVE  NoRepeats' /\ InFlight' = InFlight \cup {r} /\ r \notin InFlight
<1>1. /\ r \notin InFlight /\ Pending(h) \in Seq(Reqs)
      /\ Pending(h)' = Append(Pending(h), r)
      /\ \A g \in Handles \ {h} : Pending(g)' = Pending(g)
  BY PendingSeq DEF Adds, SameBut
<1>2. \A g \in Handles : r \notin ToSet(Pending(g))
  BY <1>1 DEF InFlight
<1>3. /\ ToSet(Pending(h)') = ToSet(Pending(h)) \cup {r}
      /\ IsInjective(Pending(h)) => IsInjective(Pending(h)')
  BY <1>1, <1>2, AppendFacts
<1>4. InFlight' = InFlight \cup {r}
  <2>1. InFlight' = UNION {ToSet(Pending(g)') : g \in Handles}
    BY DEF InFlight
  <2>2. \A g \in Handles \ {h} : ToSet(Pending(g)') = ToSet(Pending(g))
    BY <1>1
  <2> QED
    BY <1>3, <2>1, <2>2 DEF InFlight
<1>5. NoRepeats'
  <2> SUFFICES ASSUME NEW a \in Handles
               PROVE  /\ IsInjective(Pending(a)')
                      /\ \A b \in Handles \ {a} : ToSet(Pending(a)') \cap ToSet(Pending(b)') = {}
    BY DEF NoRepeats
  <2>1. IsInjective(Pending(a)')
    BY <1>1, <1>3 DEF NoRepeats
  <2>2. ASSUME NEW b \in Handles \ {a} PROVE ToSet(Pending(a)') \cap ToSet(Pending(b)') = {}
    <3>1. ToSet(Pending(a)) \cap ToSet(Pending(b)) = {}
      BY DEF NoRepeats
    <3>2. CASE a = h
      BY <1>1, <1>2, <1>3, <3>1, <3>2
    <3>3. CASE b = h
      BY <1>1, <1>2, <1>3, <3>1, <3>3
    <3>4. CASE a # h /\ b # h
      BY <1>1, <3>1, <3>4
    <3> QED
      BY <3>2, <3>3, <3>4
  <2> QED
    BY <2>1, <2>2
<1> QED
  BY <1>1, <1>4, <1>5

(* And after one has been answered. *)
LEMMA AnswersFacts ==
    ASSUME NetShape, NoRepeats, NEW h \in Handles, Answers(h)
    PROVE  /\ NoRepeats' /\ Head(Pending(h)) \in InFlight
           /\ InFlight' = InFlight \ {Head(Pending(h))}
<1> DEFINE r == Head(Pending(h))
<1>1. /\ Pending(h) \in Seq(Reqs) /\ Pending(h) # <<>>
      /\ Pending(h)' = Tail(Pending(h))
      /\ \A g \in Handles \ {h} : Pending(g)' = Pending(g)
  BY PendingSeq DEF Answers, SameBut
<1>2. /\ r \in ToSet(Pending(h)) /\ ToSet(Pending(h)) = ToSet(Pending(h)') \cup {r}
      /\ IsInjective(Pending(h)') /\ r \notin ToSet(Pending(h)')
  BY <1>1, TailFacts DEF NoRepeats
<1>3. \A g \in Handles \ {h} : r \notin ToSet(Pending(g))
  BY <1>2 DEF NoRepeats
<1>4. r \in InFlight
  BY <1>2 DEF InFlight
<1> HIDE DEF r
<1>5. InFlight' = InFlight \ {r}
  <2>1. InFlight' = UNION {ToSet(Pending(g)') : g \in Handles}
    BY DEF InFlight
  <2>2. \A g \in Handles \ {h} : ToSet(Pending(g)') = ToSet(Pending(g))
    BY <1>1
  <2>3. \A g \in Handles : ToSet(Pending(g)') = ToSet(Pending(g)) \ {r}
    BY <1>2, <1>3, <2>2
  <2> QED
    BY <2>1, <2>3 DEF InFlight
<1>6. NoRepeats'
  <2> SUFFICES ASSUME NEW a \in Handles
               PROVE  /\ IsInjective(Pending(a)')
                      /\ \A b \in Handles \ {a} : ToSet(Pending(a)') \cap ToSet(Pending(b)') = {}
    BY DEF NoRepeats
  <2>1. IsInjective(Pending(a)')
    BY <1>1, <1>2 DEF NoRepeats
  <2>2. ASSUME NEW b \in Handles \ {a} PROVE ToSet(Pending(a)') \cap ToSet(Pending(b)') = {}
    <3>1. ToSet(Pending(a)) \cap ToSet(Pending(b)) = {}
      BY DEF NoRepeats
    <3>2. \A g \in Handles : ToSet(Pending(g)') \subseteq ToSet(Pending(g))
      BY <1>1, <1>2
    <3> QED
      BY <3>1, <3>2
  <2> QED
    BY <2>1, <2>2
<1> QED
  BY <1>4, <1>5, <1>6 DEF r

(* Each kind of step keeps the count. *)
LEMMA CountedStep ==
    ASSUME NetShape, Counted, WriteStep
    PROVE  Counted'
<1> DEFINE nc == Cardinality(Connecting)
           nf == Cardinality(InFlight)
<1>1. /\ NoRepeats /\ IsFiniteSet(InFlight) /\ IsFiniteSet(Connecting)
      /\ active_requests = nc + nf /\ nc \in Nat /\ nf \in Nat
  BY FS_CardinalityType DEF Counted, WritesCounted
<1>2. Same => InFlight' = InFlight /\ NoRepeats'
  BY <1>1 DEF Same, InFlight, NoRepeats
<1>3. CASE Nothing
  BY <1>1, <1>2, <1>3 DEF Nothing, Counted, WritesCounted
<1>4. CASE Made
  <2>1. PICK h \in Handles, r \in Reqs : Adds(h, r)
    BY <1>4 DEF Made
  <2>2. NoRepeats' /\ InFlight' = InFlight \cup {r} /\ r \notin InFlight
    BY <1>1, <2>1, AddsFacts
  <2>3. IsFiniteSet(InFlight)' /\ Cardinality(InFlight)' = nf + 1
    BY <1>1, <2>2, FS_AddElement
  <2> QED
    BY <1>1, <1>4, <2>2, <2>3 DEF Made, Counted, WritesCounted
<1>5. CASE Answered
  <2>1. PICK h \in Handles : Answers(h)
    BY <1>5 DEF Answered
  <2>2. PICK r \in InFlight : NoRepeats' /\ InFlight' = InFlight \ {r}
    BY <1>1, <2>1, AnswersFacts
  <2>3. IsFiniteSet(InFlight)' /\ Cardinality(InFlight)' = nf - 1
    BY <1>1, <2>2, FS_RemoveElement
  <2> QED
    BY <1>1, <1>5, <2>2, <2>3 DEF Answered, Counted, WritesCounted
<1>6. CASE Begun
  <2>1. PICK h \in Handles \ Connecting : Connecting' = Connecting \cup {h}
    BY <1>6 DEF Begun
  <2>2. IsFiniteSet(Connecting)' /\ Cardinality(Connecting)' = nc + 1
    BY <1>1, <2>1, FS_AddElement
  <2> QED
    BY <1>1, <1>2, <1>6, <2>2 DEF Begun, Counted, WritesCounted
<1>7. CASE Decided
  <2>1. PICK h \in Connecting : Connecting' = Connecting \ {h}
    BY <1>7 DEF Decided
  <2>2. IsFiniteSet(Connecting)' /\ Cardinality(Connecting)' = nc - 1
    BY <1>1, <2>1, FS_RemoveElement
  <2> QED
    BY <1>1, <1>2, <1>7, <2>2 DEF Decided, Counted, WritesCounted
<1> QED
  BY <1>3, <1>4, <1>5, <1>6, <1>7 DEF WriteStep

LEMMA PendingInit ==
    ASSUME Init
    PROVE  \A h \in Handles : Pending(h) = <<>>
<1>1. stack = <<>> /\ \A h \in Handles : write_queue[h] = <<>>
  BY DEF Init
<1> SUFFICES ASSUME NEW h \in Handles PROVE Pending(h) = <<>>
  OBVIOUS
<1>2. <<>> \in Seq(Reqs)
  OBVIOUS
<1>3. PendingIn(<<>>, <<>>, h) = <<>>
  BY <1>2, PendingEmpty
<1>4. Pending(h) = PendingIn(stack, write_queue[h], h)
  BY PendingDef
<1> QED
  BY <1>1, <1>3, <1>4

LEMMA WInvInit == Init => WInv
<1> SUFFICES ASSUME Init PROVE WInv
  OBVIOUS
<1>1. IInv
  BY IInvInit
<1>2. WControl
  <2>1. Len(stack) = 0 /\ DOMAIN stack = 1..0
    BY DEF Init
  <2> QED
    BY <2>1 DEF WControl, HeldWhere, Flushed, BeingClosed, InFrame
<1>3. InFlight = {} /\ NoRepeats
  BY PendingInit, EmptyFacts DEF InFlight, NoRepeats
<1>4. Connecting = {} /\ active_requests = 0
  BY DEF Init, Connecting, NoHandleYet
<1> QED
  BY <1>1, <1>2, <1>3, <1>4, FS_EmptySet DEF WInv, Counted, WritesCounted

LEMMA WInvStep ==
    ASSUME WInv, Supported, [Next]_vars
    PROVE  WInv'
<1>1. IInv'
  BY IInvStep DEF WInv
<1>2. WriteStep /\ WControl'
  BY EveryWriteStep DEF WInv
<1>3. Counted'
  BY <1>2, CountedStep DEF WInv, IInv
<1> QED
  BY <1>1, <1>2, <1>3 DEF WInv

LEMMA WritesInductive ==
    ASSUME Supported
    PROVE  Spec => []WInv
<1>1. WInv /\ [Next]_vars => WInv'
  BY WInvStep
<1> QED
  BY WInvInit, <1>1, PTL DEF Spec

(* active_requests is the number of writes that are not called back and of  *)
(* connects that are not decided, for any number of both: apc_loop_run ends *)
(* no sooner and no later for them, whichever way each of them comes to its *)
(* end.                                                                     *)
THEOREM RequestsCounted ==
    ASSUME Supported
    PROVE  Spec => []WritesCounted
<1>1. WInv => WritesCounted
  BY DEF WInv, Counted
<1> QED
  BY <1>1, WritesInductive, PTL

-----------------------------------------------------------------------------
(* The service. *)

LEMMA ServiceStart ==
    ASSUME Init
    PROVE  Service!Init
BY PendingInit DEF Service!Init

LEMMA ServiceNext ==
    ASSUME NetShape, WriteStep
    PROVE  [Service!Next]_[h \in Handles |-> Pending(h)]
<1> DEFINE p == [h \in Handles |-> Pending(h)]
           p2 == [h \in Handles |-> Pending(h)']
<1>0. p' = p2
  OBVIOUS
<1>1. CASE Same
  BY <1>0, <1>1 DEF Same
<1>2. CASE Made
  <2>1. PICK h \in Handles, r \in Reqs : Adds(h, r)
    BY <1>2 DEF Made
  <2>2. p2 = [p EXCEPT ![h] = Append(p[h], r)]
    BY <2>1 DEF Adds, SameBut
  <2>3. \A g \in Handles : r \notin ToSet(p[g])
    BY <2>1 DEF Adds, InFlight
  <2>4. Service!Write(h, r)
    BY <1>0, <2>2, <2>3 DEF Service!Write, Service!ToSet, ToSet
  <2> QED
    BY <2>4 DEF Service!Next
<1>3. CASE Answered
  <2>1. PICK h \in Handles : Answers(h)
    BY <1>3 DEF Answered
  <2>2. p[h] # <<>> /\ p2 = [p EXCEPT ![h] = Tail(p[h])]
    BY <2>1 DEF Answers, SameBut
  <2>3. Service!CallBack(h)
    BY <1>0, <2>2 DEF Service!CallBack
  <2> QED
    BY <2>3 DEF Service!Next
<1> QED
  BY <1>1, <1>2, <1>3 DEF WriteStep, Nothing, Begun, Decided

(* The writes of a handle are called back in the order they were made, each *)
(* once, although they are spread over the queue of the handle and the      *)
(* suspended calls of core_write_callbacks.                                 *)
THEOREM WritesInOrder ==
    ASSUME Supported
    PROVE  Spec => ImplementsWriteService
<1>1. Init => Service!Init
  BY ServiceStart
<1>2. WInv /\ [Next]_vars => [Service!Next]_[h \in Handles |-> Pending(h)]
  BY EveryWriteStep, ServiceNext DEF WInv, IInv
<1> QED
  BY <1>1, <1>2, WritesInductive, PTL DEF Spec, Service!Spec, ImplementsWriteService
===============================================================================
