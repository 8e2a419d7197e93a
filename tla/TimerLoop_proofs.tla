--------------------------- MODULE TimerLoop_proofs ---------------------------
(***************************************************************************)
(* Proofs about TimerLoop, for every number of timers, every set of        *)
(* durations and every number of epoll_wait calls in a poll.               *)
(*                                                                         *)
(* Timed is about the timers and the heap alone and is kept by every call  *)
(* of the timer API; Paced adds where the loop's thread is.  Together they *)
(* are inductive and imply the four invariants that TLC checks.            *)
(***************************************************************************)
EXTENDS TimerLoop, Lemmas, TLAPS, FiniteSetTheorems
(* The started timers have the ids 0, 1, 2, ..., one each. *)
Ranked(held, ids) ==
    /\ \A t, u \in held : ids[t] = ids[u] => t = u
    /\ {ids[t] : t \in held} = 0..(Cardinality(held) - 1)

(* The types of the timers' part. *)
TimerShape ==
    /\ flags \in [Timer -> {0, HANDLE_ACTIVE, HANDLE_CLOSING}]
    /\ inited \subseteq Timer /\ has_cb \subseteq Timer /\ heap \subseteq Timer
    /\ duration \in [Timer -> Durations \cup {-1}]
    /\ restart \in [Timer -> {0, 1}]
    /\ due \in [Timer -> (-MaxDuration)..MaxDuration]
    /\ id \in [Timer -> 0..Cardinality(Timer)]
    /\ closing_queue \in Seq(Timer)
    /\ active_handles \in Nat /\ other \in BOOLEAN

(* A timer that can be started again has a duration to start with. *)
Restartable == \A t \in has_cb : duration[t] \in Durations

Timed == /\ TimerShape /\ Restartable
         /\ Ranked(heap, id) /\ HandlesCounted /\ ClosedTimersSilent

NotLate == \A t \in heap : due[t] >= 0

PaceShape ==
    /\ lag \in 0..MaxDuration
    /\ main \in {"setup", "check", "timers", "poll", "closing", "callback", "done"}
    /\ back \in {"setup", "timers", "poll", "closing"}
    /\ cur \in {{}} \cup {{t} : t \in Timer}
    /\ timeout \in -1..MaxDuration
    /\ slept \in 0..MaxDuration /\ waited \in 0..MaxDuration /\ waited <= slept
    /\ tries \in 0..PollTries

(* A timer is late only while run_timers is at work. *)
InTimers == main = "timers" \/ (main = "callback" /\ back = "timers")

Paced == /\ PaceShape
         /\ InTimers \/ NotLate
         /\ main = "poll" \/ timeout = 0
         /\ SleepBounded

IInv == Timed /\ Paced /\ stale \in BOOLEAN

-----------------------------------------------------------------------------
(* The ids when a timer enters or leaves the heap. *)
LEMMA HeapFinite ==
    ASSUME NEW h, h \subseteq Timer
    PROVE  /\ IsFiniteSet(h) /\ Cardinality(h) \in Nat
           /\ Cardinality(h) <= Cardinality(Timer)
           /\ Cardinality(Timer) \in Nat
           /\ \A t \in h : Cardinality(h \ {t}) = Cardinality(h) - 1
           /\ \A t : t \notin h => Cardinality(h \cup {t}) = Cardinality(h) + 1
<1>1. IsFiniteSet(Timer)
  BY TimerAssumption
<1>2. IsFiniteSet(h) /\ Cardinality(h) <= Cardinality(Timer)
  BY <1>1, FS_Subset
<1>3. Cardinality(h) \in Nat /\ Cardinality(Timer) \in Nat
  BY <1>1, <1>2, FS_CardinalityType
<1> QED
  BY <1>2, <1>3, FS_AddElement, FS_RemoveElement

LEMMA EnterRanked ==
    ASSUME NEW h, h \subseteq Timer, NEW ids \in [Timer -> 0..Cardinality(Timer)],
           Ranked(h, ids), NEW t \in Timer, t \notin h
    PROVE  LET after == [ids EXCEPT ![t] = Cardinality(h)]
           IN  /\ after \in [Timer -> 0..Cardinality(Timer)]
               /\ Ranked(h \cup {t}, after)
<1> DEFINE after == [ids EXCEPT ![t] = Cardinality(h)]
<1> DEFINE n == Cardinality(h)
<1>1. n \in Nat /\ n <= Cardinality(Timer) /\ Cardinality(Timer) \in Nat
      /\ Cardinality(h \cup {t}) = n + 1
  BY HeapFinite
<1>2. after \in [Timer -> 0..Cardinality(Timer)]
      /\ after[t] = n /\ \A u \in h : after[u] = ids[u] /\ ids[u] \in 0..(n - 1)
  BY <1>1 DEF Ranked
<1>3. \A k \in 0..(n - 1) : \E u \in h : ids[u] = k
  BY DEF Ranked
<1> HIDE DEF after, n
<1>4. {after[u] : u \in h \cup {t}} = 0..n
  <2>1. ASSUME NEW k \in 0..n PROVE \E u \in h \cup {t} : after[u] = k
    <3>1. CASE k = n
      BY <1>2, <3>1
    <3>2. CASE k # n
      BY <1>1, <1>2, <1>3, <3>2
    <3> QED
      BY <3>1, <3>2
  <2>2. \A u \in h \cup {t} : after[u] \in 0..n
    BY <1>1, <1>2
  <2> QED
    BY <2>1, <2>2
<1>5. \A u, v \in h \cup {t} : after[u] = after[v] => u = v
  BY <1>1, <1>2 DEF Ranked
<1> QED
  BY <1>1, <1>2, <1>4, <1>5 DEF Ranked, after, n

LEMMA LeaveRanked ==
    ASSUME heap \subseteq Timer, id \in [Timer -> 0..Cardinality(Timer)],
           Ranked(heap, id), NEW t \in heap
    PROVE  /\ IdsWithout(t) \in [Timer -> 0..Cardinality(Timer)]
           /\ Ranked(heap \ {t}, IdsWithout(t))
<1> DEFINE h == heap \ {t}
<1> DEFINE n == Cardinality(heap)
<1> DEFINE after == IdsWithout(t)
<1>1. n \in Nat /\ Cardinality(Timer) \in Nat /\ Cardinality(h) = n - 1
  BY HeapFinite
<1>2. /\ \A u \in heap : id[u] \in 0..(n - 1)
      /\ \A k \in 0..(n - 1) : \E u \in heap : id[u] = k
      /\ \A u \in h : id[u] # id[t]
  BY DEF Ranked
<1>3. \A u \in h : after[u] = IF id[u] > id[t] THEN id[u] - 1 ELSE id[u]
  BY DEF IdsWithout
<1>4. after \in [Timer -> 0..Cardinality(Timer)]
  <2>1. ASSUME NEW u \in Timer
        PROVE  (IF u \in heap \ {t} /\ id[u] > id[t] THEN id[u] - 1
                ELSE IF u = t THEN 0 ELSE id[u]) \in 0..Cardinality(Timer)
    BY <1>1
  <2> QED
    BY <2>1 DEF IdsWithout
<1> HIDE DEF after, n, h
<1>5. ASSUME NEW u \in h PROVE after[u] \in 0..(n - 2)
  <2>1. u \in heap /\ t \in heap
    BY DEF h
  <2> QED
    BY <1>1, <1>2, <1>3, <2>1
<1>6. ASSUME NEW k \in 0..(n - 2) PROVE \E u \in h : after[u] = k
  <2>1. id[t] \in 0..(n - 1)
    BY <1>2
  <2>2. CASE k < id[t]
    <3>1. PICK u \in heap : id[u] = k
      BY <1>1, <1>2, <2>1
    <3>2. u \in h
      BY <2>1, <2>2, <3>1 DEF h
    <3> QED
      BY <1>1, <1>3, <2>1, <2>2, <3>1, <3>2
  <2>3. CASE ~(k < id[t])
    <3>1. PICK u \in heap : id[u] = k + 1
      BY <1>1, <1>2, <2>1
    <3>2. u \in h
      BY <2>1, <2>3, <3>1 DEF h
    <3> QED
      BY <1>1, <1>3, <2>1, <2>3, <3>1, <3>2
  <2> QED
    BY <2>2, <2>3
<1>7. ASSUME NEW u \in h, NEW v \in h, after[u] = after[v] PROVE u = v
  <2>1. u \in heap /\ v \in heap /\ t \in heap
    BY DEF h
  <2>2. id[u] = id[v]
    BY <1>1, <1>2, <1>3, <1>7, <2>1
  <2> QED
    BY <2>1, <2>2 DEF Ranked
<1>8. {after[u] : u \in h} = 0..(n - 2)
  BY <1>5, <1>6
<1> QED
  BY <1>1, <1>4, <1>7, <1>8 DEF Ranked, after, n, h

(* The heap has a head, and no timer is due before it. *)
LEMMA HeadFacts ==
    ASSUME Timed, heap # {}
    PROVE  /\ HeapHead \in heap
           /\ \A u \in heap : due[HeapHead] <= due[u]
<1>0. /\ MaxDuration \in Nat
      /\ \A u \in heap : due[u] \in (-MaxDuration)..MaxDuration /\ id[u] \in Nat
      /\ \A u, v \in heap : id[u] = id[v] => u = v
  BY TimerAssumption, HeapFinite DEF Timed, TimerShape, Ranked
<1> DEFINE D == {due[u] + MaxDuration : u \in heap}
<1>1. D \subseteq Nat /\ D # {}
  BY <1>0
<1>2. PICK d \in D : \A y \in D : d <= y
  <2> HIDE DEF D
  <2> QED
    BY <1>1, LeastNat
<1> DEFINE First == {u \in heap : due[u] + MaxDuration = d}
<1> DEFINE I == {id[u] : u \in First}
<1>3. I \subseteq Nat /\ I # {}
  BY <1>0, <1>2
<1>4. PICK i \in I : \A y \in I : i <= y
  <2> HIDE DEF I
  <2> QED
    BY <1>3, LeastNat
<1>5. PICK t \in First : id[t] = i
  BY <1>4
<1>6. ASSUME NEW u \in heap \ {t} PROVE timer_cmp(t, u)
  <2>1. due[t] + MaxDuration <= due[u] + MaxDuration
    BY <1>2, <1>5
  <2>2. id[t] # id[u]
    BY <1>0, <1>5
  <2>3. CASE due[t] = due[u]
    <3>1. id[u] \in I
      BY <1>5, <2>3
    <3>2. id[t] <= id[u]
      <4> HIDE DEF I, First
      <4> QED
        BY <1>4, <1>5, <3>1
    <3>3. id[t] < id[u]
      BY <1>0, <1>5, <2>2, <3>2
    <3> QED
      BY <2>3, <3>3 DEF timer_cmp
  <2>4. CASE due[t] # due[u]
    BY <1>0, <1>5, <2>1, <2>4 DEF timer_cmp
  <2> QED
    BY <2>3, <2>4
<1>7. HeapHead \in heap /\ \A u \in heap \ {HeapHead} : timer_cmp(HeapHead, u)
  <2>1. t \in heap
    BY <1>5
  <2> QED
    BY <1>6, <2>1 DEF HeapHead
<1>8. ASSUME NEW u \in heap PROVE due[HeapHead] <= due[u]
  <2>1. CASE u = HeapHead
    BY <1>0, <2>1
  <2>2. CASE u # HeapHead
    BY <1>0, <1>7, <2>2 DEF timer_cmp
  <2> QED
    BY <2>1, <2>2
<1> QED
  BY <1>7, <1>8
-----------------------------------------------------------------------------
(* What every call of the timer API keeps. *)
LEMMA TimedInit == TimerInit /\ other = FALSE => Timed
<1> SUFFICES ASSUME TimerInit, other = FALSE PROVE Timed
  OBVIOUS
<1> USE DEF TimerInit
<1>1. Cardinality(heap) = 0 /\ Cardinality(Timer) \in Nat
  BY FS_EmptySet, HeapFinite
<1>2. TimerShape /\ Restartable
  <2>1. /\ due \in [Timer -> (-MaxDuration)..MaxDuration]
        /\ id \in [Timer -> 0..Cardinality(Timer)]
    BY <1>1, TimerAssumption
  <2>2. duration \in [Timer -> Durations \cup {-1}] /\ restart \in [Timer -> {0, 1}]
        /\ flags \in [Timer -> {0, HANDLE_ACTIVE, HANDLE_CLOSING}]
    OBVIOUS
  <2>3. closing_queue \in Seq(Timer)
    OBVIOUS
  <2> QED
    BY <2>1, <2>2, <2>3 DEF TimerShape, Restartable
<1>3. Ranked(heap, id)
  BY <1>1 DEF Ranked
<1>4. HandlesCounted
  BY <1>1, <1>3 DEF HandlesCounted, Ranked, Active, HANDLE_ACTIVE
<1>5. ClosedTimersSilent
  BY DEF ClosedTimersSilent, Closing
<1> QED
  BY <1>2, <1>3, <1>4, <1>5 DEF Timed

LEMMA InitKeeps ==
    ASSUME Timed, NEW t \in Timer, apc_timer_init(t), UNCHANGED other
    PROVE  Timed' /\ (NotLate => NotLate')
<1> USE DEF Timed, apc_timer_init
<1>1. t \notin heap /\ UNCHANGED <<heap, due, id, Closing>>
  BY DEF ClosedTimersSilent, Closing
<1>2. TimerShape' /\ Restartable'
  BY DEF TimerShape, Restartable
<1>3. Ranked(heap', id')
  BY <1>1
<1>4. HandlesCounted'
  BY <1>1 DEF HandlesCounted, TimerShape, Active, HANDLE_ACTIVE
<1>5. ClosedTimersSilent'
  BY <1>1 DEF ClosedTimersSilent, TimerShape
<1> QED
  BY <1>1, <1>2, <1>3, <1>4, <1>5 DEF NotLate

LEMMA StartKeeps ==
    ASSUME Timed, NEW t \in Timer, NEW d \in Durations, NEW r \in {0, 1},
           apc_timer_start(t, d, r), UNCHANGED other
    PROVE  Timed' /\ (NotLate => NotLate')
<1> USE DEF Timed, apc_timer_start, Enter
<1>1. t \notin heap /\ t \notin Closing /\ UNCHANGED Closing
  BY DEF HandlesCounted, ClosedTimersSilent, Closing
<1>2. Ranked(heap', id') /\ id' \in [Timer -> 0..Cardinality(Timer)]
  BY <1>1, EnterRanked DEF TimerShape
<1>3. Cardinality(heap') = Cardinality(heap) + 1 /\ Cardinality(heap) \in Nat
  BY <1>1, HeapFinite DEF TimerShape
<1>4. TimerShape' /\ Restartable'
  BY <1>2, TimerAssumption DEF TimerShape, Restartable, HANDLE_ACTIVE
<1>5. HandlesCounted'
  <2>1. \A u \in Timer : Active(u)' <=> u \in heap'
    BY DEF HandlesCounted, TimerShape, Active, HANDLE_ACTIVE
  <2>2. active_handles' = Cardinality(heap') + IF other' THEN 1 ELSE 0
    BY <1>3 DEF HandlesCounted
  <2> QED
    BY <1>2, <2>1, <2>2 DEF HandlesCounted, Ranked
<1>6. ClosedTimersSilent'
  BY <1>1 DEF ClosedTimersSilent, TimerShape
<1> QED
  BY <1>2, <1>4, <1>5, <1>6, TimerAssumption DEF NotLate, TimerShape

(* What Leave does to the heap, the ids and the counter. *)
LEMMA LeaveFacts ==
    ASSUME Timed, NEW t \in Timer, Leave(t)
    PROVE  /\ heap' = heap \ {t} /\ Ranked(heap', id')
           /\ id' \in [Timer -> 0..Cardinality(Timer)]
           /\ due' \in [Timer -> (-MaxDuration)..MaxDuration]
           /\ active_handles' \in Nat
           /\ active_handles' = Cardinality(heap') + IF other THEN 1 ELSE 0
           /\ NotLate => NotLate'
<1> USE DEF Timed, Leave
<1> DEFINE k == IF other THEN 1 ELSE 0
<1>0. k \in Nat
  OBVIOUS
<1>1. Cardinality(heap) \in Nat /\ Cardinality(heap \ {t}) \in Nat
      /\ (t \in heap => Cardinality(heap \ {t}) = Cardinality(heap) - 1)
  BY HeapFinite DEF TimerShape
<1>2. due' \in [Timer -> (-MaxDuration)..MaxDuration] /\ (NotLate => NotLate')
  BY TimerAssumption DEF TimerShape, NotLate
<1>3. CASE Active(t)
  <2>1. t \in heap
    BY <1>3 DEF HandlesCounted
  <2>2. heap' = heap \ {t} /\ id' = IdsWithout(t) /\ active_handles' = active_handles - 1
    BY <1>3
  <2>3. Ranked(heap', id') /\ id' \in [Timer -> 0..Cardinality(Timer)]
    BY <2>1, <2>2, LeaveRanked DEF TimerShape
  <2>4. active_handles = Cardinality(heap) + k
    BY DEF HandlesCounted
  <2>5. active_handles' \in Nat /\ active_handles' = Cardinality(heap') + k
    <3> HIDE DEF k, Timed, Leave
    <3> QED
      BY <1>0, <1>1, <2>1, <2>2, <2>4
  <2> QED
    BY <1>2, <2>2, <2>3, <2>5
<1>4. CASE ~Active(t)
  <2>1. heap \ {t} = heap
    BY <1>4 DEF HandlesCounted
  <2>2. heap' = heap /\ id' = id /\ active_handles' = active_handles
    BY <1>4, <2>1
  <2>3. active_handles = Cardinality(heap) + k /\ active_handles \in Nat
    BY DEF HandlesCounted, TimerShape
  <2>4. Ranked(heap', id') /\ id' \in [Timer -> 0..Cardinality(Timer)]
    BY <2>2 DEF TimerShape
  <2> QED
    BY <1>2, <2>1, <2>2, <2>3, <2>4
<1> QED
  BY <1>3, <1>4

LEMMA StopKeeps ==
    ASSUME Timed, NEW t \in Timer, apc_timer_stop(t), UNCHANGED other
    PROVE  Timed' /\ (NotLate => NotLate')
<1> USE DEF Timed, apc_timer_stop
<1>1. UNCHANGED Closing
  BY DEF Closing
<1>2. /\ heap' = heap \ {t} /\ Ranked(heap', id')
      /\ id' \in [Timer -> 0..Cardinality(Timer)]
      /\ due' \in [Timer -> (-MaxDuration)..MaxDuration]
      /\ active_handles' \in Nat
      /\ active_handles' = Cardinality(heap') + IF other THEN 1 ELSE 0
      /\ NotLate => NotLate'
  BY LeaveFacts
<1>3. TimerShape' /\ Restartable'
  BY <1>2 DEF TimerShape, Restartable
<1>4. HandlesCounted'
  <2>1. \A u \in Timer : Active(u)' <=> u \in heap'
    BY <1>2 DEF HandlesCounted, TimerShape, Active, HANDLE_ACTIVE
  <2> QED
    BY <1>2, <2>1 DEF HandlesCounted, Ranked
<1>5. ClosedTimersSilent'
  BY <1>1, <1>2 DEF ClosedTimersSilent, TimerShape
<1> QED
  BY <1>2, <1>3, <1>4, <1>5

(* A timer goes into the heap again, or for the first time. *)
LEMMA ReenterFacts ==
    ASSUME Timed, NEW t \in Timer, NEW d \in (-MaxDuration)..MaxDuration,
           Enter(t, d, heap \ {t}, IF Active(t) THEN IdsWithout(t) ELSE id)
    PROVE  /\ heap' = heap \cup {t} /\ Ranked(heap', id')
           /\ id' \in [Timer -> 0..Cardinality(Timer)]
           /\ due' \in [Timer -> (-MaxDuration)..MaxDuration]
           /\ flags' = [flags EXCEPT ![t] = HANDLE_ACTIVE]
           /\ Cardinality(heap') = IF Active(t) THEN Cardinality(heap)
                                                ELSE Cardinality(heap) + 1
           /\ d >= 0 /\ NotLate => NotLate'
<1> USE DEF Timed, Enter
<1> DEFINE h == heap \ {t}
<1> DEFINE ids == IF Active(t) THEN IdsWithout(t) ELSE id
<1>1. h \subseteq Timer /\ t \notin h /\ heap' = h \cup {t} /\ heap' = heap \cup {t}
      /\ id' = [ids EXCEPT ![t] = Cardinality(h)]
  BY DEF TimerShape
<1>2. Active(t) <=> t \in heap
  BY DEF HandlesCounted
<1>3. Ranked(h, ids) /\ ids \in [Timer -> 0..Cardinality(Timer)]
  <2>1. CASE Active(t)
    BY <1>2, <2>1, LeaveRanked DEF TimerShape
  <2>2. CASE ~Active(t)
    <3>1. h = heap
      BY <1>2, <2>2
    <3> QED
      BY <2>2, <3>1 DEF TimerShape
  <2> QED
    BY <2>1, <2>2
<1>4. Cardinality(heap) \in Nat /\ Cardinality(h) \in Nat
      /\ Cardinality(h \cup {t}) = Cardinality(h) + 1
      /\ Cardinality(h) = IF t \in heap THEN Cardinality(heap) - 1 ELSE Cardinality(heap)
  <2>1. Cardinality(h) = IF t \in heap THEN Cardinality(heap) - 1 ELSE Cardinality(heap)
    <3>1. CASE t \in heap
      BY <3>1, HeapFinite DEF TimerShape
    <3>2. CASE t \notin heap
      <4>1. h = heap
        BY <3>2
      <4> QED
        BY <3>2, <4>1
    <3> QED
      BY <3>1, <3>2
  <2>2. Cardinality(heap) \in Nat /\ Cardinality(h) \in Nat
        /\ Cardinality(h \cup {t}) = Cardinality(h) + 1
    BY <1>1, HeapFinite DEF TimerShape
  <2> QED
    BY <2>1, <2>2
<1>5. Ranked(heap', id') /\ id' \in [Timer -> 0..Cardinality(Timer)]
  <2> HIDE DEF h, ids
  <2>1. /\ [ids EXCEPT ![t] = Cardinality(h)] \in [Timer -> 0..Cardinality(Timer)]
        /\ Ranked(h \cup {t}, [ids EXCEPT ![t] = Cardinality(h)])
    <3> HIDE DEF Enter, Timed
    <3> QED
      BY <1>1, <1>3, EnterRanked
  <2> QED
    BY <1>1, <2>1
<1>6. due' \in [Timer -> (-MaxDuration)..MaxDuration]
  BY DEF TimerShape
<1>7. d >= 0 /\ NotLate => NotLate'
  BY DEF TimerShape, NotLate
<1> QED
  BY <1>1, <1>2, <1>4, <1>5, <1>6, <1>7

LEMMA RestartKeeps ==
    ASSUME Timed, NEW t \in Timer, apc_timer_restart(t), UNCHANGED other
    PROVE  Timed' /\ (NotLate => NotLate')
<1> USE DEF Timed, apc_timer_restart
<1>1. t \notin Closing /\ UNCHANGED Closing
  BY DEF ClosedTimersSilent, Closing
<1>2. duration[t] \in (-MaxDuration)..MaxDuration /\ duration[t] >= 0
  <2>1. duration[t] \in 0..MaxDuration
    BY TimerAssumption DEF Restartable
  <2> QED
    BY <2>1, TimerAssumption
<1>3. /\ heap' = heap \cup {t} /\ Ranked(heap', id')
      /\ id' \in [Timer -> 0..Cardinality(Timer)]
      /\ due' \in [Timer -> (-MaxDuration)..MaxDuration]
      /\ flags' = [flags EXCEPT ![t] = HANDLE_ACTIVE]
      /\ Cardinality(heap') = IF Active(t) THEN Cardinality(heap)
                                           ELSE Cardinality(heap) + 1
      /\ NotLate => NotLate'
  BY <1>2, ReenterFacts
<1>4. TimerShape' /\ Restartable'
  BY <1>3 DEF TimerShape, Restartable, HANDLE_ACTIVE
<1>5. HandlesCounted'
  <2>1. \A u \in Timer : Active(u)' <=> u \in heap'
    BY <1>3 DEF HandlesCounted, TimerShape, Active, HANDLE_ACTIVE
  <2>2. active_handles' = Cardinality(heap') + IF other' THEN 1 ELSE 0
    <3>1. Cardinality(heap) \in Nat
      BY HeapFinite DEF TimerShape
    <3> QED
      BY <1>3, <3>1 DEF HandlesCounted
  <2> QED
    BY <1>3, <2>1, <2>2 DEF HandlesCounted, Ranked
<1>6. ClosedTimersSilent'
  BY <1>1, <1>3 DEF ClosedTimersSilent, TimerShape
<1> QED
  BY <1>3, <1>4, <1>5, <1>6

LEMMA CloseKeeps ==
    ASSUME Timed, NEW t \in Timer, NEW cb \in BOOLEAN, apc_close(t, cb), UNCHANGED other
    PROVE  Timed' /\ (NotLate => NotLate')
<1> USE DEF Timed, apc_close
<1>1. /\ heap' = heap \ {t} /\ Ranked(heap', id')
      /\ id' \in [Timer -> 0..Cardinality(Timer)]
      /\ due' \in [Timer -> (-MaxDuration)..MaxDuration]
      /\ active_handles' \in Nat
      /\ active_handles' = Cardinality(heap') + IF other THEN 1 ELSE 0
      /\ NotLate => NotLate'
  BY LeaveFacts
<1>2. closing_queue' \in Seq(Timer)
  BY DEF TimerShape
<1>3. TimerShape' /\ Restartable'
  BY <1>1, <1>2 DEF TimerShape, Restartable, HANDLE_CLOSING
<1>4. HandlesCounted'
  <2>1. \A u \in Timer : Active(u)' <=> u \in heap'
    BY <1>1 DEF HandlesCounted, TimerShape, Active, HANDLE_ACTIVE, HANDLE_CLOSING
  <2> QED
    BY <1>1, <2>1 DEF HandlesCounted, Ranked
<1>5. ClosedTimersSilent'
  <2>1. t \notin Closing
    BY DEF ClosedTimersSilent
  <2>2. /\ Closing' \subseteq Closing \cup {t}
        /\ \A i, j \in DOMAIN closing_queue' :
              closing_queue'[i] = closing_queue'[j] => i = j
    <3>1. CASE ~cb
      BY <3>1 DEF Closing, ClosedTimersSilent
    <3>2. CASE cb
      <4> DEFINE n == Len(closing_queue)
      <4>1. /\ n \in Nat /\ DOMAIN closing_queue = 1..n
            /\ DOMAIN closing_queue' = 1..(n + 1)
            /\ closing_queue'[n + 1] = t
            /\ \A i \in 1..n : closing_queue'[i] = closing_queue[i]
        BY <3>2 DEF TimerShape
      <4> HIDE DEF n
      <4>2. \A i \in 1..(n + 1) : i \in 1..n \/ i = n + 1
        BY <4>1
      <4>3. \A i \in 1..n : closing_queue[i] # t
        BY <2>1, <4>1 DEF Closing
      <4>4. \A i, j \in 1..(n + 1) : closing_queue'[i] = closing_queue'[j] => i = j
        BY <4>1, <4>2, <4>3 DEF ClosedTimersSilent
      <4>5. Closing' \subseteq Closing \cup {t}
        BY <4>1, <4>2 DEF Closing
      <4> QED
        BY <4>1, <4>4, <4>5
    <3> QED
      BY <3>1, <3>2
  <2>3. heap' \subseteq inited' \cap has_cb'
    BY <1>1 DEF ClosedTimersSilent
  <2>4. \A u \in Closing' : u \notin inited' /\ flags'[u] = HANDLE_CLOSING
    <3>1. Closing \subseteq Timer
      BY DEF Closing, TimerShape
    <3> QED
      BY <2>2, <3>1 DEF ClosedTimersSilent, TimerShape
  <2> QED
    BY <2>2, <2>3, <2>4 DEF ClosedTimersSilent
<1> QED
  BY <1>1, <1>3, <1>4, <1>5

LEMMA OtherKeeps ==
    ASSUME Timed, OtherHandle
    PROVE  Timed' /\ (NotLate => NotLate')
<1> USE DEF Timed, OtherHandle
<1>1. Cardinality(heap) \in Nat
  BY HeapFinite DEF TimerShape
<1>2. TimerShape' /\ Restartable'
  <2>1. active_handles' \in Nat
    BY <1>1 DEF TimerShape, HandlesCounted
  <2> QED
    BY <2>1 DEF TimerShape, Restartable
<1>3. HandlesCounted'
  <2>1. active_handles' = Cardinality(heap') + IF other' THEN 1 ELSE 0
    <3> DEFINE n == Cardinality(heap)
    <3>1. CASE other
      <4>1. ~other' /\ Cardinality(heap') = n
        BY <3>1
      <4>2. active_handles = n + 1 /\ active_handles' = active_handles - 1
        BY <3>1 DEF HandlesCounted
      <4> HIDE DEF n, OtherHandle
      <4> QED
        BY <1>1, <4>1, <4>2 DEF n
    <3>2. CASE ~other
      <4>1. other' /\ Cardinality(heap') = n
        BY <3>2
      <4>2. active_handles = n + 0 /\ active_handles' = active_handles + 1
        BY <3>2 DEF HandlesCounted
      <4> HIDE DEF n, OtherHandle
      <4> QED
        BY <1>1, <4>1, <4>2 DEF n
    <3> QED
      BY <3>1, <3>2
  <2> QED
    BY <2>1 DEF HandlesCounted, Active
<1>4. ClosedTimersSilent' /\ Ranked(heap', id')
  BY DEF ClosedTimersSilent, Closing
<1> QED
  BY <1>2, <1>3, <1>4 DEF NotLate
-----------------------------------------------------------------------------
(* What the steps of the loop's thread do to the timers. *)
LEMMA CheckKeeps ==
    ASSUME Timed, PaceShape, NotLate, LoopCheck
    PROVE  Timed'
<1> USE DEF Timed, LoopCheck
<1>1. due' \in [Timer -> (-MaxDuration)..MaxDuration]
  <2>1. CASE main' = "timers"
    <3>1. \A t \in heap : due[t] - lag \in (-MaxDuration)..MaxDuration
      <4>1. /\ MaxDuration \in Nat /\ lag \in 0..MaxDuration
            /\ \A t \in heap : due[t] \in (-MaxDuration)..MaxDuration /\ due[t] >= 0
        BY TimerAssumption DEF PaceShape, TimerShape, NotLate
      <4> HIDE DEF Timed, LoopCheck
      <4> QED
        BY <4>1
    <3>2. due' = [t \in Timer |-> IF t \in heap THEN due[t] - lag ELSE 0]
      BY <2>1
    <3> QED
      BY <3>1, <3>2, TimerAssumption
  <2>2. CASE main' # "timers"
    BY <2>2 DEF TimerShape
  <2> QED
    BY <2>1, <2>2
<1>2. TimerShape' /\ Restartable'
  BY <1>1 DEF TimerShape, Restartable
<1>3. HandlesCounted' /\ Ranked(heap', id')
  BY DEF HandlesCounted, Active
<1>4. ClosedTimersSilent'
  BY DEF ClosedTimersSilent, Closing
<1> QED
  BY <1>2, <1>3, <1>4

LEMMA FireKeeps ==
    ASSUME Timed, FireTimer
    PROVE  Timed' /\ \E t \in Timer : cur' = {t}
<1> DEFINE t == HeapHead
<1>1. t \in heap /\ t \in Timer /\ heap # {}
  BY HeadFacts DEF FireTimer, IsDue, Timed, TimerShape
<1>2. Active(t) /\ duration[t] \in Durations /\ t \notin Closing
  BY <1>1 DEF Timed, HandlesCounted, Restartable, ClosedTimersSilent
<1>3. cur' = {t} /\ UNCHANGED <<inited, duration, restart, has_cb, closing_queue,
                                other, Closing>>
  BY DEF FireTimer, Callback, Closing
<1>4. CASE restart[t] = 1
  <2>1. Enter(t, duration[t], heap \ {t}, IF Active(t) THEN IdsWithout(t) ELSE id)
        /\ UNCHANGED active_handles
    BY <1>2, <1>4 DEF FireTimer
  <2>2. duration[t] \in (-MaxDuration)..MaxDuration
    <3>1. duration[t] \in 0..MaxDuration
      BY <1>2, TimerAssumption
    <3> QED
      BY <3>1, TimerAssumption
  <2> HIDE DEF t
  <2>3. /\ heap' = heap \cup {t} /\ Ranked(heap', id')
        /\ id' \in [Timer -> 0..Cardinality(Timer)]
        /\ due' \in [Timer -> (-MaxDuration)..MaxDuration]
        /\ flags' = [flags EXCEPT ![t] = HANDLE_ACTIVE]
        /\ Cardinality(heap') = Cardinality(heap)
    BY <1>1, <1>2, <2>1, <2>2, ReenterFacts
  <2>4. heap' = heap
    BY <1>1, <2>3
  <2>5. TimerShape' /\ Restartable'
    BY <1>3, <2>1, <2>3, <2>4 DEF Timed, TimerShape, Restartable, HANDLE_ACTIVE
  <2>6. HandlesCounted'
    <3>1. \A u \in Timer : Active(u)' <=> u \in heap'
      BY <1>1, <2>3, <2>4 DEF Timed, HandlesCounted, TimerShape, Active
    <3>2. active_handles' = Cardinality(heap') + IF other' THEN 1 ELSE 0
      BY <1>3, <2>1, <2>4 DEF Timed, HandlesCounted
    <3> QED
      BY <2>3, <3>1, <3>2 DEF HandlesCounted, Ranked
  <2>7. ClosedTimersSilent'
    BY <1>2, <1>3, <2>3, <2>4 DEF Timed, ClosedTimersSilent, TimerShape
  <2> QED
    BY <1>1, <1>3, <2>3, <2>5, <2>6, <2>7 DEF Timed
<1>5. CASE restart[t] # 1
  <2>1. Leave(t) /\ flags' = [flags EXCEPT ![t] = 0]
    BY <1>5 DEF FireTimer
  <2> HIDE DEF t
  <2>2. /\ heap' = heap \ {t} /\ Ranked(heap', id')
        /\ id' \in [Timer -> 0..Cardinality(Timer)]
        /\ due' \in [Timer -> (-MaxDuration)..MaxDuration]
        /\ active_handles' \in Nat
        /\ active_handles' = Cardinality(heap') + IF other THEN 1 ELSE 0
    BY <1>1, <2>1, LeaveFacts
  <2>3. TimerShape' /\ Restartable'
    BY <1>3, <2>1, <2>2 DEF Timed, TimerShape, Restartable
  <2>4. HandlesCounted'
    <3>1. \A u \in Timer : Active(u)' <=> u \in heap'
      BY <1>1, <2>1, <2>2 DEF Timed, HandlesCounted, TimerShape, Active, HANDLE_ACTIVE
    <3> QED
      BY <1>3, <2>2, <3>1 DEF HandlesCounted, Ranked
  <2>5. ClosedTimersSilent'
    BY <1>2, <1>3, <2>1, <2>2 DEF Timed, ClosedTimersSilent, TimerShape
  <2> QED
    BY <1>1, <1>3, <2>2, <2>3, <2>4, <2>5 DEF Timed
<1> QED
  BY <1>4, <1>5

LEMMA ClosingKeeps ==
    ASSUME Timed, RunClosing
    PROVE  Timed' /\ \E t \in Timer : cur' = {t}
<1> USE DEF Timed
<1> DEFINE t == Head(closing_queue)
<1> DEFINE n == Len(closing_queue)
<1>1. /\ n \in Nat /\ n >= 1 /\ DOMAIN closing_queue = 1..n
      /\ t = closing_queue[1] /\ t \in Timer
      /\ DOMAIN Tail(closing_queue) = 1..(n - 1)
      /\ \A i \in 1..(n - 1) : Tail(closing_queue)[i] = closing_queue[i + 1]
      /\ Tail(closing_queue) \in Seq(Timer)
  BY DEF TimerShape, RunClosing
<1>2. /\ closing_queue' = Tail(closing_queue) /\ flags' = [flags EXCEPT ![t] = 0]
      /\ cur' = {t}
      /\ UNCHANGED <<inited, duration, restart, has_cb, due, id, heap,
                     active_handles, other>>
  BY DEF RunClosing, Callback
<1> HIDE DEF t, n
<1>3. t \in Closing /\ flags[t] = HANDLE_CLOSING /\ t \notin heap
  <2>1. t \in Closing
    BY <1>1 DEF Closing
  <2> QED
    BY <1>1, <2>1 DEF ClosedTimersSilent
<1>4. TimerShape' /\ Restartable'
  BY <1>1, <1>2 DEF TimerShape, Restartable
<1>5. HandlesCounted' /\ Ranked(heap', id')
  <2>1. \A u \in Timer : Active(u)' <=> u \in heap'
    BY <1>1, <1>2, <1>3 DEF HandlesCounted, TimerShape, Active, HANDLE_ACTIVE
  <2> QED
    BY <1>2, <2>1 DEF HandlesCounted
<1>6. ClosedTimersSilent'
  <2>1. /\ \A i, j \in 1..(n - 1) : closing_queue'[i] = closing_queue'[j] => i = j
        /\ \A i \in 1..(n - 1) : closing_queue'[i] \in Closing /\ closing_queue'[i] # t
    <3>1. \A i \in 1..(n - 1) : i + 1 \in 1..n /\ i + 1 # 1
      BY <1>1
    <3>2. 1 \in 1..n
      BY <1>1
    <3>3. \A i, j \in 1..n : closing_queue[i] = closing_queue[j] => i = j
      BY <1>1 DEF ClosedTimersSilent
    <3>4. \A i \in 1..(n - 1) : closing_queue[i + 1] \in Closing /\ closing_queue[i + 1] # t
      BY <1>1, <3>1, <3>2, <3>3 DEF Closing
    <3>5. \A i, j \in 1..(n - 1) : closing_queue[i + 1] = closing_queue[j + 1] => i = j
      BY <1>1, <3>1, <3>3
    <3> QED
      BY <1>1, <1>2, <3>4, <3>5
  <2>2. \A u \in Closing' : u \in Closing /\ u # t
    BY <1>1, <1>2, <2>1 DEF Closing
  <2>3. Closing \subseteq Timer
    BY DEF Closing, TimerShape
  <2> QED
    BY <1>1, <1>2, <2>1, <2>2, <2>3 DEF ClosedTimersSilent, TimerShape
<1> QED
  BY <1>1, <1>2, <1>4, <1>5, <1>6

(* The steps that leave the timers alone. *)
LEMMA UntouchedKeeps ==
    ASSUME Timed, UNCHANGED <<timerVars, other>>
    PROVE  Timed' /\ (NotLate => NotLate') /\ UNCHANGED HeapHead
<1> USE DEF timerVars
<1>1. TimerShape' /\ Restartable'
  BY DEF Timed, TimerShape, Restartable
<1>2. HandlesCounted' /\ Ranked(heap', id')
  BY DEF Timed, HandlesCounted, Active
<1>3. ClosedTimersSilent'
  BY DEF Timed, ClosedTimersSilent, Closing
<1>4. UNCHANGED HeapHead
  BY DEF HeapHead, timer_cmp
<1> QED
  BY <1>1, <1>2, <1>3, <1>4 DEF Timed, NotLate
-----------------------------------------------------------------------------
(* Where the loop's thread is, and how long it waits there. *)

LEMMA EndsInTime ==
    ASSUME NEW s \in Int, NEW w \in Int, NEW m \in Int, NEW d \in Int, m <= d
    PROVE  \A s2, w2, m2 \in Int :
              s2 - w2 + m2 <= m \/ (m2 = m /\ s2 - w2 <= s - w /\ s - w + m <= d)
                  => s2 - w2 + m2 <= d
OBVIOUS

(* A wait goes on with what it has, or with less, or with nothing, and it  *)
(* ends no later than before or than the first wait of the poll would have *)
(* ended, if it does not follow a batch of dead events.                    *)
LEMMA WaitGoesOn ==
    ASSUME Timed, PaceShape, SleepBounded, main = "poll", UNCHANGED <<timerVars, other>>,
           timeout' \in {0, timeout} \/ (timeout # -1 /\ timeout' \in 1..timeout),
           PaceShape',
           \/ stale'
           \/ slept' - waited' + timeout' <= timeout
           \/ ~stale /\ timeout' = timeout /\ slept' - waited' <= slept - waited
    PROVE  SleepBounded'
<1> SUFFICES ASSUME main' = "poll", timeout' # 0
             PROVE  /\ closing_queue = <<>> /\ active_handles > 0
                    /\ IF heap = {} THEN timeout' = -1 /\ other
                       ELSE /\ timeout' \in 1..due[HeapHead]
                            /\ ~stale' => slept' - waited' + timeout' <= due[HeapHead]
  BY UntouchedKeeps DEF SleepBounded, timerVars
<1>1. timeout # 0
  OBVIOUS
<1>2. /\ closing_queue = <<>> /\ active_handles > 0
      /\ heap = {} => timeout = -1 /\ other
      /\ heap # {} => /\ timeout \in 1..due[HeapHead]
                      /\ ~stale => slept - waited + timeout <= due[HeapHead]
  BY <1>1 DEF SleepBounded
<1>3. CASE heap = {}
  BY <1>2, <1>3
<1>4. CASE heap # {}
  <2>1. due[HeapHead] \in Int
    BY <1>4, HeadFacts, TimerAssumption DEF Timed, TimerShape
  <2>2. /\ timeout \in Int /\ slept \in Int /\ waited \in Int
        /\ timeout' \in Int /\ slept' \in Int /\ waited' \in Int
    BY TimerAssumption DEF PaceShape
  <2>3. timeout' \in 1..due[HeapHead]
    BY <1>2, <1>4, <2>1
  <2>4. timeout <= due[HeapHead]
    BY <1>2, <1>4, <2>1
  <2>5. ASSUME \/ slept' - waited' + timeout' <= timeout
               \/ /\ timeout' = timeout /\ slept' - waited' <= slept - waited
                  /\ slept - waited + timeout <= due[HeapHead]
        PROVE  slept' - waited' + timeout' <= due[HeapHead]
    <3>1. \A s2, w2, m2 \in Int :
             \/ s2 - w2 + m2 <= timeout
             \/ /\ m2 = timeout /\ s2 - w2 <= slept - waited
                /\ slept - waited + timeout <= due[HeapHead]
             => s2 - w2 + m2 <= due[HeapHead]
      BY <2>1, <2>2, <2>4, EndsInTime
    <3> QED
      BY <2>2, <2>5, <3>1, Zenon
  <2>6. ~stale' => slept' - waited' + timeout' <= due[HeapHead]
    BY <1>2, <1>4, <2>5, Zenon
  <2> QED
    BY <1>2, <1>4, <2>3, <2>6, Zenon
<1> QED
  BY <1>3, <1>4

LEMMA PollStartKeeps ==
    ASSUME Timed, PaceShape, PollStart
    PROVE  NotLate' /\ SleepBounded' /\ timeout' \in -1..MaxDuration
<1>1. /\ UNCHANGED <<timerVars, other>> /\ timeout' = get_timeout /\ ~IsDue
      /\ main' = "poll" /\ slept' = 0 /\ waited' = 0
  BY DEF PollStart
<1>2. UNCHANGED <<heap, due, closing_queue, active_handles, HeapHead>>
  BY <1>1, UntouchedKeeps DEF timerVars
<1>3. CASE heap = {}
  <2>1. NotLate'
    BY <1>2, <1>3 DEF NotLate
  <2>2. get_timeout \in {0, -1}
    BY <1>3 DEF get_timeout
  <2>3. get_timeout # 0 => closing_queue = <<>> /\ active_handles > 0
    BY DEF get_timeout, apc_loop_active_
  <2>4. active_handles > 0 => other
    BY <1>3, FS_EmptySet DEF Timed, HandlesCounted
  <2>5. SleepBounded'
    BY <1>1, <1>2, <1>3, <2>2, <2>3, <2>4 DEF SleepBounded
  <2> QED
    BY <1>1, <2>1, <2>2, <2>5, TimerAssumption
<1>4. CASE heap # {}
  <2>1. HeapHead \in heap /\ \A u \in heap : due[HeapHead] <= due[u]
    BY <1>4, HeadFacts
  <2>2. /\ \A u \in heap : due[u] \in (-MaxDuration)..MaxDuration
        /\ MaxDuration \in Nat /\ MaxWait \in Nat \ {0}
    BY TimerAssumption, PollAssumption DEF Timed, TimerShape
  <2>3. due[HeapHead] > 0 /\ due[HeapHead] \in 1..MaxDuration
    BY <1>1, <1>4, <2>1, <2>2 DEF IsDue
  <2>4. NotLate'
    BY <1>2, <2>1, <2>2, <2>3 DEF NotLate
  <2>5. get_timeout \in 0..due[HeapHead]
    BY <1>1, <1>4, <2>2, <2>3 DEF get_timeout
  <2>6. get_timeout # 0 => closing_queue = <<>> /\ active_handles > 0
    BY DEF get_timeout, apc_loop_active_
  <2>7. SleepBounded'
    <3>1. get_timeout # 0 => get_timeout \in 1..due[HeapHead] /\ 0 - 0 + get_timeout <= due[HeapHead]
      BY <2>3, <2>5
    <3> QED
      BY <1>1, <1>2, <1>4, <2>6, <3>1 DEF SleepBounded
  <2> QED
    BY <1>1, <2>2, <2>3, <2>4, <2>5, <2>7
<1> QED
  BY <1>3, <1>4

LEMMA IInvInit == Init => IInv
<1> SUFFICES ASSUME Init PROVE IInv
  OBVIOUS
<1>1. Timed
  BY TimedInit DEF Init
<1>2. PaceShape
  BY TimerAssumption, PollAssumption DEF Init, PaceShape
<1>3. NotLate /\ SleepBounded
  BY DEF Init, TimerInit, NotLate, SleepBounded
<1> QED
  BY <1>1, <1>2, <1>3 DEF IInv, Paced, Init

LEMMA StaleStep == stale \in BOOLEAN /\ [Next]_vars => stale' \in BOOLEAN
<1> SUFFICES ASSUME stale \in BOOLEAN, [Next]_vars PROVE stale' \in BOOLEAN
  OBVIOUS
<1>1. CASE UNCHANGED stale
  BY <1>1
<1>2. CASE stale' \in {FALSE, TRUE}
  BY <1>2
<1> QED
  BY <1>1, <1>2, Zenon
  DEF Next, Tick, User, UserTimer, UserOther, Loop, LoopStart, LoopCheck, FireTimer, PollStart,
      PollTimesOut, PollReturns, PollInterrupted, PollStale, PollAgain, PollWoken, PollEvent,
      RunClosing, ClosingDone, CallbackReturns, Callback, vars, pollVars

LEMMA IInvStep == IInv /\ [Next]_vars => IInv'
<1> SUFFICES ASSUME IInv, [Next]_vars PROVE IInv'
  OBVIOUS
<1>0. Timed /\ Paced /\ PaceShape /\ stale' \in BOOLEAN
  BY StaleStep DEF IInv, Paced
<1>a. MaxDuration \in Nat /\ PollTries \in Nat \ {0}
  BY TimerAssumption, PollAssumption
<1> USE DEF PaceShape
<1>1. CASE Tick
  <2>1. Timed' /\ (NotLate => NotLate')
    BY <1>0, <1>1, UntouchedKeeps DEF Tick
  <2>2. PaceShape'
    BY <1>0, <1>a, <1>1 DEF Tick, Upto
  <2>3. SleepBounded'
    <3>1. CASE main = "poll"
      <4>1. slept' - waited' <= slept - waited
        BY <1>0, <1>a, <1>1, <3>1 DEF Tick, Upto
      <4>2. /\ UNCHANGED <<timerVars, other, timeout, stale>>
        BY <1>1 DEF Tick
      <4>3. stale' \/ (~stale /\ timeout' = timeout)
        BY <1>0, <4>2
      <4> QED
        BY <1>0, <2>2, <3>1, <4>1, <4>2, <4>3, WaitGoesOn DEF Paced
    <3>2. CASE main # "poll"
      BY <1>1, <3>2 DEF Tick, SleepBounded
    <3> QED
      BY <3>1, <3>2
  <2> QED
    BY <1>0, <1>1, <2>1, <2>2, <2>3 DEF IInv, Paced, Tick, InTimers
<1>2. CASE User
  <2>1. Timed' /\ (NotLate => NotLate')
    <3>1. CASE UserOther
      BY <1>0, <3>1, OtherKeeps DEF UserOther
    <3>2. CASE UserTimer
      <4>1. PICK t \in Timer : \/ UserInit(t) \/ UserStart(t) \/ UserStop(t)
                               \/ UserRestart(t) \/ UserClose(t)
        BY <3>2 DEF UserTimer
      <4>2. UNCHANGED other
        BY <3>2 DEF UserTimer
      <4>3. CASE UserInit(t)
        BY <1>0, <4>2, <4>3, InitKeeps DEF UserInit
      <4>4. CASE UserStart(t)
        BY <1>0, <4>2, <4>4, StartKeeps DEF UserStart, StartSome
      <4>5. CASE UserStop(t)
        BY <1>0, <4>2, <4>5, StopKeeps DEF UserStop
      <4>6. CASE UserRestart(t)
        BY <1>0, <4>2, <4>6, RestartKeeps DEF UserRestart
      <4>7. CASE UserClose(t)
        BY <1>0, <4>2, <4>7, CloseKeeps DEF UserClose, CloseSome
      <4> QED
        BY <4>1, <4>3, <4>4, <4>5, <4>6, <4>7
    <3> QED
      BY <1>2, <3>1, <3>2 DEF User
  <2>2. InUserCode /\ UNCHANGED <<lag, main, back, cur, pollVars>>
    BY <1>2 DEF User, UserOther, UserTimer, UserInit, UserStart, UserStop, UserRestart, UserClose
  <2>3. main # "poll" /\ main' # "poll"
    BY <2>2 DEF InUserCode
  <2> QED
    BY <1>0, <2>1, <2>2, <2>3 DEF IInv, Paced, InTimers, SleepBounded, pollVars
<1>3. CASE LoopStart
  <2>1. Timed' /\ (NotLate => NotLate')
    BY <1>0, <1>3, UntouchedKeeps DEF LoopStart
  <2> QED
    BY <1>0, <1>3, <2>1 DEF IInv, Paced, LoopStart, InTimers, SleepBounded, pollVars
<1>4. CASE LoopCheck
  <2>1. NotLate
    BY <1>0, <1>4 DEF LoopCheck, Paced, InTimers
  <2>2. Timed'
    BY <1>0, <1>4, <2>1, CheckKeeps
  <2>3. main' = "done" => NotLate'
    BY <1>4, <2>1 DEF LoopCheck, NotLate
  <2> QED
    BY <1>0, <1>a, <1>4, <2>2, <2>3 DEF IInv, Paced, LoopCheck, InTimers, SleepBounded, pollVars
<1>5. CASE FireTimer
  <2>1. Timed' /\ \E t \in Timer : cur' = {t}
    BY <1>0, <1>5, FireKeeps
  <2>2. main = "timers" /\ main' = "callback" /\ back' = "timers"
        /\ UNCHANGED <<lag, pollVars>>
    BY <1>5 DEF FireTimer, Callback
  <2> QED
    BY <1>0, <2>1, <2>2 DEF IInv, Paced, InTimers, SleepBounded, pollVars
<1>6. CASE PollStart
  <2>1. Timed'
    BY <1>0, <1>6, UntouchedKeeps DEF PollStart
  <2>2. NotLate' /\ SleepBounded' /\ timeout' \in -1..MaxDuration
    BY <1>0, <1>6, PollStartKeeps
  <2>3. PaceShape'
    BY <1>0, <1>a, <1>6, <2>2 DEF PollStart
  <2> QED
    BY <1>6, <2>1, <2>2, <2>3 DEF IInv, Paced, PollStart
<1>7. CASE PollTimesOut \/ PollInterrupted \/ PollStale \/ PollWoken
  <2>1. main = "poll" /\ UNCHANGED <<timerVars, other, lag, back, cur>>
    BY <1>7 DEF PollTimesOut, PollInterrupted, PollStale, PollWoken
  <2>2. Timed' /\ (NotLate => NotLate')
    BY <1>0, <2>1, UntouchedKeeps
  <2>3. CASE PollReturns
    BY <1>0, <1>a, <2>1, <2>2, <2>3 DEF IInv, Paced, PollReturns, InTimers, SleepBounded
  <2>4. CASE ~PollReturns
    <3>1. CASE PollTimesOut \/ PollWoken
      BY <2>4, <3>1 DEF PollTimesOut, PollWoken
    <3>2. CASE PollInterrupted \/ PollStale
      <4>1. PICK ms \in -1..MaxDuration :
               /\ tries # 0 /\ PollAgain(ms)
               /\ ms \in {0, timeout} \/ (timeout # -1 /\ ms \in 1..timeout)
               /\ PollStale \/ (ms = -1 /\ timeout = -1) \/ slept + ms <= timeout
        <5>1. /\ timeout \in -1..MaxDuration /\ slept \in 0..MaxDuration
          BY <1>0
        <5>2. timeout # -1 /\ ~(timeout - slept <= 0)
                => /\ timeout - slept \in 1..timeout /\ timeout - slept \in -1..MaxDuration
                   /\ slept + (timeout - slept) <= timeout
          BY <5>1, <1>a
        <5>3. -1 \in -1..MaxDuration
          BY <1>a
        <5>4. CASE PollInterrupted
          <6>1. tries # 0
            BY <2>4, <5>4 DEF PollInterrupted, PollAgain
          <6>2. CASE timeout = -1
            BY <5>3, <5>4, <6>1, <6>2 DEF PollInterrupted
          <6>3. CASE timeout # -1
            <7>1. ~(timeout - slept <= 0) /\ PollAgain(timeout - slept)
              BY <2>4, <5>4, <6>3 DEF PollInterrupted
            <7> QED
              BY <5>2, <6>1, <6>3, <7>1
          <6> QED
            BY <6>2, <6>3
        <5>5. CASE PollStale
          <6>1. tries # 0 /\ PollAgain(timeout)
            BY <2>4, <5>5 DEF PollStale, PollAgain
          <6>2. timeout \in {0, timeout}
            OBVIOUS
          <6> QED
            BY <5>1, <5>5, <6>1, <6>2, Zenon
        <5> QED
          BY <3>2, <5>4, <5>5
      <4>2. /\ timeout' = ms /\ waited' = 0 /\ tries' = tries - 1
            /\ UNCHANGED <<main, slept>>
        BY <4>1 DEF PollAgain
      <4>2a. stale' \/ (ms = -1 /\ timeout = -1) \/ slept + ms <= timeout
        <5>1. PollStale => stale'
          BY DEF PollStale
        <5> QED
          BY <4>1, <5>1, Zenon
      <4>3. PaceShape'
        BY <1>0, <1>a, <2>1, <4>1, <4>2
      <4>4. SleepBounded'
        <5>1. CASE stale' \/ slept' - waited' + timeout' <= timeout
          BY <1>0, <2>1, <4>1, <4>2, <4>2a, <4>3, <5>1, WaitGoesOn DEF Paced
        <5>2. CASE ~stale' /\ ~(slept' - waited' + timeout' <= timeout)
          <6>1. timeout = -1 /\ timeout' = -1
            BY <1>0, <1>a, <4>1, <4>2, <4>2a, <5>2
          <6>2. heap = {}
            BY <1>0, <2>1, <6>1, HeadFacts DEF Paced, SleepBounded
          <6> QED
            BY <1>0, <2>1, <4>2, <6>1, <6>2 DEF Paced, SleepBounded, timerVars
        <5> QED
          BY <5>1, <5>2
      <4> QED
        BY <1>0, <2>1, <2>2, <4>2, <4>3, <4>4 DEF IInv, Paced, InTimers
    <3> QED
      BY <1>7, <3>1, <3>2
  <2> QED
    BY <2>3, <2>4
<1>8. CASE PollEvent
  <2>1. Timed' /\ (NotLate => NotLate')
    BY <1>0, <1>8, UntouchedKeeps DEF PollEvent
  <2>2. /\ main = "poll" /\ main' = "callback" /\ back' \in {"closing", "poll"}
        /\ timeout' = 0 /\ slept' = 0 /\ waited' = 0 /\ cur' = {} /\ lag' = lag
        /\ stale' = FALSE
        /\ tries' \in 0..PollTries
    BY <1>0, <1>a, <1>8 DEF PollEvent, Callback
  <2> QED
    BY <1>0, <1>a, <2>1, <2>2 DEF IInv, Paced, InTimers, SleepBounded
<1>9. CASE RunClosing
  <2>1. Timed' /\ \E t \in Timer : cur' = {t}
    BY <1>0, <1>9, ClosingKeeps
  <2>2. /\ main = "closing" /\ main' = "callback" /\ back' = "closing"
        /\ UNCHANGED <<heap, due, lag, pollVars>>
    BY <1>9 DEF RunClosing, Callback
  <2> QED
    BY <1>0, <2>1, <2>2 DEF IInv, Paced, InTimers, NotLate, SleepBounded, pollVars
<1>10. CASE ClosingDone
  <2>1. Timed' /\ (NotLate => NotLate')
    BY <1>0, <1>10, UntouchedKeeps DEF ClosingDone
  <2> QED
    BY <1>0, <1>10, <2>1 DEF IInv, Paced, ClosingDone, InTimers, SleepBounded, pollVars
<1>11. CASE CallbackReturns
  <2>1. Timed' /\ (NotLate => NotLate')
    BY <1>0, <1>11, UntouchedKeeps DEF CallbackReturns
  <2>2. /\ main = "callback" /\ main' = back /\ cur' = {} /\ back' = "setup"
        /\ UNCHANGED <<lag, timeout, slept, waited, tries, stale>>
    BY <1>11 DEF CallbackReturns, pollVars
  <2>3. timeout' = 0
    BY <1>0, <2>2 DEF Paced
  <2> QED
    BY <1>0, <2>1, <2>2, <2>3 DEF IInv, Paced, InTimers, SleepBounded
<1>12. CASE UNCHANGED vars
  <2>1. Timed' /\ (NotLate => NotLate') /\ UNCHANGED HeapHead
    BY <1>0, <1>12, UntouchedKeeps DEF vars
  <2> QED
    BY <1>0, <1>12, <2>1 DEF IInv, Paced, vars, timerVars, pollVars, InTimers, SleepBounded
<1> QED
  BY <1>1, <1>2, <1>3, <1>4, <1>5, <1>6, <1>7, <1>8, <1>9, <1>10, <1>11, <1>12
  DEF Next, Loop

-----------------------------------------------------------------------------
THEOREM Inductive == Spec => []IInv
  BY IInvInit, IInvStep, PTL DEF Spec

(* The variables of the loop and its timers have their types, for every    *)
(* number of timers: the counter of active handles is never below zero.    *)
THEOREM TypeCorrect == Spec => []TypeOK
<1>1. IInv => TypeOK
  BY DEF IInv, Timed, TimerShape, Paced, PaceShape, TypeOK
<1> QED
  BY <1>1, Inductive, PTL

(* HANDLE_ACTIVE, membership in the heap, active_handles and the ids of    *)
(* the started timers agree whatever the callbacks call (internal.h,       *)
(* timer.c): apc_loop_run goes on exactly as long as there is something to *)
(* wait for.                                                               *)
THEOREM CountsAgree == Spec => []HandlesCounted
<1>1. IInv => HandlesCounted
  BY DEF IInv, Timed
<1> QED
  BY <1>1, Inductive, PTL

(* A closed timer is not in the heap, and its closing callback is queued   *)
(* at most once (apc_close, apc_timer_close).                              *)
THEOREM ClosedSilent == Spec => []ClosedTimersSilent
<1>1. IInv => ClosedTimersSilent
  BY DEF IInv, Timed
<1> QED
  BY <1>1, Inductive, PTL

(* No single wait of apc_reactor_poll is unlimited unless something else   *)
(* can end it; with a timer started, none is longer than that timer had    *)
(* left when the poll began, and the wait ends by that timer's end however *)
(* many signals interrupted it (get_timeout, update_timeout_).  Only the   *)
(* waits after a batch of dead events (reactor.c, lines 384 to 389) may    *)
(* end later: there the whole timeout begins anew.                         *)
THEOREM SleepIsBounded == Spec => []SleepBounded
<1>1. IInv => SleepBounded
  BY DEF IInv, Paced
<1> QED
  BY <1>1, Inductive, PTL
=============================================================================
