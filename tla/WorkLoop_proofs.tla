--------------------------- MODULE WorkLoop_proofs ---------------------------
(***************************************************************************)
(* Proofs about WorkLoop, for every number of workers and requests.        *)
(*                                                                         *)
(* The inductive invariant is built in layers, each proved with the ones   *)
(* before it as facts that always hold: Control (types and which values    *)
(* of the control state go together), IdleCount, OnePlace, RequestsCounted,*)
(* QuiescentTeardown; then the properties that follow from them.           *)
(***************************************************************************)
EXTENDS WorkLoop, Lemmas, TLAPS, FiniteSetTheorems

Pilled == Teardown \ {"exit_add"}

(* The types, without the bounds of the two counters. *)
Shape ==
    /\ wq \in Seq(Reqs \cup {exit_sig})
    /\ idle_threads \in Int
    /\ mutex \in {"free", "abandoned"}
    /\ cond \subseteq Threads \cup {LoopThread}
    /\ pc \in [Threads -> PcValues]
    /\ cur \in [Threads -> Reqs \cup {NoReq}]
    /\ work_queue \in Seq(Reqs)
    /\ pipe \in 0 .. PipeCap
    /\ batch \in Seq(Reqs)
    /\ active_requests \in Int
    /\ active_handles \in {0, 1}
    /\ main \in MainValues

Waiters ==
    /\ \A t \in cond \cap Threads : pc[t] = "wait"
    /\ LoopThread \in cond => main = "cleanup_wait"

Holders == \A t \in Threads : pc[t] \in {"work", "notify"} => cur[t] \in Reqs

Births ==
    /\ main = "setup" => \A t \in Threads : pc[t] = "unborn"
    /\ main = "setup" => mutex = "free" /\ cond = {}
    /\ main # "setup" /\ mutex = "free" => \A t \in Threads : pc[t] # "unborn"
    /\ mutex = "abandoned" => \A t \in Threads : pc[t] \in {"unborn", "lock"}
    /\ main \in Pilled => mutex = "free"
    /\ main = "blocked" => mutex = "abandoned"

Pill ==
    /\ main \in Pilled <=> exit_sig \in ToSet(wq)
    /\ \A t \in Threads : pc[t] \in {"exitsig", "exited"} => main \in Pilled

BatchPhase == batch # <<>> => main \in {"batch", "callback", "blocked"}

Control == Shape /\ Waiters /\ Holders /\ Births /\ Pill /\ BatchPhase
-----------------------------------------------------------------------------
(* The same for the pool's queue, whose elements are requests and the pill.*)
LEMMA QueueAppendFacts ==
    ASSUME NEW s \in Seq(Reqs \cup {exit_sig}), NEW x \in Reqs \cup {exit_sig}
    PROVE  /\ Append(s, x) \in Seq(Reqs \cup {exit_sig})
           /\ ToSet(Append(s, x)) = ToSet(s) \cup {x}
           /\ IsInjective(s) /\ x \notin ToSet(s) => IsInjective(Append(s, x))
<1> DEFINE S == Reqs \cup {exit_sig}
<1>1. s \in Seq(S) /\ x \in S
  OBVIOUS
<1> HIDE DEF S
<1>2. /\ Append(s, x) \in Seq(S)
      /\ ToSet(Append(s, x)) = ToSet(s) \cup {x}
      /\ IsInjective(s) /\ x \notin ToSet(s) => IsInjective(Append(s, x))
  BY <1>1, AppendFacts
<1> QED
  BY <1>2 DEF S
-----------------------------------------------------------------------------
LEMMA ControlInit == Init => Control
<1> SUFFICES ASSUME Init PROVE Control
  OBVIOUS
<1>1. Shape
  BY PipeAssumption DEF Init, tpool_init, Shape, MainValues, UserCode, Teardown, Pilled, PcValues
<1>2. Waiters /\ Holders /\ Births /\ BatchPhase
  BY DEF Init, tpool_init, Waiters, Holders, Births, BatchPhase, MainValues, UserCode, Teardown, Pilled, PcValues
<1>3. Pill
  BY EmptyFacts DEF Init, tpool_init, Pill, MainValues, UserCode, Teardown, Pilled, PcValues
<1> QED
  BY <1>1, <1>2, <1>3 DEF Control

(* What a signal does to the set of blocked threads. *)
LEMMA SignalFacts ==
    ASSUME CondSignal
    PROVE  cond' \subseteq cond
BY DEF CondSignal, Signalled

LEMMA ControlStep == Control /\ [Next]_vars => Control'
<1> SUFFICES ASSUME Control, [Next]_vars PROVE Control'
  OBVIOUS
<1> USE DEF Control, Shape, Waiters, Holders, Births, Pill, BatchPhase, MainValues, UserCode, Teardown, Pilled, PcValues
<1>1. ASSUME LoopStart PROVE Control'
  BY <1>1, PoolAssumption DEF LoopStart, poolVars, tpool_start
<1>2. ASSUME LoopCheck PROVE Control'
  BY <1>2 DEF LoopCheck, poolVars
<1>3. ASSUME RunTimers PROVE Control'
  BY <1>3 DEF RunTimers, poolVars
<1>4. ASSUME PollWakeup PROVE Control'
  BY <1>4 DEF PollWakeup, poolVars
<1>5. ASSUME PollOther PROVE Control'
  BY <1>5 DEF PollOther, poolVars
<1>6. ASSUME DrainPipe PROVE Control'
  BY <1>6, PipeAssumption DEF DrainPipe, poolVars
<1>7. ASSUME TakeBatch PROVE Control'
  BY <1>7, EmptyFacts DEF TakeBatch, poolVars
<1>8. ASSUME BatchDone PROVE Control'
  BY <1>8, TailFacts DEF BatchDone, poolVars
<1>9. ASSUME CallbackReturns PROVE Control'
  BY <1>9 DEF CallbackReturns, poolVars
<1>10. ASSUME BatchEnd PROVE Control'
  BY <1>10 DEF BatchEnd, poolVars
<1>11. ASSUME TeardownAdd PROVE Control'
  <2>1. wq' \in Seq(Reqs \cup {exit_sig}) /\ ToSet(wq') = ToSet(wq) \cup {exit_sig}
    BY <1>11, QueueAppendFacts DEF TeardownAdd, CleanupAddExit
  <2> QED
    BY <1>11, <2>1 DEF TeardownAdd, CleanupAddExit
<1>12. ASSUME TeardownSignal PROVE Control'
  <2>1. cond' \subseteq cond
    BY <1>12, SignalFacts DEF TeardownSignal, CleanupSignal
  <2> QED
    BY <1>12, <2>1 DEF TeardownSignal, poolVars, CleanupSignal
<1>13. ASSUME TeardownWait PROVE Control'
  BY <1>13, PoolAssumption DEF TeardownWait, poolVars, CleanupWait, AtCleanupCheck
<1>14. ASSUME TeardownJoin PROVE Control'
  BY <1>14 DEF TeardownJoin, poolVars, AtCleanupCheck, AllIdle
<1>15. ASSUME TeardownClose PROVE Control'
  BY <1>15 DEF TeardownClose, poolVars
<1>16. ASSUME CloseHandle PROVE Control'
  BY <1>16 DEF CloseHandle, poolVars
<1>17. ASSUME NEW r \in Reqs, apc_add_work(r) PROVE Control'
  <2>1. CASE mutex = "abandoned"
    BY <1>17, <2>1 DEF apc_add_work, tpool_add_work, poolVars
  <2>2. CASE mutex = "free"
    <3>1. cond' \subseteq cond
      BY <1>17, <2>2, SignalFacts DEF apc_add_work, tpool_add_work
    <3>2. wq' = Append(wq, r) /\ UNCHANGED main
      BY <1>17, <2>2 DEF apc_add_work, tpool_add_work
    <3>3. wq' \in Seq(Reqs \cup {exit_sig}) /\ ToSet(wq') = ToSet(wq) \cup {r}
      BY <3>2, QueueAppendFacts
    <3> QED
      BY <1>17, <2>2, <3>1, <3>2, <3>3, PoolAssumption
      DEF apc_add_work, tpool_add_work
  <2> QED
    BY <2>1, <2>2
<1>18. ASSUME NEW t \in Threads, ThreadWait(t), UNCHANGED loopVars PROVE Control'
  BY <1>18, PoolAssumption DEF ThreadWait, AtQueue, BusyCount, loopVars
<1>19. ASSUME NEW t \in Threads, ThreadTake(t), UNCHANGED loopVars PROVE Control'
  BY <1>19, TailFacts, PoolAssumption DEF ThreadTake, AtQueue, BusyCount, loopVars
<1>20. ASSUME NEW t \in Threads, ThreadExit(t), UNCHANGED loopVars PROVE Control'
  BY <1>20, TailFacts, PoolAssumption DEF ThreadExit, AtQueue, BusyCount, loopVars
<1>21. ASSUME NEW t \in Threads, ThreadExitSignal(t), UNCHANGED loopVars PROVE Control'
  BY <1>21, SignalFacts, PoolAssumption DEF ThreadExitSignal, loopVars
<1>22. ASSUME NEW t \in Threads, ThreadPost(t) PROVE Control'
  BY <1>22, AppendFacts, PoolAssumption DEF ThreadPost, ThreadWorked
<1>23. ASSUME NEW t \in Threads, ThreadNotify(t) PROVE Control'
  BY <1>23, PoolAssumption, PipeAssumption DEF ThreadNotify, ThreadNotified
<1>24. ASSUME NEW x \in cond, SpuriousWake(x), UNCHANGED loopVars PROVE Control'
  BY <1>24 DEF SpuriousWake, loopVars
<1>25. ASSUME UNCHANGED vars PROVE Control'
  BY <1>25 DEF vars
<1> QED
  BY <1>1, <1>2, <1>3, <1>4, <1>5, <1>6, <1>7, <1>8, <1>9, <1>10, <1>11, <1>12, <1>13, <1>14, <1>15, <1>16, <1>17, <1>18, <1>19, <1>20, <1>21, <1>22, <1>23, <1>24, <1>25
     DEF Next, LoopStep, UserStep, ThreadStep, Spurious, Returned

(* Which values of the control state go together (see Control above): the  *)
(* first layer of the inductive invariant.                                 *)
THEOREM ControlInvariant == Spec => []Control
BY ControlInit, ControlStep, PTL DEF Spec
-----------------------------------------------------------------------------
LEMMA ThreadSets ==
    \A S \in SUBSET Threads :
        /\ IsFiniteSet(S)
        /\ Cardinality(S) \in 0 .. Cardinality(Threads)
        /\ Cardinality(S) = Cardinality(Threads) => S = Threads
<1> SUFFICES ASSUME NEW S \in SUBSET Threads
             PROVE  /\ IsFiniteSet(S)
                    /\ Cardinality(S) \in 0 .. Cardinality(Threads)
                    /\ Cardinality(S) = Cardinality(Threads) => S = Threads
  OBVIOUS
<1>1. /\ IsFiniteSet(S) /\ Cardinality(S) =< Cardinality(Threads)
      /\ Cardinality(S) = Cardinality(Threads) => Threads = S
  BY PoolAssumption, FS_Subset
<1>2. Cardinality(S) \in Nat /\ Cardinality(Threads) \in Nat
  BY <1>1, PoolAssumption, FS_CardinalityType
<1> QED
  BY <1>1, <1>2

LEMMA IdleInit == Init => IdleCount
<1> SUFFICES ASSUME Init PROVE IdleCount
  OBVIOUS
<1>1. Idlers = {}
  BY DEF Init, tpool_init, Idlers
<1> QED
  BY <1>1, FS_EmptySet DEF Init, tpool_init, IdleCount

LEMMA IdleStep == Control /\ IdleCount /\ [Next]_vars => IdleCount'
<1> SUFFICES ASSUME Control, IdleCount, [Next]_vars PROVE IdleCount'
  OBVIOUS
<1> USE DEF Control, Shape, PcValues, Idlers
<1>1. IsFiniteSet(Idlers) /\ Cardinality(Idlers) \in Nat
  BY ThreadSets
<1>2. ASSUME UNCHANGED <<pc, idle_threads>> PROVE IdleCount'
  BY <1>2 DEF IdleCount
<1>3. ASSUME NEW t \in Threads, pc[t] \notin {"wait", "exitsig", "exited"},
             pc' = [pc EXCEPT ![t] = "wait"] \/ pc' = [pc EXCEPT ![t] = "exitsig"]
      PROVE  Cardinality(Idlers') = Cardinality(Idlers) + 1
  <2>1. Idlers' = Idlers \cup {t} /\ t \notin Idlers
    BY <1>3
  <2> HIDE DEF Idlers
  <2> QED
    BY <1>1, <2>1, FS_AddElement
<1>4. ASSUME NEW t \in Threads, pc[t] \in {"wait", "exitsig", "exited"},
             \/ pc' = [pc EXCEPT ![t] = "wait"]
             \/ pc' = [pc EXCEPT ![t] = "exitsig"]
             \/ pc' = [pc EXCEPT ![t] = "exited"]
      PROVE  Cardinality(Idlers') = Cardinality(Idlers)
  <2>1. Idlers' = Idlers
    BY <1>4
  <2> QED
    BY <2>1
<1>5. ASSUME NEW t \in Threads, pc[t] \notin {"wait", "exitsig", "exited"},
             \/ pc' = [pc EXCEPT ![t] = "lock"]
             \/ pc' = [pc EXCEPT ![t] = "work"]
             \/ pc' = [pc EXCEPT ![t] = "notify"]
      PROVE  Cardinality(Idlers') = Cardinality(Idlers)
  <2>1. Idlers' = Idlers
    BY <1>5
  <2> QED
    BY <2>1
<1>6. ASSUME NEW t \in Threads, pc[t] = "wait", pc' = [pc EXCEPT ![t] = "work"]
      PROVE  Cardinality(Idlers') = Cardinality(Idlers) - 1
  <2>1. Idlers' = Idlers \ {t} /\ t \in Idlers
    BY <1>6
  <2> HIDE DEF Idlers
  <2> QED
    BY <1>1, <2>1, FS_RemoveElement
<1>7. ASSUME LoopStart PROVE IdleCount'
  <2>1. Idlers = {} /\ Idlers' = {}
    BY <1>7 DEF LoopStart, tpool_start, Births
  <2> QED
    BY <1>7, <2>1 DEF LoopStart, tpool_start, IdleCount
<1>8. ASSUME NEW t \in Threads, ThreadWait(t) PROVE IdleCount'
  <2> HIDE DEF Idlers
  <2>1. CASE pc[t] = "lock"
    BY <1>1, <1>3, <1>8, <2>1 DEF ThreadWait, BusyCount, IdleCount
  <2>2. CASE pc[t] = "wait"
    <3>1. idle_threads' = idle_threads
      BY <1>8, <2>2 DEF ThreadWait, BusyCount
    <3>2. Cardinality(Idlers') = Cardinality(Idlers)
      BY <1>4, <1>8, <2>2 DEF ThreadWait
    <3> QED
      BY <3>1, <3>2 DEF IdleCount
  <2> QED
    BY <1>8, <2>1, <2>2 DEF ThreadWait, AtQueue
<1>9. ASSUME NEW t \in Threads, ThreadTake(t) PROVE IdleCount'
  <2> HIDE DEF Idlers
  <2>1. CASE pc[t] = "lock"
    BY <1>1, <1>5, <1>9, <2>1 DEF ThreadTake, BusyCount, IdleCount
  <2>2. CASE pc[t] = "wait"
    BY <1>1, <1>6, <1>9, <2>2 DEF ThreadTake, BusyCount, IdleCount
  <2> QED
    BY <1>9, <2>1, <2>2 DEF ThreadTake, AtQueue
<1>10. ASSUME NEW t \in Threads, ThreadExit(t) PROVE IdleCount'
  <2> HIDE DEF Idlers
  <2>1. CASE pc[t] = "lock"
    BY <1>1, <1>3, <1>10, <2>1 DEF ThreadExit, BusyCount, IdleCount
  <2>2. CASE pc[t] = "wait"
    <3>1. idle_threads' = idle_threads
      BY <1>10, <2>2 DEF ThreadExit, BusyCount
    <3>2. Cardinality(Idlers') = Cardinality(Idlers)
      BY <1>4, <1>10, <2>2 DEF ThreadExit
    <3> QED
      BY <3>1, <3>2 DEF IdleCount
  <2> QED
    BY <1>10, <2>1, <2>2 DEF ThreadExit, AtQueue
<1>11. ASSUME NEW t \in Threads, ThreadExitSignal(t) PROVE IdleCount'
  BY <1>4, <1>11 DEF ThreadExitSignal, IdleCount
<1>12. ASSUME NEW t \in Threads, ThreadPost(t) PROVE IdleCount'
  BY <1>5, <1>12 DEF ThreadPost, ThreadWorked, IdleCount
<1>13. ASSUME NEW t \in Threads, ThreadNotify(t) PROVE IdleCount'
  BY <1>5, <1>13 DEF ThreadNotify, ThreadNotified, IdleCount
<1>14. ASSUME LoopStep, ~LoopStart PROVE UNCHANGED <<pc, idle_threads>>
  BY <1>14
  DEF LoopStep, LoopCheck, RunTimers, PollWakeup, PollOther, DrainPipe,
      TakeBatch, BatchDone, CallbackReturns, BatchEnd, TeardownAdd,
      TeardownSignal, TeardownWait, TeardownJoin, TeardownClose,
      CleanupAddExit, CleanupSignal, CleanupWait, poolVars
<1>15. ASSUME UserStep PROVE UNCHANGED <<pc, idle_threads>>
  BY <1>15 DEF UserStep, CloseHandle, apc_add_work, tpool_add_work, poolVars
<1>16. ASSUME Spurious \/ UNCHANGED vars PROVE UNCHANGED <<pc, idle_threads>>
  BY <1>16 DEF Spurious, SpuriousWake, vars
<1> QED
  BY <1>2, <1>7, <1>8, <1>9, <1>10, <1>11, <1>12, <1>13, <1>14, <1>15, <1>16
  DEF Next, ThreadStep, Returned

(* idle_threads counts the workers that wait or have left.                 *)
THEOREM IdleCountInvariant == Spec => []IdleCount
BY ControlInvariant, IdleInit, IdleStep, PTL DEF Spec
-----------------------------------------------------------------------------
LEMMA InFlightFacts ==
    Control =>
        /\ Working \subseteq Threads
        /\ Running \subseteq Reqs
        /\ ToSet(wq) \subseteq Reqs \cup {exit_sig}
        /\ ToSet(work_queue) \subseteq Reqs /\ ToSet(batch) \subseteq Reqs
        /\ InFlight \subseteq Reqs
<1> SUFFICES ASSUME Control
             PROVE  /\ Working \subseteq Threads
                    /\ Running \subseteq Reqs
                    /\ ToSet(wq) \subseteq Reqs \cup {exit_sig}
                    /\ ToSet(work_queue) \subseteq Reqs /\ ToSet(batch) \subseteq Reqs
                    /\ InFlight \subseteq Reqs
  OBVIOUS
<1>1. Working \subseteq Threads /\ Running \subseteq Reqs
  BY DEF Control, Holders, Running, Working
<1>2. ToSet(wq) \subseteq Reqs \cup {exit_sig}
  BY DEF Control, Shape, ToSet
<1>3. ToSet(work_queue) \subseteq Reqs /\ ToSet(batch) \subseteq Reqs
  BY DEF Control, Shape, ToSet
<1> QED
  BY <1>1, <1>2, <1>3 DEF InFlight

LEMMA ReqSets ==
    \A S \in SUBSET Reqs : IsFiniteSet(S) /\ Cardinality(S) \in Nat
BY PoolAssumption, FS_Subset, FS_CardinalityType

LEMMA ConservationInit == Init => RequestConservation
<1> SUFFICES ASSUME Init PROVE RequestConservation
  OBVIOUS
<1>1. Working = {} /\ Running = {}
  BY DEF Init, tpool_init, Working, Running
<1>2. InFlight = {} /\ OnePlace
  BY <1>1, EmptyFacts DEF Init, tpool_init, InFlight, OnePlace
<1> QED
  BY <1>2, FS_EmptySet DEF Init, RequestConservation, RequestsCounted

(* A step that neither moves a request nor changes what counts them.       *)
LEMMA ConservationUntouched ==
    ASSUME RequestConservation,
           Working' = Working, \A t \in Working : cur'[t] = cur[t],
           UNCHANGED <<wq, work_queue, batch, active_requests>>,
           main' = "blocked" <=> main = "blocked"
    PROVE  RequestConservation'
<1>1. Running' = Running
  BY DEF Running
<1>2. InFlight' = InFlight
  BY <1>1 DEF InFlight
<1> QED
  BY <1>1, <1>2 DEF RequestConservation, OnePlace, RequestsCounted

LEMMA ConservationStep ==
    Control /\ Control' /\ RequestConservation /\ [Next]_vars
        => RequestConservation'
<1> SUFFICES ASSUME Control, Control', RequestConservation, [Next]_vars
             PROVE  RequestConservation'
  OBVIOUS
<1> USE DEF RequestConservation
<1>a. /\ Running \subseteq Reqs /\ ToSet(wq) \subseteq Reqs \cup {exit_sig}
      /\ ToSet(work_queue) \subseteq Reqs /\ ToSet(batch) \subseteq Reqs
      /\ InFlight \subseteq Reqs /\ Working \subseteq Threads
      /\ IsFiniteSet(InFlight) /\ Cardinality(InFlight) \in Nat
  BY InFlightFacts, ReqSets
<1>b. exit_sig \notin Reqs
  BY PoolAssumption
<1>1. ASSUME NEW r \in Reqs, apc_add_work(r) PROVE RequestConservation'
  <2>1. Working' = Working /\ Running' = Running
    BY <1>1 DEF apc_add_work, tpool_add_work, poolVars, Working, Running
  <2>2. CASE mutex = "abandoned"
    <3>1. InFlight' = InFlight /\ main # "blocked" /\ main' = "blocked"
      BY <1>1, <2>1, <2>2
      DEF apc_add_work, tpool_add_work, poolVars, InFlight, UserCode
    <3>2. OnePlace'
      BY <1>1, <2>1, <2>2
      DEF apc_add_work, tpool_add_work, poolVars, OnePlace
    <3> QED
      BY <1>a, <1>1, <3>1, <3>2 DEF apc_add_work, RequestsCounted
  <2>3. CASE mutex = "free"
    <3>1. /\ wq' = Append(wq, r) /\ main \in UserCode
          /\ r \notin InFlight /\ active_requests' = active_requests + 1
          /\ UNCHANGED <<cur, work_queue, batch, main>>
      BY <1>1, <2>3 DEF apc_add_work, tpool_add_work
    <3>2. r \notin ToSet(wq)
      BY <1>b, <3>1 DEF InFlight
    <3>3. ToSet(wq') = ToSet(wq) \cup {r} /\ IsInjective(wq')
      BY <3>1, <3>2, QueueAppendFacts DEF Control, Shape, OnePlace
    <3>4. OnePlace'
      <4>1. r \notin Running \cup ToSet(work_queue) \cup ToSet(batch)
        BY <3>1 DEF InFlight
      <4> QED
        BY <2>1, <3>1, <3>3, <4>1 DEF OnePlace
    <3>5. InFlight' = InFlight \cup {r}
      BY <1>b, <2>1, <3>1, <3>3 DEF InFlight
    <3>6. Cardinality(InFlight') = Cardinality(InFlight) + 1
      BY <1>a, <3>1, <3>5, FS_AddElement
    <3> QED
      BY <1>a, <3>1, <3>4, <3>6 DEF RequestsCounted, UserCode
  <2> QED
    BY <2>2, <2>3 DEF Control, Shape
<1>2. ASSUME LoopStart PROVE RequestConservation'
  <2>1. Working = {} /\ Working' = {}
    BY <1>2 DEF LoopStart, tpool_start, Working, Control, Births
  <2> QED
    BY <1>2, <2>1, ConservationUntouched DEF LoopStart, tpool_start
<1>3. ASSUME TakeBatch PROVE RequestConservation'
  <2>1. batch = <<>> /\ batch' = work_queue /\ work_queue' = <<>>
    BY <1>3 DEF TakeBatch, Control, BatchPhase
  <2>2. Running' = Running /\ UNCHANGED <<wq, pc, cur, active_requests>>
    BY <1>3 DEF TakeBatch, poolVars, Working, Running
  <2>3. OnePlace'
    BY <2>1, <2>2, EmptyFacts DEF OnePlace, Working
  <2>4. InFlight' = InFlight
    BY <2>1, <2>2, EmptyFacts DEF InFlight
  <2> QED
    BY <1>3, <2>2, <2>3, <2>4 DEF RequestsCounted, TakeBatch
<1>4. ASSUME BatchDone PROVE RequestConservation'
  <2> DEFINE h == Head(batch)
  <2>1. /\ batch' = Tail(batch) /\ h \in Reqs
        /\ ToSet(batch) = ToSet(batch') \cup {h}
        /\ h \notin ToSet(batch') /\ IsInjective(batch')
    BY <1>4, TailFacts DEF BatchDone, Control, Shape, OnePlace
  <2>2. Running' = Running /\ UNCHANGED <<wq, pc, cur, work_queue>>
    BY <1>4 DEF BatchDone, poolVars, Working, Running
  <2> HIDE DEF h
  <2>3. OnePlace'
    BY <2>1, <2>2 DEF OnePlace, Working
  <2>4. InFlight' = InFlight \ {h} /\ h \in InFlight
    BY <1>b, <2>1, <2>2 DEF InFlight, OnePlace
  <2>5. Cardinality(InFlight') = Cardinality(InFlight) - 1
    BY <1>a, <2>4, FS_RemoveElement
  <2> QED
    BY <1>a, <1>4, <2>3, <2>5 DEF RequestsCounted, BatchDone
<1>5. ASSUME NEW t \in Threads, ThreadTake(t), UNCHANGED loopVars
      PROVE  RequestConservation'
  <2> DEFINE h == Head(wq)
  <2>1. /\ wq' = Tail(wq) /\ h # exit_sig /\ h \in Reqs \cup {exit_sig}
        /\ ToSet(wq) = ToSet(wq') \cup {h}
        /\ h \notin ToSet(wq') /\ IsInjective(wq')
    BY <1>5, TailFacts DEF ThreadTake, Control, Shape, OnePlace
  <2>2. t \notin Working /\ Working' = Working \cup {t}
    BY <1>5 DEF ThreadTake, AtQueue, Working, Control, Shape
  <2>3. cur'[t] = h /\ \A u \in Working : cur'[u] = cur[u]
    BY <1>a, <1>5, <2>2 DEF ThreadTake, Control, Shape
  <2> HIDE DEF h
  <2>4. Running' = Running \cup {h}
    BY <2>2, <2>3 DEF Running
  <2>5. UNCHANGED <<work_queue, batch, active_requests, main>>
    BY <1>5 DEF loopVars
  <2>6. h \notin Running \cup ToSet(work_queue) \cup ToSet(batch)
    BY <2>1 DEF OnePlace
  <2>7. OnePlace'
    <3>1. \A u, v \in Working' : cur'[u] = cur'[v] => u = v
      BY <2>2, <2>3, <2>6 DEF OnePlace, Running
    <3> QED
      BY <2>1, <2>4, <2>5, <2>6, <3>1 DEF OnePlace
  <2>8. InFlight' = InFlight
    BY <2>1, <2>4, <2>5 DEF InFlight
  <2> QED
    BY <2>5, <2>7, <2>8 DEF RequestsCounted
<1>6. ASSUME NEW t \in Threads, ThreadPost(t) PROVE RequestConservation'
  <2> DEFINE c == cur[t]
  <2>1. /\ t \in Working /\ Working' = Working \ {t} /\ c \in Reqs /\ c \in Running
        /\ UNCHANGED <<wq, cur, batch, active_requests, main>>
        /\ work_queue' = Append(work_queue, c)
    BY <1>6
    DEF ThreadPost, ThreadWorked, Working, Running, Control, Shape, Holders
  <2>2. Running' = Running \ {c}
    BY <2>1 DEF Running, OnePlace
  <2> HIDE DEF c
  <2>3. ToSet(work_queue') = ToSet(work_queue) \cup {c} /\ IsInjective(work_queue')
    BY <2>1, AppendFacts DEF Control, Shape, OnePlace
  <2>4. OnePlace'
    BY <2>1, <2>2, <2>3 DEF OnePlace
  <2>5. InFlight' = InFlight
    BY <2>1, <2>2, <2>3 DEF InFlight
  <2> QED
    BY <2>1, <2>4, <2>5 DEF RequestsCounted
<1>7. ASSUME NEW t \in Threads, ThreadNotify(t) PROVE RequestConservation'
  <2>1. Working' = Working /\ t \notin Working
    BY <1>7 DEF ThreadNotify, ThreadNotified, Working, Control, Shape
  <2>2. \A u \in Working : cur'[u] = cur[u]
    BY <1>7, <2>1 DEF ThreadNotify, ThreadNotified, Control, Shape, Working
  <2> QED
    BY <1>7, <2>1, <2>2, ConservationUntouched DEF ThreadNotify, ThreadNotified
<1>8. ASSUME NEW t \in Threads, UNCHANGED loopVars,
             ThreadWait(t) \/ ThreadExit(t) \/ ThreadExitSignal(t)
      PROVE  RequestConservation'
  <2>1. Working' = Working /\ UNCHANGED <<wq, cur>>
    BY <1>8
    DEF ThreadWait, ThreadExit, ThreadExitSignal, AtQueue, Working, Control, Shape
  <2> QED
    BY <1>8, <2>1, ConservationUntouched DEF loopVars
<1>9. ASSUME TeardownAdd PROVE RequestConservation'
  <2>1. /\ wq' = Append(wq, exit_sig) /\ exit_sig \notin ToSet(wq)
        /\ Working' = Working /\ Running' = Running
        /\ UNCHANGED <<cur, work_queue, batch, active_requests>>
        /\ main # "blocked" /\ main' # "blocked"
    BY <1>9
    DEF TeardownAdd, CleanupAddExit, Working, Running, Control, Pill, Pilled
  <2>2. ToSet(wq') = ToSet(wq) \cup {exit_sig} /\ IsInjective(wq')
    BY <2>1, QueueAppendFacts DEF Control, Shape, OnePlace
  <2>3. OnePlace'
    BY <1>a, <1>b, <2>1, <2>2 DEF OnePlace
  <2>4. InFlight' = InFlight
    BY <2>1, <2>2 DEF InFlight
  <2> QED
    BY <2>1, <2>3, <2>4 DEF RequestsCounted
<1>10. ASSUME \/ LoopStep /\ ~ LoopStart /\ ~ TakeBatch /\ ~ BatchDone /\ ~ TeardownAdd
              \/ CloseHandle \/ Spurious \/ UNCHANGED vars
       PROVE  RequestConservation'
  <2>1. UNCHANGED <<wq, pc, cur, work_queue, batch, active_requests>>
    BY <1>10
    DEF LoopStep, LoopCheck, RunTimers, PollWakeup, PollOther, DrainPipe,
        CallbackReturns, BatchEnd, TeardownSignal, TeardownWait, TeardownJoin,
        TeardownClose, CleanupSignal, CleanupWait, CloseHandle, Spurious,
        SpuriousWake, poolVars, loopVars, vars
  <2>2. main' = "blocked" <=> main = "blocked"
    BY <1>10
    DEF LoopStep, LoopCheck, RunTimers, PollWakeup, PollOther, DrainPipe,
        CallbackReturns, BatchEnd, TeardownSignal, TeardownWait, TeardownJoin,
        TeardownClose, AtCleanupCheck, CloseHandle, Spurious, loopVars, vars
  <2>3. Working' = Working
    BY <2>1 DEF Working
  <2> QED
    BY <2>1, <2>2, <2>3, ConservationUntouched
<1> QED
  BY <1>1, <1>2, <1>3, <1>4, <1>5, <1>6, <1>7, <1>8, <1>9, <1>10
  DEF Next, UserStep, ThreadStep, Returned

(* A request in flight is in one place, once, and active_requests counts   *)
(* the requests in flight.                                                 *)
THEOREM Conservation == Spec => []RequestConservation
BY ControlInvariant, ConservationInit, ConservationStep, PTL DEF Spec
-----------------------------------------------------------------------------
LEMMA TypeFromLayers == Control /\ IdleCount /\ RequestConservation => TypeOK
<1> SUFFICES ASSUME Control, IdleCount, RequestConservation PROVE TypeOK
  OBVIOUS
<1>1. idle_threads \in 0 .. Cardinality(Threads)
  BY ThreadSets DEF IdleCount, Idlers
<1>2. active_requests \in Nat
  BY InFlightFacts, ReqSets DEF RequestConservation, RequestsCounted
<1> QED
  BY <1>1, <1>2 DEF Control, Shape, TypeOK, PoolTypeOK, LoopTypeOK

(* Type correctness: idle_threads stays within the number of threads and   *)
(* active_requests never drops below zero (the assertion of internal.h:52).*)
THEOREM TypeCorrect == Spec => []TypeOK
BY ControlInvariant, IdleCountInvariant, Conservation, TypeFromLayers, PTL
-----------------------------------------------------------------------------
LEMMA NothingInFlight ==
    Control /\ RequestConservation /\ active_requests = 0 =>
        /\ InFlight = {} /\ Working = {}
        /\ exit_sig \notin ToSet(wq) => wq = <<>>
<1> SUFFICES ASSUME Control, RequestConservation, active_requests = 0
             PROVE  /\ InFlight = {} /\ Working = {}
                    /\ exit_sig \notin ToSet(wq) => wq = <<>>
  OBVIOUS
<1>1. IsFiniteSet(InFlight) /\ Cardinality(InFlight) \in Nat
  BY InFlightFacts, ReqSets
<1>2. InFlight = {}
  BY <1>1, FS_EmptySet DEF RequestConservation, RequestsCounted
<1>3. Working = {}
  BY <1>2 DEF InFlight, Running
<1>4. ASSUME exit_sig \notin ToSet(wq) PROVE wq = <<>>
  <2>1. ToSet(wq) = {}
    BY <1>2, <1>4 DEF InFlight
  <2> DEFINE S == Reqs \cup {exit_sig}
  <2>2. wq \in Seq(S)
    BY DEF Control, Shape
  <2> HIDE DEF S
  <2> QED
    BY <2>1, <2>2, EmptyFacts
<1> QED
  BY <1>2, <1>3, <1>4

LEMMA QuiescentStep ==
    Control /\ Control' /\ RequestConservation /\ RequestConservation'
      /\ QuiescentTeardown /\ [Next]_vars => QuiescentTeardown'
<1> SUFFICES ASSUME Control, Control', RequestConservation,
                    RequestConservation', QuiescentTeardown, [Next]_vars,
                    main' \in Teardown
             PROVE  /\ InFlight' = {} /\ active_requests' = 0
                    /\ wq' = IF main' = "exit_add" THEN <<>> ELSE <<exit_sig>>
                    /\ main' = "closed" => \A t \in Threads : pc'[t] = "exited"
  BY DEF QuiescentTeardown
<1> DEFINE Still == active_requests' = 0 /\ wq' = wq
<1>1. ASSUME LoopCheck PROVE Still /\ main' = "exit_add" /\ wq = <<>>
  <2>1. active_requests = 0 /\ main = "check" /\ main' = "exit_add"
    BY <1>1, InFlightFacts, ReqSets
    DEF LoopCheck, apc_loop_active_, Teardown, Control, Shape,
        RequestConservation, RequestsCounted
  <2>2. wq = <<>>
    BY <2>1, NothingInFlight DEF Control, Pill, Pilled, Teardown
  <2> QED
    BY <1>1, <2>1, <2>2 DEF LoopCheck, poolVars
<1>2. ASSUME LoopStep, ~ LoopCheck, main \notin Teardown PROVE FALSE
  BY <1>2
  DEF LoopStep, LoopStart, RunTimers, PollWakeup, PollOther, DrainPipe,
      TakeBatch, BatchDone, CallbackReturns, BatchEnd, TeardownAdd,
      TeardownSignal, TeardownWait, TeardownJoin, TeardownClose,
      AtCleanupCheck, Teardown
<1>3. ASSUME UserStep PROVE FALSE
  BY <1>3 DEF UserStep, CloseHandle, apc_add_work, UserCode, Teardown
<1>4. ASSUME main \in Teardown
      PROVE  /\ active_requests = 0 /\ Working = {}
             /\ wq = IF main = "exit_add" THEN <<>> ELSE <<exit_sig>>
             /\ main = "closed" => \A t \in Threads : pc[t] = "exited"
  BY <1>4, NothingInFlight DEF QuiescentTeardown
<1>5. ASSUME NEW t \in Threads, ThreadStep(t)
      PROVE  Still /\ UNCHANGED main /\ main # "closed"
  <2>1. main \in Teardown /\ UNCHANGED <<active_requests, main>>
    BY <1>5 DEF ThreadStep, ThreadPost, ThreadNotify, loopVars
  <2>2. ~ ThreadTake(t) /\ ~ ThreadPost(t)
    BY <1>4, <2>1 DEF ThreadTake, ThreadPost, ThreadWorked, Working
  <2>3. pc[t] # "exited"
    BY <1>5
    DEF ThreadStep, ThreadWait, ThreadTake, ThreadExit, ThreadExitSignal,
        ThreadPost, ThreadNotify, ThreadWorked, ThreadNotified, AtQueue
  <2> QED
    BY <1>4, <1>5, <2>1, <2>2, <2>3
    DEF ThreadStep, ThreadWait, ThreadExit, ThreadExitSignal, ThreadNotify,
        ThreadNotified
<1>6. ASSUME TeardownAdd
      PROVE  active_requests' = 0 /\ wq' = <<exit_sig>> /\ main' = "exit_signal"
  BY <1>4, <1>6 DEF TeardownAdd, CleanupAddExit, Teardown
<1>7. ASSUME TeardownSignal \/ TeardownWait \/ TeardownJoin
      PROVE  Still /\ main \in Pilled /\ main' \in Pilled /\ main' # "closed"
  BY <1>4, <1>7
  DEF TeardownSignal, TeardownWait, TeardownJoin, CleanupSignal, CleanupWait,
      AtCleanupCheck, Teardown, Pilled, poolVars
<1>8. ASSUME TeardownClose
      PROVE  /\ Still /\ main = "join" /\ main' = "closed"
             /\ \A t \in Threads : pc'[t] = "exited"
  BY <1>4, <1>8 DEF TeardownClose, AllJoined, Teardown, poolVars
<1>9. ASSUME Spurious \/ UNCHANGED vars
      PROVE  Still /\ main \in Teardown /\ UNCHANGED <<main, pc>>
  BY <1>4, <1>9 DEF Spurious, SpuriousWake, loopVars, vars
<1>10. ASSUME LoopStep, ~ LoopCheck
       PROVE  \/ TeardownAdd \/ TeardownSignal \/ TeardownWait \/ TeardownJoin
              \/ TeardownClose
  BY <1>2, <1>10
  DEF LoopStep, LoopStart, RunTimers, PollWakeup, PollOther, DrainPipe,
      TakeBatch, BatchDone, CallbackReturns, BatchEnd, Teardown
<1>11. /\ active_requests' = 0
       /\ wq' = IF main' = "exit_add" THEN <<>> ELSE <<exit_sig>>
       /\ main' = "closed" => \A t \in Threads : pc'[t] = "exited"
  <2>1. CASE LoopCheck
    BY <1>1, <2>1
  <2>2. CASE LoopStep /\ ~ LoopCheck
    BY <1>4, <1>6, <1>7, <1>8, <1>10, <2>2 DEF Pilled, Teardown
  <2>3. CASE \E t \in Threads : ThreadStep(t)
    BY <1>4, <1>5, <2>3
  <2>4. CASE Spurious \/ UNCHANGED vars
    BY <1>4, <1>9, <2>4
  <2> QED
    BY <1>3, <2>1, <2>2, <2>3, <2>4 DEF Next, Returned
<1>12. InFlight' = {}
  <2>1. IsFiniteSet(InFlight') /\ InFlight' \subseteq Reqs
    <3>1. /\ Running' \subseteq Reqs
          /\ ToSet(wq') \subseteq Reqs \cup {exit_sig}
          /\ ToSet(work_queue') \subseteq Reqs /\ ToSet(batch') \subseteq Reqs
      BY DEF Control, Shape, Holders, Running, Working, ToSet
    <3> QED
      BY <3>1, ReqSets DEF InFlight
  <2>2. Cardinality(InFlight') \in Nat
    BY <2>1, ReqSets
  <2> QED
    BY <1>11, <2>1, <2>2, FS_EmptySet DEF RequestConservation, RequestsCounted
<1> QED
  BY <1>11, <1>12

(* Teardown begins only when no request is in flight; then the pill stays  *)
(* alone in the queue, and every worker has left when resources are freed. *)
THEOREM TeardownQuiescent == Spec => []QuiescentTeardown
<1>1. Init => QuiescentTeardown
  BY DEF Init, QuiescentTeardown, Teardown
<1> QED
  BY <1>1, ControlInvariant, Conservation, QuiescentStep, PTL DEF Spec
-----------------------------------------------------------------------------
LEMMA WakeupStep == Control /\ NoLostWakeup /\ [Next]_vars => NoLostWakeup'
<1> SUFFICES ASSUME Control, NoLostWakeup, [Next]_vars PROVE NoLostWakeup'
  OBVIOUS
<1> DEFINE Notifiers == {t \in Threads : pc[t] = "notify"}
<1>1. ASSUME UNCHANGED <<work_queue, pipe, main>>, Notifiers \subseteq Notifiers'
      PROVE  NoLostWakeup'
  BY <1>1 DEF NoLostWakeup
<1>2. ASSUME NEW t \in Threads, ThreadPost(t) PROVE NoLostWakeup'
  BY <1>2 DEF ThreadPost, ThreadWorked, NoLostWakeup, Control, Shape
<1>3. ASSUME NEW t \in Threads, ThreadNotify(t) PROVE NoLostWakeup'
  BY <1>3, PipeAssumption
  DEF ThreadNotify, ThreadNotified, NoLostWakeup, Control, Shape
<1>4. ASSUME NEW t \in Threads, UNCHANGED loopVars,
             \/ ThreadWait(t) \/ ThreadTake(t)
             \/ ThreadExit(t) \/ ThreadExitSignal(t)
      PROVE  NoLostWakeup'
  <2>1. Notifiers \subseteq Notifiers'
    BY <1>4
    DEF ThreadWait, ThreadTake, ThreadExit, ThreadExitSignal, AtQueue, Control,
        Shape
  <2> QED
    BY <1>1, <1>4, <2>1 DEF loopVars
<1>5. ASSUME LoopStart PROVE NoLostWakeup'
  BY <1>5 DEF LoopStart, NoLostWakeup, Control, Births
<1>6. ASSUME DrainPipe PROVE NoLostWakeup'
  BY <1>6 DEF DrainPipe, NoLostWakeup
<1>7. ASSUME TakeBatch PROVE NoLostWakeup'
  BY <1>7 DEF TakeBatch, NoLostWakeup
<1>8. ASSUME LoopStep, ~ LoopStart, ~ DrainPipe, ~ TakeBatch
      PROVE  /\ UNCHANGED <<work_queue, pipe, pc>>
             /\ main' = "drain" \/ main \notin {"drain", "take"}
  BY <1>8
  DEF LoopStep, LoopCheck, RunTimers, PollWakeup, PollOther, BatchDone,
      CallbackReturns, BatchEnd, TeardownAdd, TeardownSignal, TeardownWait,
      TeardownJoin, TeardownClose, CleanupAddExit, CleanupSignal, CleanupWait,
      AtCleanupCheck, poolVars
<1>9. ASSUME UserStep
      PROVE  UNCHANGED <<work_queue, pipe, pc>> /\ main \notin {"drain", "take"}
  BY <1>9
  DEF UserStep, CloseHandle, apc_add_work, tpool_add_work, poolVars, UserCode
<1>10. ASSUME Spurious \/ UNCHANGED vars PROVE NoLostWakeup'
  BY <1>10 DEF Spurious, SpuriousWake, loopVars, vars, NoLostWakeup
<1>11. ASSUME LoopStep \/ UserStep PROVE NoLostWakeup'
  BY <1>5, <1>6, <1>7, <1>8, <1>9, <1>11 DEF NoLostWakeup
<1> QED
  BY <1>2, <1>3, <1>4, <1>10, <1>11 DEF Next, ThreadStep, Returned

(* The loop never sleeps on a finished request.                            *)
THEOREM WakeupNeverLost == Spec => []NoLostWakeup
<1>1. Init => NoLostWakeup
  BY DEF Init, NoLostWakeup
<1> QED
  BY <1>1, ControlInvariant, WakeupStep, PTL DEF Spec
-----------------------------------------------------------------------------
(* While tpool_cleanup waits on the condition variable, a worker that has  *)
(* not left is awake, and will signal when it leaves (threadpool.c:48-53,  *)
(* 110-113).                                                               *)
CleanupWaitSound ==
    LoopThread \in cond => \E t \in Threads \ cond : pc[t] # "exited"

LEMMA CleanupWaitStep ==
    Control /\ IdleCount /\ RequestConservation /\ QuiescentTeardown
      /\ CleanupWaitSound /\ [Next]_vars => CleanupWaitSound'
<1> SUFFICES ASSUME Control, IdleCount, RequestConservation, QuiescentTeardown,
                    CleanupWaitSound, [Next]_vars, LoopThread \in cond'
             PROVE  \E t \in Threads \ cond' : pc'[t] # "exited"
  BY DEF CleanupWaitSound
<1>a. LoopThread \notin Threads
  BY PoolAssumption
<1>1. ASSUME TeardownWait PROVE \E t \in Threads \ cond' : pc'[t] # "exited"
  <2>1. PICK t \in Threads : pc[t] \notin {"wait", "exitsig", "exited"}
    BY <1>1, ThreadSets DEF TeardownWait, CleanupWait, IdleCount, Idlers
  <2> QED
    BY <1>1, <1>a, <2>1 DEF TeardownWait, CleanupWait, Control, Waiters
(* Whoever else moves, the loop was blocked before.                        *)
<1>2. ASSUME ~ TeardownWait PROVE LoopThread \in cond
  BY <1>2, <1>a
  DEF Next, LoopStep, LoopStart, LoopCheck, RunTimers, PollWakeup, PollOther,
      DrainPipe, TakeBatch, BatchDone, CallbackReturns, BatchEnd, TeardownAdd,
      TeardownSignal, TeardownJoin, TeardownClose, CleanupAddExit,
      CleanupSignal, AtCleanupCheck, tpool_start, UserStep, CloseHandle,
      apc_add_work, tpool_add_work, CondSignal, Signalled, ThreadStep,
      ThreadWait, ThreadTake, ThreadExit, ThreadExitSignal, ThreadPost,
      ThreadWorked, ThreadNotify, ThreadNotified, Spurious, SpuriousWake,
      Returned, poolVars, vars
<1>3. ASSUME LoopThread \in cond
      PROVE  /\ main = "cleanup_wait" /\ ~ LoopStep /\ ~ UserStep
             /\ wq = <<exit_sig>> /\ Working = {}
  <2>1. main = "cleanup_wait"
    BY <1>3 DEF Control, Waiters
  <2>2. ~ LoopStep /\ ~ UserStep
    BY <1>3, <2>1
    DEF LoopStep, LoopStart, LoopCheck, RunTimers, PollWakeup, PollOther,
        DrainPipe, TakeBatch, BatchDone, CallbackReturns, BatchEnd, TeardownAdd,
        TeardownSignal, TeardownWait, TeardownJoin, TeardownClose,
        AtCleanupCheck, UserStep, CloseHandle, apc_add_work, UserCode
  <2> QED
    BY <2>1, <2>2, NothingInFlight DEF QuiescentTeardown, Teardown
(* So the worker that was awake either still is, or leaves and wakes one.  *)
<1>4. ASSUME LoopThread \in cond, NEW t \in Threads, ThreadStep(t)
      PROVE  \E u \in Threads \ cond' : pc'[u] # "exited"
  <2>1. ~ ThreadWait(t) /\ ~ ThreadTake(t) /\ ~ ThreadPost(t)
    BY <1>3, <1>4 DEF ThreadWait, ThreadTake, ThreadPost, ThreadWorked, Working
  <2>2. CASE ThreadExit(t)
    BY <2>2 DEF ThreadExit, AtQueue, Control, Shape, Waiters
  <2>3. CASE ThreadNotify(t)
    BY <2>3 DEF ThreadNotify, ThreadNotified, Control, Shape, Waiters
  <2>4. CASE ThreadExitSignal(t)
    <3>1. PICK x \in cond : cond' = cond \ {x}
      BY <1>4, <2>4 DEF ThreadExitSignal, CondSignal, Signalled
    <3>2. x \in Threads /\ pc[x] = "wait" /\ x # t
      BY <3>1, <2>4 DEF Control, Shape, Waiters, ThreadExitSignal
    <3> QED
      BY <3>1, <3>2, <2>4 DEF ThreadExitSignal, Control, Shape
  <2> QED
    BY <1>4, <2>1, <2>2, <2>3, <2>4 DEF ThreadStep
<1>5. ASSUME LoopThread \in cond, Spurious \/ Returned \/ UNCHANGED vars
      PROVE  \E t \in Threads \ cond' : pc'[t] # "exited"
  BY <1>5 DEF Spurious, SpuriousWake, Returned, loopVars, vars, CleanupWaitSound
<1> QED
  BY <1>1, <1>2, <1>3, <1>4, <1>5 DEF Next

(* tpool_cleanup never waits on the condition variable for a signal that   *)
(* nobody is left to send, whichever waiter each signal wakes and however  *)
(* many workers there are.  So the hang of work_hang is in pthread_join:   *)
(* the loop's thread is woken in time, but the workers behind it are not.  *)
THEOREM CleanupIsWoken == Spec => []CleanupWaitSound
<1>1. Init => CleanupWaitSound
  BY DEF Init, tpool_init, CleanupWaitSound
<1> QED
  BY <1>1, CleanupWaitStep, ControlInvariant, IdleCountInvariant, Conservation,
     TeardownQuiescent, PTL DEF Spec
-----------------------------------------------------------------------------
(* How WorkConserving moves: a worker may become ready, or take one request.*)
LEMMA ReadyMore ==
    ASSUME WorkConserving,
           cond' \cap Threads # {} => cond \cap Threads # {},
           UNCHANGED wq, Ready \subseteq Ready'
    PROVE  WorkConserving'
<1> SUFFICES ASSUME (cond \cap Threads # {})', wq' # <<>>, Head(wq') # exit_sig
             PROVE  Len(wq') =< Cardinality(Ready')
  BY DEF WorkConserving
<1>1. Len(wq') =< Cardinality(Ready) /\ Len(wq') = Len(wq)
  BY DEF WorkConserving
<1>2. IsFiniteSet(Ready') /\ Cardinality(Ready') \in Nat
  BY ThreadSets DEF Ready
<1>3. Cardinality(Ready) =< Cardinality(Ready') /\ Cardinality(Ready) \in Nat
  BY <1>2, FS_Subset, FS_CardinalityType
<1> QED
  BY <1>1, <1>2, <1>3

LEMMA ConservingStep ==
    Control /\ IdleCount /\ RequestConservation /\ QuiescentTeardown
      /\ WorkConserving /\ [Next]_vars => WorkConserving'
<1> SUFFICES ASSUME Control, IdleCount, RequestConservation, QuiescentTeardown,
                    WorkConserving, [Next]_vars
             PROVE  WorkConserving'
  OBVIOUS
<1>1. IsFiniteSet(Ready) /\ Cardinality(Ready) \in Nat
  BY ThreadSets DEF Ready
<1>2. ASSUME NEW r \in Reqs, apc_add_work(r), mutex = "free"
      PROVE  WorkConserving'
  <2> SUFFICES ASSUME (cond \cap Threads # {})'
               PROVE  Len(wq') =< Cardinality(Ready')
    BY DEF WorkConserving
  <2>1. /\ wq' = Append(wq, r) /\ main \in UserCode /\ UNCHANGED pc
        /\ cond' \subseteq cond
        /\ idle_threads > 0 => CondSignal
    BY <1>2, SignalFacts DEF apc_add_work, tpool_add_work
  <2>2. LoopThread \notin cond /\ cond \subseteq Threads
    BY <2>1 DEF Control, Shape, Waiters, UserCode
  <2>3. PICK w \in Threads : w \in cond /\ w \in Idlers
    BY <2>1 DEF Control, Waiters, Idlers
  <2>4. idle_threads > 0
    BY <2>3, ThreadSets, FS_EmptySet DEF IdleCount, Idlers
  <2>5. PICK x \in cond : cond' = cond \ {x}
    BY <2>1, <2>3, <2>4 DEF CondSignal, Signalled
  <2>6. Ready' = Ready \cup {x} /\ x \notin Ready
    BY <2>1, <2>2, <2>5 DEF Ready, Control, Waiters
  <2>7. Cardinality(Ready') = Cardinality(Ready) + 1
    BY <1>1, <2>6, FS_AddElement
  <2>8. Len(wq) =< Cardinality(Ready) /\ Len(wq) \in Nat
    <3>1. Len(wq) \in Nat /\ (wq = <<>> => Len(wq) = 0)
      BY DEF Control, Shape
    <3>2. ASSUME wq # <<>> PROVE Head(wq) # exit_sig
      <4>1. exit_sig \notin ToSet(wq)
        BY <2>1 DEF Control, Pill, Pilled, Teardown, UserCode
      <4> DEFINE S == Reqs \cup {exit_sig}
      <4>2. wq \in Seq(S)
        BY DEF Control, Shape
      <4> HIDE DEF S
      <4> QED
        BY <3>2, <4>1, <4>2, TailFacts
    <3> QED
      BY <1>1, <2>3, <3>1, <3>2 DEF WorkConserving
  <2>9. Len(wq') = Len(wq) + 1
    BY <2>1 DEF Control, Shape
  <2> QED
    BY <1>1, <2>7, <2>8, <2>9
<1>3. ASSUME NEW t \in Threads, ThreadTake(t) PROVE WorkConserving'
  <2> SUFFICES ASSUME (cond \cap Threads # {})'
               PROVE  Len(wq') =< Cardinality(Ready')
    BY DEF WorkConserving
  <2>1. /\ wq # <<>> /\ Head(wq) # exit_sig /\ wq' = Tail(wq) /\ UNCHANGED cond
        /\ Len(wq') = Len(wq) - 1 /\ Len(wq) \in Nat
    BY <1>3 DEF ThreadTake, Control, Shape
  <2>2. Ready' = Ready \ {t} /\ t \in Ready
    BY <1>3 DEF ThreadTake, AtQueue, Ready, Control, Shape, Waiters
  <2>3. Cardinality(Ready') = Cardinality(Ready) - 1
    BY <1>1, <2>2, FS_RemoveElement
  <2>4. Len(wq) =< Cardinality(Ready)
    BY <2>1 DEF WorkConserving
  <2> QED
    BY <1>1, <2>1, <2>3, <2>4
<1>4. ASSUME NEW t \in Threads, ThreadWait(t) PROVE WorkConserving'
  BY <1>4 DEF ThreadWait, WorkConserving
<1>5. ASSUME NEW t \in Threads, ThreadExit(t) PROVE WorkConserving'
  BY <1>5 DEF ThreadExit, WorkConserving
<1>6. ASSUME NEW t \in Threads, ThreadExitSignal(t) PROVE WorkConserving'
  <2>1. main \in Pilled
    BY <1>6 DEF ThreadExitSignal, Control, Pill
  <2>2. wq = <<exit_sig>>
    BY <2>1 DEF QuiescentTeardown, Pilled
  <2> QED
    BY <1>6, <2>2 DEF ThreadExitSignal, WorkConserving
<1>7. ASSUME NEW t \in Threads, ThreadPost(t) \/ ThreadNotify(t)
      PROVE  WorkConserving'
  <2>1. Ready \subseteq Ready' /\ UNCHANGED <<wq, cond>>
    BY <1>7
    DEF ThreadPost, ThreadNotify, ThreadWorked, ThreadNotified, Ready, Control,
        Shape
  <2> QED
    BY <2>1, ReadyMore
<1>8. ASSUME LoopStart PROVE WorkConserving'
  BY <1>8 DEF LoopStart, tpool_start, WorkConserving, Control, Births
<1>9. ASSUME TeardownAdd PROVE WorkConserving'
  <2>1. wq' = <<exit_sig>>
    BY <1>9
    DEF TeardownAdd, CleanupAddExit, QuiescentTeardown, Teardown
  <2> QED
    BY <2>1 DEF WorkConserving
<1>10. ASSUME TeardownSignal \/ TeardownWait PROVE WorkConserving'
  <2>1. wq = <<exit_sig>> /\ UNCHANGED wq
    BY <1>10
    DEF TeardownSignal, TeardownWait, CleanupSignal, CleanupWait,
        AtCleanupCheck, QuiescentTeardown, Teardown
  <2> QED
    BY <2>1 DEF WorkConserving
<1>11. ASSUME \/ LoopStep /\ ~ LoopStart /\ ~ TeardownAdd
                  /\ ~ TeardownSignal /\ ~ TeardownWait
              \/ CloseHandle \/ UNCHANGED vars
              \/ \E r \in Reqs : apc_add_work(r) /\ mutex # "free"
       PROVE  WorkConserving'
  <2>1. UNCHANGED <<wq, cond, pc>>
    BY <1>11
    DEF LoopStep, LoopCheck, RunTimers, PollWakeup, PollOther, DrainPipe,
        TakeBatch, BatchDone, CallbackReturns, BatchEnd, TeardownJoin,
        TeardownClose, CloseHandle, apc_add_work, tpool_add_work, poolVars, vars
  <2> QED
    BY <2>1, ReadyMore DEF Ready
<1>12. ASSUME Spurious PROVE WorkConserving'
  <2>1. Ready \subseteq Ready' /\ UNCHANGED wq /\ cond' \subseteq cond
    BY <1>12 DEF Spurious, SpuriousWake, Ready
  <2> QED
    BY <2>1, ReadyMore
<1> QED
  BY <1>2, <1>3, <1>4, <1>5, <1>6, <1>7, <1>8, <1>9, <1>10, <1>11, <1>12
  DEF Next, UserStep, ThreadStep, Returned

(* No worker stays blocked while the queue holds more requests than there  *)
(* are workers about to look at it.                                        *)
THEOREM WorkIsConserved == Spec => []WorkConserving
<1>1. Init => WorkConserving
  BY DEF Init, tpool_init, WorkConserving
<1> QED
  BY <1>1, ControlInvariant, IdleCountInvariant, Conservation,
     TeardownQuiescent, ConservingStep, PTL DEF Spec
-----------------------------------------------------------------------------
(* Concatenation against Append and Tail.                                  *)
LEMMA ConcatQueue ==
    ASSUME NEW S, NEW s \in Seq(S), NEW q \in Seq(S)
    PROVE  /\ <<>> \o q = q /\ q \o <<>> = q
           /\ s \o q \in Seq(S)
           /\ \A x \in S : s \o Append(q, x) = Append(s \o q, x)
           /\ s # <<>> => s \o q # <<>> /\ Tail(s) \o q = Tail(s \o q)
           /\ ToSet(s \o q) = ToSet(s) \cup ToSet(q)
<1>1. <<>> \o q = q /\ q \o <<>> = q /\ s \o q \in Seq(S)
  OBVIOUS
<1>2. \A x \in S : s \o Append(q, x) = Append(s \o q, x)
  OBVIOUS
<1>3. ASSUME s # <<>> PROVE s \o q # <<>> /\ Tail(s) \o q = Tail(s \o q)
  BY <1>3
<1>4. ToSet(s \o q) = ToSet(s) \cup ToSet(q)
  BY ConcatFacts
<1> QED
  BY <1>1, <1>2, <1>3, <1>4

(* Outside teardown the pool's queue is the service's queue; in teardown   *)
(* nothing is pending.                                                     *)
LEMMA PendingFacts ==
    Control /\ QuiescentTeardown =>
        /\ main \notin Teardown => PendingWork = wq
        /\ main \in Teardown => PendingWork = <<>>
<1> SUFFICES ASSUME Control, QuiescentTeardown
             PROVE  /\ main \notin Teardown => PendingWork = wq
                    /\ main \in Teardown => PendingWork = <<>>
  OBVIOUS
<1>1. ASSUME main \notin Teardown PROVE PendingWork = wq
  <2>1. exit_sig \notin ToSet(wq)
    BY <1>1 DEF Control, Pill, Pilled
  <2> DEFINE S == Reqs \cup {exit_sig}
  <2>2. wq \in Seq(S)
    BY DEF Control, Shape
  <2> HIDE DEF S
  <2>3. wq # <<>> => Head(wq) # exit_sig
    BY <2>1, <2>2, TailFacts
  <2> QED
    BY <2>3 DEF PendingWork
<1>2. ASSUME main \in Teardown PROVE PendingWork = <<>>
  BY <1>2 DEF QuiescentTeardown, PendingWork
<1> QED
  BY <1>1, <1>2

(* A worker at the queue leaves room among the running requests.           *)
LEMMA RoomToStart ==
    ASSUME Control, NEW t \in Threads, t \notin Working
    PROVE  Cardinality(Running) < Cardinality(Threads)
<1>1. /\ IsFiniteSet(Working) /\ Cardinality(Working) \in 0 .. Cardinality(Threads)
      /\ Cardinality(Working) = Cardinality(Threads) => Working = Threads
  BY ThreadSets DEF Working
<1> DEFINE f == [u \in Working |-> cur[u]]
<1>2. f \in Surjection(Working, Running)
  BY DEF Surjection, Running
<1>3. IsFiniteSet(Running) /\ Cardinality(Running) =< Cardinality(Working)
  BY <1>1, <1>2, FS_Surjection
<1>4. Cardinality(Running) \in Nat /\ Cardinality(Threads) \in Nat
  BY <1>3, PoolAssumption, FS_CardinalityType
<1> QED
  BY <1>1, <1>3, <1>4

LEMMA ServiceInit == Init => Service!Init
<1> SUFFICES ASSUME Init PROVE Service!Init
  OBVIOUS
<1>1. Running = {}
  BY DEF Init, tpool_init, Running, Working
<1>2. PendingWork = <<>>
  BY DEF Init, tpool_init, PendingWork
<1>3. batch \o work_queue = <<>>
  BY DEF Init
<1> QED
  BY <1>1, <1>2, <1>3 DEF Service!Init

LEMMA ServiceStep ==
    Control /\ Control' /\ RequestConservation /\ QuiescentTeardown
      /\ QuiescentTeardown' /\ [Next]_vars => [Service!Next]_(Service!vars)
<1> SUFFICES ASSUME Control, Control', RequestConservation, QuiescentTeardown,
                    QuiescentTeardown', [Next]_vars
             PROVE  [Service!Next]_(Service!vars)
  OBVIOUS
<1> DEFINE finished == batch \o work_queue
<1>a. /\ main \notin Teardown => PendingWork = wq
      /\ main \in Teardown => PendingWork = <<>>
  BY PendingFacts
<1>b. /\ main' \notin Teardown => PendingWork' = wq'
      /\ main' \in Teardown => PendingWork' = <<>>
  <2>1. ASSUME main' \notin Teardown PROVE wq' # <<>> => Head(wq') # exit_sig
    <3> DEFINE S == Reqs \cup {exit_sig}
    <3>1. exit_sig \notin ToSet(wq') /\ wq' \in Seq(S)
      BY <2>1 DEF Control, Shape, Pill, Pilled
    <3> HIDE DEF S
    <3> QED
      BY <3>1, TailFacts
  <2>2. ASSUME main' \in Teardown PROVE wq' = <<>> \/ wq' = <<exit_sig>>
    BY <2>2 DEF QuiescentTeardown
  <2> QED
    BY <2>1, <2>2 DEF PendingWork
<1>c. ToSet(finished) = ToSet(batch) \cup ToSet(work_queue)
  BY ConcatQueue DEF Control, Shape
<1>d. ASSUME UNCHANGED <<PendingWork, Running, finished>>
      PROVE  [Service!Next]_(Service!vars)
  BY <1>d DEF Service!vars
<1>1. ASSUME NEW r \in Reqs, apc_add_work(r), mutex = "free"
      PROVE  [Service!Next]_(Service!vars)
  <2>1. /\ wq' = Append(wq, r) /\ r \notin InFlight /\ main \notin Teardown
        /\ UNCHANGED <<pc, cur, main, batch, work_queue>>
    BY <1>1 DEF apc_add_work, tpool_add_work, UserCode, Teardown
  <2>2. PendingWork' = Append(PendingWork, r) /\ PendingWork = wq
    BY <1>a, <1>b, <2>1
  <2>3. Running' = Running /\ finished' = finished
    BY <2>1 DEF Running, Working
  <2>4. r \notin ToSet(PendingWork) \cup Running \cup ToSet(finished)
    BY <1>c, <2>1, <2>2, PoolAssumption DEF InFlight
  <2>5. Service!Submit(r)
    BY <2>2, <2>3, <2>4
    DEF Service!Submit, Service!Outstanding, Service!ToSet, ToSet
  <2> QED
    BY <2>5 DEF Service!Next
<1>2. ASSUME NEW t \in Threads, ThreadTake(t), UNCHANGED loopVars
      PROVE  [Service!Next]_(Service!vars)
  <2>1. /\ wq # <<>> /\ Head(wq) # exit_sig /\ wq' = Tail(wq)
        /\ cur' = [cur EXCEPT ![t] = Head(wq)] /\ pc' = [pc EXCEPT ![t] = "work"]
        /\ UNCHANGED <<main, batch, work_queue>> /\ t \notin Working
    BY <1>2 DEF ThreadTake, AtQueue, Working, loopVars
  <2>2. main \notin Teardown
    BY <2>1 DEF QuiescentTeardown
  <2>3. PendingWork = wq /\ PendingWork' = Tail(wq)
    BY <1>a, <1>b, <2>1, <2>2
  <2>4. Running' = Running \cup {Head(wq)}
    <3>1. Working' = Working \cup {t}
      BY <2>1 DEF Working, Control, Shape
    <3>2. cur'[t] = Head(wq) /\ \A u \in Working : cur'[u] = cur[u]
      BY <2>1 DEF Working, Control, Shape
    <3> DEFINE h == Head(wq)
    <3>3. cur'[t] = h
      BY <3>2
    <3> HIDE DEF h
    <3>4. Running' = Running \cup {h}
      BY <3>1, <3>2, <3>3 DEF Running
    <3> QED
      BY <3>4 DEF h
  <2>5. Service!Cardinality(Running) < Cardinality(Threads)
    <3>1. Service!Cardinality(Running) = Cardinality(Running)
      BY DEF Service!Cardinality, Cardinality
    <3> QED
      BY <2>1, <3>1, RoomToStart
  <2>6. Service!Start
    BY <2>1, <2>3, <2>4, <2>5 DEF Service!Start
  <2> QED
    BY <2>6 DEF Service!Next
<1>3. ASSUME NEW t \in Threads, ThreadPost(t)
      PROVE  [Service!Next]_(Service!vars)
  <2> DEFINE c == cur[t]
  <2>1. /\ t \in Working /\ Working' = Working \ {t} /\ c \in Reqs /\ c \in Running
        /\ UNCHANGED <<wq, cur, batch, main>>
        /\ work_queue' = Append(work_queue, c)
    BY <1>3
    DEF ThreadPost, ThreadWorked, Working, Running, Control, Shape, Holders
  <2>2. Running' = Running \ {c}
    BY <2>1 DEF Running, RequestConservation, OnePlace
  <2> HIDE DEF c
  <2>3. finished' = Append(finished, c)
    BY <2>1, ConcatQueue DEF Control, Shape
  <2>4. PendingWork' = PendingWork
    BY <2>1 DEF PendingWork
  <2>5. Service!Finish(c)
    BY <2>1, <2>2, <2>3, <2>4 DEF Service!Finish
  <2> QED
    BY <2>1, <2>5 DEF Service!Next
<1>4. ASSUME BatchDone PROVE [Service!Next]_(Service!vars)
  <2>1. /\ batch # <<>> /\ batch' = Tail(batch)
        /\ UNCHANGED <<wq, pc, cur, work_queue>>
    BY <1>4 DEF BatchDone, poolVars
  <2>2. finished # <<>> /\ finished' = Tail(finished)
    BY <2>1, ConcatQueue DEF Control, Shape
  <2>3. PendingWork' = PendingWork /\ Running' = Running
    BY <2>1 DEF PendingWork, Running, Working
  <2>4. Service!Deliver
    BY <2>2, <2>3 DEF Service!Deliver
  <2> QED
    BY <2>4 DEF Service!Next
<1>5. ASSUME TakeBatch PROVE UNCHANGED <<PendingWork, Running, finished>>
  <2>1. /\ batch = <<>> /\ batch' = work_queue /\ work_queue' = <<>>
        /\ UNCHANGED <<wq, pc, cur>>
    BY <1>5 DEF TakeBatch, poolVars, Control, BatchPhase
  <2>2. finished' = finished
    BY <2>1, ConcatQueue DEF Control, Shape
  <2> QED
    BY <2>1, <2>2 DEF PendingWork, Running, Working
<1>6. ASSUME TeardownAdd PROVE UNCHANGED <<PendingWork, Running, finished>>
  <2>1. main \in Teardown /\ main' \in Teardown
    BY <1>6 DEF TeardownAdd, Teardown
  <2> QED
    BY <1>6, <1>a, <1>b, <2>1
    DEF TeardownAdd, CleanupAddExit, Running, Working
<1>7. ASSUME LoopStart PROVE UNCHANGED <<PendingWork, Running, finished>>
  <2>1. Working = {} /\ Working' = {}
    BY <1>7 DEF LoopStart, tpool_start, Working, Control, Births
  <2> QED
    BY <1>7, <2>1 DEF LoopStart, tpool_start, PendingWork, Running
<1>8. ASSUME NEW t \in Threads, ThreadNotify(t)
      PROVE  UNCHANGED <<PendingWork, Running, finished>>
  <2>1. Working' = Working /\ \A u \in Working : cur'[u] = cur[u]
    BY <1>8 DEF ThreadNotify, ThreadNotified, Working, Control, Shape
  <2> QED
    BY <1>8, <2>1
    DEF ThreadNotify, ThreadNotified, PendingWork, Running
<1>9. ASSUME NEW t \in Threads, UNCHANGED loopVars,
             ThreadWait(t) \/ ThreadExit(t) \/ ThreadExitSignal(t)
      PROVE  UNCHANGED <<PendingWork, Running, finished>>
  <2>1. Working' = Working /\ UNCHANGED <<wq, cur>>
    BY <1>9
    DEF ThreadWait, ThreadExit, ThreadExitSignal, AtQueue, Working, Control, Shape
  <2> QED
    BY <1>9, <2>1 DEF loopVars, PendingWork, Running
<1>10. ASSUME \/ LoopStep /\ ~ LoopStart /\ ~ TakeBatch /\ ~ BatchDone /\ ~ TeardownAdd
              \/ CloseHandle \/ Spurious \/ UNCHANGED vars
              \/ \E r \in Reqs : apc_add_work(r) /\ mutex # "free"
       PROVE  UNCHANGED <<PendingWork, Running, finished>>
  <2>1. UNCHANGED <<wq, pc, cur, work_queue, batch>>
    BY <1>10
    DEF LoopStep, LoopCheck, RunTimers, PollWakeup, PollOther, DrainPipe,
        CallbackReturns, BatchEnd, TeardownSignal, TeardownWait, TeardownJoin,
        TeardownClose, CleanupSignal, CleanupWait, CloseHandle, Spurious,
        SpuriousWake, apc_add_work, tpool_add_work, poolVars, loopVars, vars
  <2> QED
    BY <2>1 DEF PendingWork, Running, Working
<1> QED
  BY <1>d, <1>1, <1>2, <1>3, <1>4, <1>5, <1>6, <1>7, <1>8, <1>9, <1>10
  DEF Next, UserStep, ThreadStep, Returned

(* The pool and the loop implement the work service: requests start in the *)
(* order submitted, at most nthreads at a time, and are delivered once, in *)
(* the order they finished.                                                *)
THEOREM ServiceImplemented == Spec => ImplementsService
<1>1. Init => Service!Init
  BY ServiceInit
<1>2. Control /\ Control' /\ RequestConservation /\ QuiescentTeardown
        /\ QuiescentTeardown' /\ [Next]_vars => [Service!Next]_(Service!vars)
  BY ServiceStep
<1> QED
  BY <1>1, <1>2, ControlInvariant, Conservation, TeardownQuiescent, PTL
  DEF Spec, ImplementsService, Service!Spec
=============================================================================
