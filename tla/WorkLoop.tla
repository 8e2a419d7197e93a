------------------------------ MODULE WorkLoop ------------------------------
(***************************************************************************)
(* The event loop and its thread pool: a work request from apc_add_work,   *)
(* through the pool, back over the wakeup pipe to its done callback, and   *)
(* the end of apc_loop_run (src/src/apc.c, wakeup_io of src/src/core.c).   *)
(*                                                                         *)
(* The loop's thread is one process, whose program counter is `main`.  A   *)
(* user callback may submit any request that is not in flight.  Handles    *)
(* other than requests (timers, sockets) appear only as one handle that    *)
(* keeps the loop active and lets apc_reactor_poll return without a wakeup;*)
(* their own modules say what they do.                                     *)
(***************************************************************************)
EXTENDS ThreadPool

CONSTANTS
    ReadLen,        \* bytes one read takes from the pipe (128, core.c:470)
    PipeCap         \* bytes the wakeup pipe holds

ASSUME PipeAssumption ==
    /\ ReadLen \in Nat \ {0}
    /\ PipeCap \in Nat \ {0}

VARIABLES
    work_queue,       \* loop->work_queue: worked, not yet seen by the loop
    pipe,             \* bytes in the wakeup pipe
    batch,            \* the local queue wq of wakeup_io
    active_requests,  \* loop->active_requests
    active_handles,   \* loop->active_handles, 0 or 1
    main              \* where the loop's thread is

loopVars == <<work_queue, pipe, batch, active_requests, active_handles, main>>
vars == <<wq, idle_threads, mutex, cond, pc, cur, work_queue, pipe, batch,
          active_requests, active_handles, main>>

(* setup: before apc_loop_run;  check: the condition of line 147;          *)
(* timers: callbacks of run_timers, line 149;  poll: apc_reactor_poll;     *)
(* drain, take, batch, callback: wakeup_io;  the exit_ and cleanup_ values *)
(* and join: tpool_cleanup;  closed: apc_loop_run has returned;            *)
(* blocked: locks the mutex that it already holds itself.                  *)
UserCode == {"setup", "timers", "callback"}
Teardown == {"exit_add", "exit_signal", "cleanup_lock", "cleanup_wait",
             "join", "closed"}
MainValues == UserCode \cup Teardown
                 \cup {"check", "poll", "drain", "take", "batch", "blocked"}

LoopTypeOK ==
    /\ work_queue \in Seq(Reqs)
    /\ pipe \in 0 .. PipeCap
    /\ batch \in Seq(Reqs)
    /\ active_requests \in Nat
    /\ active_handles \in {0, 1}
    /\ main \in MainValues

TypeOK == PoolTypeOK /\ LoopTypeOK

(* The user submits a request again only after its done callback began. *)
Working == {t \in Threads : pc[t] = "work"}
Running == {cur[t] : t \in Working}
InFlight == (ToSet(wq) \ {exit_sig}) \cup Running
                \cup ToSet(work_queue) \cup ToSet(batch)

Init ==
    /\ tpool_init
    /\ work_queue = <<>>
    /\ pipe = 0
    /\ batch = <<>>
    /\ active_requests = 0
    /\ active_handles \in {0, 1}
    /\ main = "setup"
-----------------------------------------------------------------------------
(* apc_add_work, called by the user before apc_loop_run or in a callback.  *)
(* When tpool_start has failed the loop's thread deadlocks with itself in  *)
(* tpool_add_work, the request counted and not queued.                     *)
apc_add_work(r) ==
    /\ main \in UserCode
    /\ r \notin InFlight
    /\ active_requests' = active_requests + 1
    /\ \/ /\ tpool_add_work(r)
          /\ UNCHANGED main
       \/ /\ mutex = "abandoned"
          /\ main' = "blocked"
          /\ UNCHANGED poolVars
    /\ UNCHANGED <<work_queue, pipe, batch, active_handles>>

(* A callback closes the handle that kept the loop active. *)
CloseHandle ==
    /\ main \in UserCode
    /\ active_handles > 0
    /\ active_handles' = active_handles - 1
    /\ UNCHANGED <<poolVars, work_queue, pipe, batch, active_requests, main>>

(* apc_loop_run, line 146; the result of tpool_start is ignored. *)
LoopStart ==
    /\ main = "setup"
    /\ tpool_start
    /\ main' = "check"
    /\ UNCHANGED <<work_queue, pipe, batch, active_requests, active_handles>>

(* Mutant: requests do not keep the loop active. *)
apc_loop_active_handles_only == active_handles > 0

apc_loop_active_ == active_handles > 0 \/ active_requests > 0

LoopCheck ==
    /\ main = "check"
    /\ main' = IF apc_loop_active_ THEN "timers" ELSE "exit_add"
    /\ UNCHANGED <<poolVars, work_queue, pipe, batch, active_requests,
                   active_handles>>

RunTimers ==
    /\ main = "timers"
    /\ main' = "poll"
    /\ UNCHANGED <<poolVars, work_queue, pipe, batch, active_requests,
                   active_handles>>

(* apc_reactor_poll returns when the pipe is readable, for an event or the *)
(* timeout of the other handle, and at once when a callback has just ended *)
(* the last activity (get_timeout gives 0).  epoll_wait reports every      *)
(* descriptor that is ready, so it does not report the other handle alone  *)
(* while the pipe is readable.                                             *)
PollWakeup ==
    /\ main = "poll"
    /\ pipe > 0
    /\ main' = "drain"
    /\ UNCHANGED <<poolVars, work_queue, pipe, batch, active_requests,
                   active_handles>>

PollOther ==
    /\ main = "poll"
    /\ active_handles > 0 \/ active_requests = 0
    /\ pipe = 0
    /\ main' = "check"
    /\ UNCHANGED <<poolVars, work_queue, pipe, batch, active_requests,
                   active_handles>>
-----------------------------------------------------------------------------
(* wakeup_io: reads until a read is short (an empty pipe reads -1, EAGAIN),*)
(* takes the whole work_queue under workmtx, and only then runs callbacks. *)
DrainPipe ==
    /\ main = "drain"
    /\ LET n == IF pipe < ReadLen THEN pipe ELSE ReadLen
       IN  /\ pipe' = pipe - n
           /\ main' = IF n = ReadLen THEN "drain" ELSE "take"
    /\ UNCHANGED <<poolVars, work_queue, batch, active_requests,
                   active_handles>>

TakeBatch ==
    /\ main = "take"
    /\ batch' = work_queue
    /\ work_queue' = <<>>
    /\ main' = "batch"
    /\ UNCHANGED <<poolVars, pipe, active_requests, active_handles>>

(* apc_deregister_request_ and the call of req->done. *)
BatchDone ==
    /\ main = "batch"
    /\ batch # <<>>
    /\ batch' = Tail(batch)
    /\ active_requests' = active_requests - 1
    /\ main' = "callback"
    /\ UNCHANGED <<poolVars, work_queue, pipe, active_handles>>

CallbackReturns ==
    /\ main = "callback"
    /\ main' = "batch"
    /\ UNCHANGED <<poolVars, work_queue, pipe, batch, active_requests,
                   active_handles>>

(* Mutant: the pipe is emptied after the callbacks, not before the take. *)
BatchEnd_drains ==
    /\ main = "batch"
    /\ batch = <<>>
    /\ main' = "check"
    /\ pipe' = 0
    /\ UNCHANGED <<poolVars, work_queue, batch, active_requests, active_handles>>

BatchEnd ==
    /\ main = "batch"
    /\ batch = <<>>
    /\ main' = "check"
    /\ UNCHANGED <<poolVars, work_queue, pipe, batch, active_requests,
                   active_handles>>
-----------------------------------------------------------------------------
(* The worker's side of the hand-over: lines 62-64 put the request on the  *)
(* loop's queue, line 66 writes one byte; a full pipe refuses it (EAGAIN)  *)
(* and the result is ignored.                                              *)
ThreadPost(t) ==
    /\ ThreadWorked(t)
    /\ work_queue' = Append(work_queue, cur[t])
    /\ UNCHANGED <<pipe, batch, active_requests, active_handles, main>>

(* Mutant: line 66 is missing. *)
ThreadNotify_silent(t) ==
    /\ ThreadNotified(t)
    /\ UNCHANGED <<work_queue, pipe, batch, active_requests, active_handles,
                   main>>

ThreadNotify(t) ==
    /\ ThreadNotified(t)
    /\ pipe' = IF pipe < PipeCap THEN pipe + 1 ELSE pipe
    /\ UNCHANGED <<work_queue, batch, active_requests, active_handles, main>>
-----------------------------------------------------------------------------
(* tpool_cleanup, and the rest of apc_loop_run once the threads are joined.*)
TeardownAdd ==
    /\ main = "exit_add"
    /\ CleanupAddExit
    /\ main' = "exit_signal"
    /\ UNCHANGED <<work_queue, pipe, batch, active_requests, active_handles>>

TeardownSignal ==
    /\ main = "exit_signal"
    /\ CleanupSignal
    /\ main' = "cleanup_lock"
    /\ UNCHANGED <<work_queue, pipe, batch, active_requests, active_handles>>

AtCleanupCheck ==
    \/ main = "cleanup_lock"
    \/ main = "cleanup_wait" /\ LoopThread \notin cond

TeardownWait ==
    /\ AtCleanupCheck
    /\ CleanupWait
    /\ main' = "cleanup_wait"
    /\ UNCHANGED <<work_queue, pipe, batch, active_requests, active_handles>>

TeardownJoin ==
    /\ AtCleanupCheck
    /\ AllIdle
    /\ main' = "join"
    /\ UNCHANGED <<poolVars, work_queue, pipe, batch, active_requests,
                   active_handles>>

TeardownClose ==
    /\ main = "join"
    /\ AllJoined
    /\ main' = "closed"
    /\ UNCHANGED <<poolVars, work_queue, pipe, batch, active_requests,
                   active_handles>>
-----------------------------------------------------------------------------
LoopStep ==
    \/ LoopStart \/ LoopCheck \/ RunTimers \/ PollWakeup \/ PollOther
    \/ DrainPipe \/ TakeBatch \/ BatchDone \/ CallbackReturns \/ BatchEnd
    \/ TeardownAdd \/ TeardownSignal \/ TeardownWait \/ TeardownJoin
    \/ TeardownClose

ThreadStep(t) ==
    \/ /\ \/ ThreadWait(t) \/ ThreadTake(t)
          \/ ThreadExit(t) \/ ThreadExitSignal(t)
       /\ UNCHANGED loopVars
    \/ ThreadPost(t)
    \/ ThreadNotify(t)

UserStep == CloseHandle \/ \E r \in Reqs : apc_add_work(r)

Spurious == \E x \in cond : SpuriousWake(x) /\ UNCHANGED loopVars

(* A loop that has returned stays so. *)
Returned == main = "closed" /\ UNCHANGED vars

Next ==
    \/ LoopStep
    \/ UserStep
    \/ \E t \in Threads : ThreadStep(t)
    \/ Spurious
    \/ Returned

Spec == Init /\ [][Next]_vars

(* Threads run; callbacks, work functions and reads return.  Nothing makes *)
(* a user submit or close, and nothing makes a spurious wakeup happen.     *)
Fairness ==
    /\ WF_vars(LoopStep)
    /\ \A t \in Threads : WF_vars(ThreadStep(t))

FairSpec == Spec /\ Fairness
-----------------------------------------------------------------------------
(* A request in flight is in exactly one of the pool's queue, a worker's   *)
(* hands, the loop's queue and the batch, once; active_requests counts     *)
(* the requests in flight, so the loop neither ends early nor hangs        *)
(* (QUEUE_REMOVE / QUEUE_ADD_TAIL in threadpool.c:26, 55, 63, core.c:482-  *)
(* 489; the counter in apc.c:239, core.c:489).                             *)
OnePlace ==
    /\ IsInjective(wq) /\ IsInjective(work_queue) /\ IsInjective(batch)
    /\ \A t, u \in Working : cur[t] = cur[u] => t = u
    /\ ToSet(wq) \cap (Running \cup ToSet(work_queue) \cup ToSet(batch)) = {}
    /\ Running \cap (ToSet(work_queue) \cup ToSet(batch)) = {}
    /\ ToSet(work_queue) \cap ToSet(batch) = {}

RequestsCounted ==
    active_requests = Cardinality(InFlight)
                        + (IF main = "blocked" THEN 1 ELSE 0)

RequestConservation == OnePlace /\ RequestsCounted

(* The loop never sleeps on finished work: while work_queue holds a        *)
(* request, a byte is in the pipe, or a worker is about to write one, or   *)
(* the loop is between its wakeup and QUEUE_MOVE (threadpool.c:62-66 posts *)
(* before it writes; core.c:475-483 reads before it takes).                *)
NoLostWakeup ==
    work_queue # <<>> =>
        \/ pipe > 0
        \/ \E t \in Threads : pc[t] = "notify"
        \/ main \in {"drain", "take"}

(* No worker sleeps on work another one has to do: while some worker is    *)
(* blocked, there are as many workers about to look at wq as requests in   *)
(* it, although tpool_add_work signals at most once and only if            *)
(* idle_threads > 0 (threadpool.c:27-29, 41-45).                           *)
Ready == {t \in Threads \ cond : pc[t] \in {"lock", "wait"}}

WorkConserving ==
    cond \cap Threads # {} /\ wq # <<>> /\ Head(wq) # exit_sig
        => Len(wq) =< Cardinality(Ready)

(* idle_threads counts the workers that wait or have left, so the unsigned *)
(* counter never wraps and line 111 compares the right number.             *)
Idlers == {t \in Threads : pc[t] \in {"wait", "exitsig", "exited"}}

IdleCount == idle_threads = Cardinality(Idlers)

(* Teardown begins only when no request is in flight, and then the pill    *)
(* stays alone in wq: no request is stranded behind or in front of it, and *)
(* when the mutexes and descriptors are released every worker has left     *)
(* (apc.c:147-160, threadpool.c:104-126).                                  *)
QuiescentTeardown ==
    main \in Teardown =>
        /\ InFlight = {} /\ active_requests = 0
        /\ wq = IF main = "exit_add" THEN <<>> ELSE <<exit_sig>>
        /\ main = "closed" => \A t \in Threads : pc[t] = "exited"

(* tpool_cleanup does not hang: while it waits on the condition variable   *)
(* or in pthread_join, a worker that has not left is awake to carry on     *)
(* the chain of exits (threadpool.c:48-53, 108-119).                       *)
TeardownProgress ==
    /\ main \in {"cleanup_lock", "cleanup_wait", "join"}
    /\ LoopThread \in cond \/ \E t \in Threads : pc[t] # "exited"
    => \E t \in Threads \ cond : pc[t] # "exited"

(* Once the done callback of a request may have run, the pool refers to it *)
(* no more: the user may free or reuse it there (threadpool.c:66 against   *)
(* core.c:489-492).                                                        *)
HandedBackUntouched ==
    \A t \in Threads :
        pc[t] = "notify" => cur[t] \in ToSet(work_queue) \cup ToSet(batch)

(* What a user of apc_add_work relies on, as module WorkService puts it.   *)
PendingWork == IF wq # <<>> /\ Head(wq) = exit_sig THEN <<>> ELSE wq

Service == INSTANCE WorkService WITH
    Capacity <- Cardinality(Threads),
    pending  <- PendingWork,
    running  <- Running,
    finished <- batch \o work_queue

(* Requests start in the order submitted, run on at most nthreads threads  *)
(* and are delivered once, by the loop, in the order they finished.        *)
ImplementsService == Service!Spec

(* The service does not rest: a thread with room takes pending work, work  *)
(* that runs finishes, finished work is delivered.                         *)
ServiceKeepsGoing == Service!Fairness

(* Every submitted request reaches its done callback (apc_add_work), for   *)
(* a pool whose threads were created.                                      *)
WorkDelivered == \A r \in Reqs : r \in InFlight ~> r \notin InFlight

(* apc_loop_run returns once the user has closed the handles and submits   *)
(* nothing more (apc.c:145-161).                                           *)
LoopReturns ==
    <>[][~ UserStep]_vars /\ <>[](active_handles = 0) => <>(main = "closed")
=============================================================================
