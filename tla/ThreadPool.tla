----------------------------- MODULE ThreadPool -----------------------------
(***************************************************************************)
(* The thread pool of src/src/common/threadpool.c.                         *)
(*                                                                         *)
(* One mutex protects the queue of submitted requests (wq) and the number  *)
(* of idle threads; one condition variable is shared by the workers and by *)
(* the thread that tears the pool down.  Termination is a poison pill:     *)
(* exit_sig is put at the tail of wq, never removed, and every worker that *)
(* finds it at the head leaves and signals the next one.                   *)
(*                                                                         *)
(* Each region between pthread_mutex_lock and pthread_mutex_unlock is one  *)
(* action; a call made outside the mutex (req->work, pthread_cond_signal   *)
(* in lines 51 and 108) is an action of its own.  The module has no Next:  *)
(* module WorkLoop composes it with the event loop that owns it.           *)
(***************************************************************************)
EXTENDS Integers, Sequences, FiniteSets, SequencesExt

CONSTANTS
    Threads,        \* the workers; the code has four (threadpool.c:11, 88)
    Reqs,           \* the apc_work_req objects of the user
    LoopThread,     \* the thread that runs the loop and calls tpool_cleanup
    exit_sig,       \* the poison pill (threadpool.c:16)
    NoReq,          \* a worker that holds no request
    FifoCond,       \* TRUE: the condition variable wakes the longest waiter
    CreateMayFail   \* TRUE: pthread_create may fail in tpool_start

ASSUME PoolAssumption ==
    /\ IsFiniteSet(Threads) /\ Threads # {}
    /\ IsFiniteSet(Reqs)
    /\ LoopThread \notin Threads
    /\ exit_sig \notin Reqs
    /\ NoReq \notin Reqs
    /\ FifoCond \in BOOLEAN
    /\ CreateMayFail \in BOOLEAN

VARIABLES
    wq,             \* submitted requests, then exit_sig once teardown began
    idle_threads,   \* the counter of threadpool.c:12
    mutex,          \* "free", or "abandoned" by a failed tpool_start
    cond,           \* the threads blocked in pthread_cond_wait
    pc,             \* where each worker is in thread_routine
    cur             \* the request a worker works on or still refers to

poolVars == <<wq, idle_threads, mutex, cond, pc, cur>>

(* unborn: not created;  lock: about to lock the mutex in line 40;         *)
(* wait: in line 43, blocked if in cond, woken otherwise;  work: runs the  *)
(* request, up to line 64;  notify: about to write in line 66;             *)
(* exitsig: about to signal in line 51;  exited: has returned.             *)
PcValues == {"unborn", "lock", "wait", "work", "notify", "exitsig", "exited"}

PoolTypeOK ==
    /\ wq \in Seq(Reqs \cup {exit_sig})
    /\ idle_threads \in 0 .. Cardinality(Threads)
    /\ mutex \in {"free", "abandoned"}
    /\ cond \subseteq Threads \cup {LoopThread}
    /\ pc \in [Threads -> PcValues]
    /\ cur \in [Threads -> Reqs \cup {NoReq}]

(* tpool_init: threads are created only by tpool_start. *)
tpool_init ==
    /\ wq = <<>>
    /\ idle_threads = 0
    /\ mutex = "free"
    /\ cond = {}
    /\ pc = [t \in Threads |-> "unborn"]
    /\ cur = [t \in Threads |-> NoReq]
-----------------------------------------------------------------------------
(* pthread_cond_signal wakes one blocked thread.  POSIX lets it be any of  *)
(* them.  A queue-ordered implementation wakes the longest waiter, and the *)
(* loop's thread always is the shortest one: it waits only once exit_sig   *)
(* is in wq, and from then on no worker starts to wait.                    *)
Signalled ==
    IF FifoCond /\ cond # {LoopThread} THEN cond \ {LoopThread} ELSE cond

CondSignal ==
    IF cond = {} THEN UNCHANGED cond
                 ELSE \E x \in Signalled : cond' = cond \ {x}

(* A wakeup without a signal, which pthread_cond_wait permits. *)
SpuriousWake(x) ==
    /\ x \in cond
    /\ cond' = cond \ {x}
    /\ UNCHANGED <<wq, idle_threads, mutex, pc, cur>>
-----------------------------------------------------------------------------
(* tpool_add_work: the signal is sent only when some worker counts itself  *)
(* as idle; a signalled worker that has not run yet still does.            *)
(* Mutants: a signal only for an empty queue; the new request in front;    *)
(* no signal at all.                                                       *)
tpool_add_work_if_empty(r) ==
    /\ mutex = "free"
    /\ wq' = Append(wq, r)
    /\ IF idle_threads > 0 /\ wq = <<>> THEN CondSignal ELSE UNCHANGED cond
    /\ UNCHANGED <<idle_threads, mutex, pc, cur>>

tpool_add_work_in_front(r) ==
    /\ mutex = "free"
    /\ wq' = <<r>> \o wq
    /\ IF idle_threads > 0 THEN CondSignal ELSE UNCHANGED cond
    /\ UNCHANGED <<idle_threads, mutex, pc, cur>>

tpool_add_work_silent(r) ==
    /\ mutex = "free"
    /\ wq' = Append(wq, r)
    /\ UNCHANGED <<idle_threads, mutex, cond, pc, cur>>

tpool_add_work(r) ==
    /\ mutex = "free"
    /\ wq' = Append(wq, r)
    /\ IF idle_threads > 0 THEN CondSignal ELSE UNCHANGED cond
    /\ UNCHANGED <<idle_threads, mutex, pc, cur>>

(* tpool_start holds the mutex until all threads exist.  When              *)
(* pthread_create fails it returns without unlocking: the threads created  *)
(* so far stay blocked in line 40 for good.                                *)
tpool_start ==
    /\ \/ /\ pc' = [t \in Threads |-> "lock"]
          /\ UNCHANGED mutex
       \/ /\ CreateMayFail
          /\ \E born \in SUBSET Threads :
                /\ born # Threads
                /\ pc' = [t \in Threads |->
                             IF t \in born THEN "lock" ELSE "unborn"]
          /\ mutex' = "abandoned"
    /\ UNCHANGED <<wq, idle_threads, cond, cur>>
-----------------------------------------------------------------------------
(* thread_routine.  A worker owns the mutex in line 41 when it has locked  *)
(* it in line 40 or has been woken in line 43; a woken one first takes     *)
(* itself off idle_threads.                                                *)
AtQueue(t) ==
    /\ mutex = "free"
    /\ \/ pc[t] = "lock"
       \/ pc[t] = "wait" /\ t \notin cond

BusyCount(t) == IF pc[t] = "wait" THEN idle_threads - 1 ELSE idle_threads

ThreadWait(t) ==
    /\ AtQueue(t)
    /\ wq = <<>>
    /\ idle_threads' = BusyCount(t) + 1
    /\ pc' = [pc EXCEPT ![t] = "wait"]
    /\ cond' = cond \cup {t}
    /\ UNCHANGED <<wq, mutex, cur>>

(* Mutant: line 55 is missing. *)
ThreadTake_not_removed(t) ==
    /\ AtQueue(t)
    /\ wq # <<>> /\ Head(wq) # exit_sig
    /\ idle_threads' = BusyCount(t)
    /\ cur' = [cur EXCEPT ![t] = Head(wq)]
    /\ pc' = [pc EXCEPT ![t] = "work"]
    /\ UNCHANGED <<wq, mutex, cond>>

ThreadTake(t) ==
    /\ AtQueue(t)
    /\ wq # <<>> /\ Head(wq) # exit_sig
    /\ idle_threads' = BusyCount(t)
    /\ wq' = Tail(wq)
    /\ cur' = [cur EXCEPT ![t] = Head(wq)]
    /\ pc' = [pc EXCEPT ![t] = "work"]
    /\ UNCHANGED <<mutex, cond>>

(* Mutant: line 49 is missing. *)
ThreadExit_uncounted(t) ==
    /\ AtQueue(t)
    /\ wq # <<>> /\ Head(wq) = exit_sig
    /\ idle_threads' = BusyCount(t)
    /\ pc' = [pc EXCEPT ![t] = "exitsig"]
    /\ UNCHANGED <<wq, mutex, cond, cur>>

ThreadExit(t) ==
    /\ AtQueue(t)
    /\ wq # <<>> /\ Head(wq) = exit_sig
    /\ idle_threads' = BusyCount(t) + 1
    /\ pc' = [pc EXCEPT ![t] = "exitsig"]
    /\ UNCHANGED <<wq, mutex, cond, cur>>

(* Mutant: line 51 is missing. *)
ThreadExitSignal_silent(t) ==
    /\ pc[t] = "exitsig"
    /\ pc' = [pc EXCEPT ![t] = "exited"]
    /\ UNCHANGED <<wq, idle_threads, mutex, cond, cur>>

ThreadExitSignal(t) ==
    /\ pc[t] = "exitsig"
    /\ CondSignal
    /\ pc' = [pc EXCEPT ![t] = "exited"]
    /\ UNCHANGED <<wq, idle_threads, mutex, cur>>

(* The pool's side of lines 60 to 66: req->work has run and the request    *)
(* goes back to its loop (WorkLoop says how), then the loop is woken.      *)
ThreadWorked(t) ==
    /\ pc[t] = "work"
    /\ pc' = [pc EXCEPT ![t] = "notify"]
    /\ UNCHANGED <<wq, idle_threads, mutex, cond, cur>>

ThreadNotified(t) ==
    /\ pc[t] = "notify"
    /\ pc' = [pc EXCEPT ![t] = "lock"]
    /\ cur' = [cur EXCEPT ![t] = NoReq]
    /\ UNCHANGED <<wq, idle_threads, mutex, cond>>
-----------------------------------------------------------------------------
(* tpool_cleanup, region by region: lines 105-107, line 108, then the      *)
(* check of line 111 (first, or after a wakeup) and what follows from it.  *)
CleanupAddExit ==
    /\ mutex = "free"
    /\ wq' = Append(wq, exit_sig)
    /\ UNCHANGED <<idle_threads, mutex, cond, pc, cur>>

(* Mutant: line 108 is missing. *)
CleanupSignal_silent ==
    UNCHANGED <<wq, idle_threads, mutex, cond, pc, cur>>

CleanupSignal ==
    /\ CondSignal
    /\ UNCHANGED <<wq, idle_threads, mutex, pc, cur>>

AllIdle == mutex = "free" /\ idle_threads = Cardinality(Threads)

CleanupWait ==
    /\ mutex = "free"
    /\ idle_threads # Cardinality(Threads)
    /\ cond' = cond \cup {LoopThread}
    /\ UNCHANGED <<wq, idle_threads, mutex, pc, cur>>

(* pthread_join of every thread. *)
AllJoined == \A t \in Threads : pc[t] = "exited"
=============================================================================
