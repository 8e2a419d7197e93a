-------------------------------- MODULE Timers --------------------------------
(***************************************************************************)
(* timer/timer.c, the counting and closing macros of internal.h and        *)
(* apc_close, for the timers of one loop: what a call of the timer API     *)
(* does to the timer, to the heap and to the loop's counter and closing    *)
(* queue.  TimerLoop adds the loop that fires and closes the timers.       *)
(*                                                                         *)
(* Times are relative to loop->now: due[t] is timer->end - loop->now, and  *)
(* lag is the current time - loop->now, which is read once per iteration.  *)
(* No duration exceeds MaxDuration, so that a lag of MaxDuration stands    *)
(* for every larger one: every timer is due then.                          *)
(*                                                                         *)
(* The heap is a set ordered by timer_cmp (TimerHeap shows that heap.c is  *)
(* one).  id[t] is the place of t in the order of the timer->id of the     *)
(* started timers.                                                         *)
(***************************************************************************)
EXTENDS Integers, Sequences, FiniteSets

CONSTANTS Timer,
          Durations,        \* what users pass to apc_timer_start, in seconds
          MaxDuration

ASSUME TimerAssumption == /\ MaxDuration \in Nat
                          /\ Durations \subseteq 0..MaxDuration
                          /\ IsFiniteSet(Timer)

VARIABLES flags,            \* 0, HANDLE_ACTIVE or HANDLE_CLOSING
          inited,           \* the timers whose loop field is not NULL
          duration, restart,
          has_cb,           \* the timers whose cb is not NULL
          due, id,
          heap,             \* the timers in loop->timerheap
          closing_queue,
          active_handles,
          other,            \* some other handle or request keeps the loop active
          lag

timerVars == <<flags, inited, duration, restart, has_cb, due, id, heap,
               closing_queue, active_handles>>

HANDLE_ACTIVE == 1
HANDLE_CLOSING == 8

Active(t) == flags[t] = HANDLE_ACTIVE
Closing == {closing_queue[i] : i \in DOMAIN closing_queue}

timer_cmp(t, u) == due[t] < due[u] \/ (due[t] = due[u] /\ id[t] < id[u])

(* heap_peek_head, of a heap that is not empty. *)
HeapHead == CHOOSE t \in heap : \A u \in heap \ {t} : timer_cmp(t, u)

(* The ids once t has left the heap. *)
IdsWithout(t) == [u \in Timer |-> IF u \in heap \ {t} /\ id[u] > id[t]
                                  THEN id[u] - 1 ELSE IF u = t THEN 0 ELSE id[u]]

TimerInit ==
    /\ flags = [t \in Timer |-> 0]
    /\ inited = {} /\ has_cb = {} /\ heap = {}
    /\ duration = [t \in Timer |-> -1]
    /\ restart = [t \in Timer |-> 0]
    /\ due = [t \in Timer |-> 0]
    /\ id = [t \in Timer |-> 0]
    /\ closing_queue = <<>>
    /\ active_handles = 0

------------------------------------------------------------------------------
(* apc_timer_init, on memory that is in no queue of the loop. *)
apc_timer_init(t) ==
    /\ t \notin inited \cup Closing
    /\ inited' = inited \cup {t}
    /\ flags' = [flags EXCEPT ![t] = 0]
    /\ duration' = [duration EXCEPT ![t] = -1]
    /\ restart' = [restart EXCEPT ![t] = 0]
    /\ has_cb' = has_cb \ {t}
    /\ UNCHANGED <<due, id, heap, closing_queue, active_handles>>

(* What heap_insert and apc_register_handle_ do for t in apc_timer_start,  *)
(* as "held" and "ids" are left by what went before in the same call.      *)
Enter(t, d, held, ids) ==
    /\ due' = [due EXCEPT ![t] = d]
    /\ id' = [ids EXCEPT ![t] = Cardinality(held)]
    /\ heap' = held \cup {t}
    /\ flags' = [flags EXCEPT ![t] = HANDLE_ACTIVE]

(* apc_timer_start, on a timer that is not in the heap. *)
apc_timer_start(t, d, r) ==
    /\ t \in inited /\ ~Active(t)
    /\ duration' = [duration EXCEPT ![t] = d]
    /\ restart' = [restart EXCEPT ![t] = r]
    /\ has_cb' = has_cb \cup {t}
    /\ Enter(t, d, heap, id)
    /\ active_handles' = active_handles + 1
    /\ UNCHANGED <<inited, closing_queue>>

(* heap_remove and apc_deregister_handle_; nothing for a timer that is not *)
(* active.                                                                 *)
Leave(t) ==
    /\ heap' = heap \ {t}
    /\ id' = IF Active(t) THEN IdsWithout(t) ELSE id
    /\ due' = [due EXCEPT ![t] = 0]
    /\ active_handles' = IF Active(t) THEN active_handles - 1 ELSE active_handles

apc_timer_stop(t) ==
    /\ t \in inited
    /\ Leave(t)
    /\ flags' = [flags EXCEPT ![t] = 0]
    /\ UNCHANGED <<inited, duration, restart, has_cb, closing_queue>>

(* Mutant: the timer is started again without being stopped first. *)
apc_timer_restart_unstopped(t) ==
    /\ t \in inited /\ t \in has_cb
    /\ Enter(t, duration[t], heap, id)
    /\ active_handles' = active_handles + 1
    /\ UNCHANGED <<inited, duration, restart, has_cb, closing_queue>>

(* Stop, if the timer is active, and start with the same arguments. *)
apc_timer_restart(t) ==
    /\ t \in inited /\ t \in has_cb
    /\ Enter(t, duration[t], heap \ {t}, IF Active(t) THEN IdsWithout(t) ELSE id)
    /\ active_handles' = IF Active(t) THEN active_handles ELSE active_handles + 1
    /\ UNCHANGED <<inited, duration, restart, has_cb, closing_queue>>

(* Mutant: the timer is not stopped. *)
apc_close_running(t, cb) ==
    /\ t \in inited
    /\ UNCHANGED <<heap, id, due, active_handles>>
    /\ flags' = [flags EXCEPT ![t] = HANDLE_CLOSING]
    /\ inited' = inited \ {t}
    /\ duration' = [duration EXCEPT ![t] = -1]
    /\ restart' = [restart EXCEPT ![t] = 0]
    /\ has_cb' = has_cb \ {t}
    /\ closing_queue' = IF cb THEN Append(closing_queue, t) ELSE closing_queue

(* apc_close, with a closing callback or without; apc_timer_close stops    *)
(* the timer.  Closing again a timer that is closing changes nothing.      *)
apc_close(t, cb) ==
    /\ t \in inited
    /\ Leave(t)
    /\ flags' = [flags EXCEPT ![t] = HANDLE_CLOSING]
    /\ inited' = inited \ {t}
    /\ duration' = [duration EXCEPT ![t] = -1]
    /\ restart' = [restart EXCEPT ![t] = 0]
    /\ has_cb' = has_cb \ {t}
    /\ closing_queue' = IF cb THEN Append(closing_queue, t) ELSE closing_queue

(* The calls a user can make, from main or from any callback. *)
StartSome(t) == \E d \in Durations, r \in {0, 1} : apc_timer_start(t, d, r)
CloseSome(t) == \E cb \in BOOLEAN : apc_close(t, cb)

(* Another handle is started, or stopped. *)
OtherHandle ==
    /\ other' = ~other
    /\ active_handles' = IF other THEN active_handles - 1 ELSE active_handles + 1
    /\ UNCHANGED <<flags, inited, duration, restart, has_cb, due, id, heap,
                   closing_queue>>
==============================================================================
