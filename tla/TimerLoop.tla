------------------------------ MODULE TimerLoop ------------------------------
(***************************************************************************)
(* apc_loop_run with its timers: run_timers, get_timeout, the waiting of   *)
(* apc_reactor_poll and run_closing (apc.c, reactor.c), over the timers of *)
(* module Timers.  The loop's thread is the only one that touches this     *)
(* state; what makes it hard is that the callbacks it runs may make any    *)
(* call of the API, that time passes at every moment, and that the wait    *)
(* ends for many reasons.                                                  *)
(*                                                                         *)
(* main says where the loop's thread is: "setup" (before apc_loop_run),    *)
(* "check" (line 147), "timers" (run_timers), "poll" (waiting in           *)
(* epoll_wait), "closing" (run_closing), "callback" (in a callback of the  *)
(* user, to return to the place "back") and "done" (line 155).             *)
(***************************************************************************)
EXTENDS Timers

CONSTANTS PollTries,        \* epoll_wait calls in one poll, 32 in the code
          MaxWait           \* the longest timeout in seconds; in the code
                            \* INT_MAX milliseconds

ASSUME PollAssumption == PollTries \in Nat \ {0} /\ MaxWait \in Nat \ {0}

VARIABLES main, back,
          cur,              \* the timer whose callback runs, {} if another's
          timeout,          \* of apc_reactor_poll
          slept,            \* now - base there, up to MaxDuration
          waited,           \* the time in this epoll_wait, up to MaxDuration
          tries,            \* count there: calls of epoll_wait left
          stale             \* the last batch was of dead events alone

pollVars == <<timeout, slept, waited, tries, stale>>
vars == <<timerVars, other, lag, main, back, cur, pollVars>>

Upto(n) == IF n > MaxDuration THEN MaxDuration ELSE n

Init == /\ TimerInit
        /\ other = FALSE /\ lag = 0
        /\ main = "setup" /\ back = "setup" /\ cur = {}
        /\ timeout = 0 /\ slept = 0 /\ waited = 0 /\ tries = 0 /\ stale = FALSE

------------------------------------------------------------------------------
(* A second passes. *)
Tick == /\ main # "done"
        /\ lag' = Upto(lag + 1)
        /\ IF main = "poll" THEN slept' = Upto(slept + 1) /\ waited' = Upto(waited + 1)
                            ELSE UNCHANGED <<slept, waited>>
        /\ UNCHANGED <<timerVars, other, main, back, cur, timeout, tries, stale>>

InUserCode == main \in {"setup", "callback"}

UserInit(t) == InUserCode /\ apc_timer_init(t)
UserStart(t) == InUserCode /\ StartSome(t)
UserStop(t) == InUserCode /\ apc_timer_stop(t)
UserRestart(t) == InUserCode /\ apc_timer_restart(t)
UserClose(t) == InUserCode /\ CloseSome(t)

UserTimer == /\ \E t \in Timer : \/ UserInit(t) \/ UserStart(t) \/ UserStop(t)
                                 \/ UserRestart(t) \/ UserClose(t)
             /\ UNCHANGED <<other, lag, main, back, cur, pollVars>>

UserOther == /\ InUserCode /\ OtherHandle
             /\ UNCHANGED <<lag, main, back, cur, pollVars>>

User == UserTimer \/ UserOther

Callback(who, next) == main' = "callback" /\ cur' = who /\ back' = next

CallbackReturns == /\ main = "callback"
                   /\ main' = back /\ cur' = {} /\ back' = "setup"
                   /\ UNCHANGED <<timerVars, other, lag, pollVars>>

LoopStart == /\ main = "setup"
             /\ main' = "check"
             /\ UNCHANGED <<timerVars, other, lag, back, cur, pollVars>>

(* Mutant: a closing handle does not keep the loop alive. *)
apc_loop_active_no_closing == active_handles > 0

apc_loop_active_ == active_handles > 0 \/ closing_queue # <<>>

(* Mutant: loop->now is not read again. *)
LoopCheck_old_now ==
    /\ main = "check"
    /\ main' = IF apc_loop_active_ THEN "timers" ELSE "done"
    /\ UNCHANGED <<timerVars, other, lag, back, cur, pollVars>>

(* Line 147, and line 148 if the loop goes on. *)
LoopCheck ==
    /\ main = "check"
    /\ IF apc_loop_active_
       THEN /\ main' = "timers"
            /\ due' = [t \in Timer |-> IF t \in heap THEN due[t] - lag ELSE 0]
            /\ lag' = 0
       ELSE main' = "done" /\ UNCHANGED <<due, lag>>
    /\ UNCHANGED <<flags, inited, duration, restart, has_cb, id, heap,
                   closing_queue, active_handles, other, back, cur, pollVars>>

IsDue == heap # {} /\ due[HeapHead] <= 0

(* Mutant: a restarted timer goes back with the end it had. *)
FireTimer_old_end ==
    /\ main = "timers" /\ IsDue
    /\ LET t == HeapHead IN
       /\ IF restart[t] = 1
          THEN /\ Enter(t, due[t], heap \ {t}, IdsWithout(t))
               /\ UNCHANGED active_handles
          ELSE Leave(t) /\ flags' = [flags EXCEPT ![t] = 0]
       /\ Callback({t}, "timers")
    /\ UNCHANGED <<inited, duration, restart, has_cb, closing_queue,
                   other, lag, pollVars>>

(* One turn of run_timers: the timer that is due is stopped, started again *)
(* if it restarts, and its callback runs.                                  *)
FireTimer ==
    /\ main = "timers" /\ IsDue
    /\ LET t == HeapHead IN
       /\ IF restart[t] = 1
          THEN /\ Enter(t, duration[t], heap \ {t}, IdsWithout(t))
               /\ UNCHANGED active_handles
          ELSE Leave(t) /\ flags' = [flags EXCEPT ![t] = 0]
       /\ Callback({t}, "timers")
    /\ UNCHANGED <<inited, duration, restart, has_cb, closing_queue,
                   other, lag, pollVars>>

(* Mutant: a loop that is about to end waits all the same. *)
get_timeout_inactive ==
    IF closing_queue # <<>> THEN 0
    ELSE IF heap = {} THEN -1
    ELSE IF IsDue THEN 0 ELSE IF due[HeapHead] > MaxWait THEN MaxWait ELSE due[HeapHead]

get_timeout ==
    IF ~apc_loop_active_ \/ closing_queue # <<>> THEN 0
    ELSE IF heap = {} THEN -1
    ELSE IF IsDue THEN 0 ELSE IF due[HeapHead] > MaxWait THEN MaxWait ELSE due[HeapHead]

(* run_timers is through; the loop enters its poll. *)
PollStart == /\ main = "timers" /\ ~IsDue
             /\ main' = "poll"
             /\ timeout' = get_timeout /\ slept' = 0 /\ waited' = 0
             /\ tries' = PollTries - 1 /\ stale' = FALSE
             /\ UNCHANGED <<timerVars, other, lag, back, cur>>

PollReturns == /\ main' = "closing" /\ timeout' = 0 /\ slept' = 0 /\ waited' = 0
               /\ tries' = 0

(* Back to epoll_wait, if count allows it, to wait for at most ms. *)
PollAgain(ms) ==
    IF tries = 0 THEN PollReturns
    ELSE /\ timeout' = ms /\ waited' = 0 /\ tries' = tries - 1
         /\ UNCHANGED <<main, slept>>

(* Nothing happened for the whole timeout (lines 326 to 334). *)
PollTimesOut == /\ main = "poll" /\ timeout >= 0 /\ waited >= timeout
                /\ PollReturns /\ stale' = FALSE
                /\ UNCHANGED <<timerVars, other, lag, back, cur>>

(* Mutant: update_timeout_ is not used after a signal. *)
PollInterrupted_whole ==
    /\ main = "poll"
    /\ IF timeout = 0 THEN PollReturns ELSE PollAgain(timeout)
    /\ stale' = FALSE
    /\ UNCHANGED <<timerVars, other, lag, back, cur>>

(* A signal (lines 335 to 350).  base is not moved, so that a second       *)
(* signal takes the time before the first off the timeout once more.       *)
PollInterrupted ==
    /\ main = "poll"
    /\ IF timeout = -1 THEN PollAgain(-1)
       ELSE IF timeout - slept <= 0 THEN PollReturns
       ELSE PollAgain(timeout - slept)
    /\ stale' = FALSE
    /\ UNCHANGED <<timerVars, other, lag, back, cur>>

(* Events for watchers that are gone, and no others (lines 384 to 389):    *)
(* the timeout is not updated.                                             *)
PollStale == /\ main = "poll"
             /\ IF timeout = 0 THEN PollReturns ELSE PollAgain(timeout)
             /\ stale' = TRUE
             /\ UNCHANGED <<timerVars, other, lag, back, cur>>

(* An event no user's callback comes of, such as a byte in the wakeup pipe *)
(* with nothing delivered.                                                 *)
PollWoken == /\ main = "poll"
             /\ PollReturns /\ stale' = FALSE
             /\ UNCHANGED <<timerVars, other, lag, back, cur>>

(* The other handle's event.  If the batch was full, the poll looks once   *)
(* more without waiting (lines 377 to 383).                                *)
PollEvent ==
    /\ main = "poll" /\ other
    /\ timeout' = 0 /\ slept' = 0 /\ waited' = 0 /\ stale' = FALSE
    /\ \/ Callback({}, "closing") /\ tries' = 0
       \/ tries > 0 /\ Callback({}, "poll") /\ tries' = tries - 1
    /\ UNCHANGED <<timerVars, other, lag>>

(* One turn of run_closing. *)
RunClosing ==
    /\ main = "closing" /\ closing_queue # <<>>
    /\ LET t == Head(closing_queue) IN
       /\ closing_queue' = Tail(closing_queue)
       /\ flags' = [flags EXCEPT ![t] = 0]
       /\ Callback({t}, "closing")
    /\ UNCHANGED <<inited, duration, restart, has_cb, due, id, heap,
                   active_handles, other, lag, pollVars>>

ClosingDone == /\ main = "closing" /\ closing_queue = <<>>
               /\ main' = "check"
               /\ UNCHANGED <<timerVars, other, lag, back, cur, pollVars>>

Loop == LoopStart \/ LoopCheck \/ FireTimer \/ PollStart \/ PollTimesOut
            \/ RunClosing \/ ClosingDone \/ CallbackReturns

Next == Tick \/ User \/ Loop \/ PollInterrupted \/ PollStale \/ PollWoken \/ PollEvent

Spec == Init /\ [][Next]_vars

(* The program calls apc_loop_run, the loop's thread runs, callbacks       *)
(* return and time passes.  Nothing is assumed of signals, events and      *)
(* what users do.                                                          *)
FairSpec == Spec /\ WF_vars(Loop) /\ WF_vars(Tick)

------------------------------------------------------------------------------
(* Type invariant; the counter is never below zero (the assertion in       *)
(* apc_deregister_handle_).                                                *)
TypeOK ==
    /\ flags \in [Timer -> {0, HANDLE_ACTIVE, HANDLE_CLOSING}]
    /\ inited \subseteq Timer /\ has_cb \subseteq Timer /\ heap \subseteq Timer
    /\ duration \in [Timer -> Durations \cup {-1}]
    /\ restart \in [Timer -> {0, 1}]
    /\ due \in [Timer -> (-MaxDuration)..MaxDuration]
    /\ id \in [Timer -> 0..Cardinality(Timer)]
    /\ closing_queue \in Seq(Timer)
    /\ active_handles \in Nat /\ other \in BOOLEAN
    /\ lag \in 0..MaxDuration
    /\ main \in {"setup", "check", "timers", "poll", "closing", "callback", "done"}
    /\ back \in {"setup", "timers", "poll", "closing"}
    /\ cur \in {{}} \cup {{t} : t \in Timer}
    /\ timeout \in -1..MaxDuration
    /\ slept \in 0..MaxDuration /\ waited \in 0..MaxDuration
    /\ tries \in 0..PollTries /\ stale \in BOOLEAN

(* Whatever calls the callbacks make, a timer has HANDLE_ACTIVE exactly    *)
(* while its node is in the heap, and active_handles counts those timers   *)
(* (and the other handle) and nothing else: the loop runs as long as       *)
(* there is something to wait for.  Each started timer has its own id.     *)
HandlesCounted ==
    /\ \A t \in Timer : Active(t) <=> t \in heap
    /\ active_handles = Cardinality(heap) + IF other THEN 1 ELSE 0
    /\ {id[t] : t \in heap} = 0..(Cardinality(heap) - 1)

(* A timer that was closed never fires again: it is not in the heap until  *)
(* it is initialised anew; its closing callback is due once, and only if   *)
(* apc_close was given one.                                                *)
ClosedTimersSilent ==
    /\ heap \subseteq inited \cap has_cb
    /\ \A i, j \in DOMAIN closing_queue :
          closing_queue[i] = closing_queue[j] => i = j
    /\ \A t \in Closing : t \notin inited /\ flags[t] = HANDLE_CLOSING

(* The loop goes to sleep only if something can wake it.  If a timer is    *)
(* started, the sleep has a limit, and with the time this poll has already *)
(* taken (slept - waited) it ends no later than that timer's end, however  *)
(* many signals interrupt it.  One case is excepted, because the code does *)
(* not have it there: after a batch of dead events alone the timeout is    *)
(* not updated, so that the whole of it begins anew, past that end; such a *)
(* sleep is only known not to be longer than the first one, and the next   *)
(* signal brings it back.  Ends are counted from loop->now, so the time    *)
(* that callbacks took since then comes on top.  Closing handles never     *)
(* wait for events.                                                        *)
SleepBounded ==
    main = "poll" /\ timeout # 0 =>
        /\ closing_queue = <<>>
        /\ active_handles > 0
        /\ IF heap = {} THEN timeout = -1 /\ other
           ELSE /\ timeout \in 1..due[HeapHead]
                /\ ~stale => slept - waited + timeout <= due[HeapHead]

(* A started timer of no duration: it is due at once, and if it restarts   *)
(* run_timers has no end.                                                  *)
ZeroTimer == \E t \in heap : duration[t] = 0

(* Liveness: a timer that stays started fires, again and again if it       *)
(* restarts, unless the user restarts it for ever before it is due, or     *)
(* closes handles for ever: run_closing goes on until closing_queue is     *)
(* empty, and a closing callback can fill it again.  A timer of no         *)
(* duration may keep the others waiting for ever.                          *)
DueTimersFire ==
    \A t \in Timer :
        \/ []<>(t \notin heap)
        \/ []<><<FireTimer /\ cur' = {t}>>_vars
        \/ []<><<UserRestart(t)>>_vars
        \/ []<><<UserTimer /\ Len(closing_queue') > Len(closing_queue)>>_vars
        \/ []<>ZeroTimer

(* Liveness: each closing callback that apc_close was given is called.     *)
ClosingDelivered ==
    \A t \in Timer : t \in Closing ~>
        (main = "callback" /\ cur = {t} /\ t \notin Closing) \/ ZeroTimer

(* Liveness: run_timers comes to an end although timers restart inside it, *)
(* with durations of at least one second.                                  *)
TimersReturn == main = "timers" ~> main = "poll" \/ ZeroTimer

(* Liveness: apc_loop_run returns once no handle is active or closing.     *)
LoopReturns == <>[](active_handles = 0 /\ closing_queue = <<>>) => <>(main = "done")
==============================================================================
