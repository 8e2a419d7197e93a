------------------------------- MODULE Reactor -------------------------------
(***************************************************************************)
(* reactor/reactor.c on Linux: the watchers, the table that finds the      *)
(* watcher of a descriptor, the queue of watchers whose interest the       *)
(* kernel does not know yet, and what epoll_wait may then report.          *)
(*                                                                         *)
(* The kernel is external: it hands out the lowest free descriptor, it     *)
(* forgets the interest in a descriptor that is closed, and it may report  *)
(* any descriptor it was told to watch, level-triggered.  "ERR" stands for *)
(* EPOLLERR and EPOLLHUP, which are reported without being asked for.      *)
(***************************************************************************)
EXTENDS Integers, FiniteSets, FiniteSetsExt

CONSTANTS Handles,          \* a watcher is the watcher of one handle
          Fds,              \* the descriptors the process may have
          NoHandle

ASSUME ReactorAssumption == /\ Fds \subseteq Nat /\ IsFiniteSet(Fds)
                            /\ NoHandle \notin Handles

VARIABLES watcher,          \* apc_event_watcher of each handle
          event_watchers,   \* reactor->event_watchers: descriptor -> watcher
          open,             \* the descriptors that are open
          epoll             \* the interest set: descriptor -> events

reactorVars == <<watcher, event_watchers>>
kernelVars == <<open, epoll>>

NoFd == -1
PollEvents == {"IN", "OUT"}

NewWatcher == [fd |-> NoFd, events |-> {}, registered |-> FALSE, queued |-> FALSE]

ReactorInit == /\ watcher = [h \in Handles |-> NewWatcher]
               /\ event_watchers = [f \in Fds |-> NoHandle]
               /\ open = {}
               /\ epoll = [f \in Fds |-> {}]

ReactorTypeOK ==
    /\ watcher \in [Handles -> [fd : Fds \cup {NoFd}, events : SUBSET PollEvents,
                                registered : BOOLEAN, queued : BOOLEAN]]
    /\ event_watchers \in [Fds -> Handles \cup {NoHandle}]
    /\ open \subseteq Fds
    /\ epoll \in [Fds -> SUBSET PollEvents]

------------------------------------------------------------------------------
(* The kernel: socket, accept and close. *)
HasFreeFd == open # Fds
FreeFd == Min(Fds \ open)
FdOf(h) == watcher[h].fd

CloseFds(closed) == /\ open' = open \ closed
                    /\ epoll' = [f \in Fds |-> IF f \in closed THEN {} ELSE epoll[f]]

------------------------------------------------------------------------------
apc_event_watcher_init(f) == [NewWatcher EXCEPT !.fd = f]

Watches(h, e) == e \in watcher[h].events        \* apc_event_watcher_active

(* `w` is the watcher of `h` before the call. *)
RegisterAs(h, w, events) ==
    /\ watcher' = [watcher EXCEPT ![h] = [w EXCEPT !.events = @ \cup events,
                                                   !.queued = TRUE]]
    /\ event_watchers' = [event_watchers EXCEPT ![w.fd] = IF @ = NoHandle THEN h ELSE @]

apc_event_watcher_register(h, events) == RegisterAs(h, watcher[h], events)

Deregistered(h, events) ==
    LET rest == watcher[h].events \ events
    IN  [watcher[h] EXCEPT !.events = rest, !.queued = rest # {},
                           !.registered = @ /\ rest # {}]

(* Mutant: the descriptor keeps its watcher. *)
apc_event_watcher_deregister_in_table(h, events) ==
    /\ watcher' = [watcher EXCEPT ![h] = IF @.fd = NoFd THEN @ ELSE Deregistered(h, events)]
    /\ UNCHANGED event_watchers

apc_event_watcher_deregister(h, events) ==
    IF FdOf(h) = NoFd THEN UNCHANGED reactorVars
    ELSE /\ watcher' = [watcher EXCEPT ![h] = Deregistered(h, events)]
         /\ event_watchers' =
              IF Deregistered(h, events).events = {}
              THEN [event_watchers EXCEPT ![FdOf(h)] = NoHandle]
              ELSE event_watchers

(* apc_event_watcher_close: no interest is left, in the kernel either. *)
apc_event_watcher_close(h) ==
    /\ apc_event_watcher_deregister(h, PollEvents)
    /\ epoll' = [f \in Fds |-> IF f = FdOf(h) THEN {} ELSE epoll[f]]
    /\ UNCHANGED open

------------------------------------------------------------------------------
(* The first half of apc_reactor_poll: the queued watchers, in any order,   *)
(* give the kernel their events (ADD, or MOD for one it has).               *)
Interest == [f \in Fds |->
                LET news == {h \in Handles : watcher[h].queued /\ FdOf(h) = f}
                IN  IF news = {} THEN epoll[f] ELSE UNION {watcher[h].events : h \in news}]

TellKernel ==
    /\ epoll' = Interest
    /\ watcher' = [h \in Handles |-> IF watcher[h].queued
                                     THEN [watcher[h] EXCEPT !.queued = FALSE, !.registered = TRUE]
                                     ELSE watcher[h]]
    /\ UNCHANGED <<event_watchers, open>>

(* What epoll_wait can return, given the events a descriptor never has:     *)
(* some of those asked for, or only an error.  An error that comes together *)
(* with other events changes nothing for those who get them.                *)
Reports(never) ==
    {b \in [Fds -> (SUBSET PollEvents) \cup {{"ERR"}}] :
        \A f \in Fds : IF Interest[f] = {} THEN b[f] = {}
                       ELSE b[f] \subseteq (Interest[f] \cup {"ERR"}) \ never[f]}

(* The events of a report that its descriptor's present watcher asks for. *)
Wanted(h, events) == events \cap (watcher[h].events \cup {"ERR"})

(* An event for a descriptor nobody watches any more. *)
DropInterest(f) == /\ epoll' = [epoll EXCEPT ![f] = {}]
                   /\ UNCHANGED <<watcher, event_watchers, open>>
==============================================================================
