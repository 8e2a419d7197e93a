------------------------------ MODULE Net_proofs ------------------------------
(***************************************************************************)
(* Proofs about Net for any handles, descriptors, writes and sizes, under  *)
(* the use of the library that the passing runs have (Allows = {}).        *)
(*                                                                         *)
(* The inductive invariant IInv ties four things together: the watchers,   *)
(* the reactor's table and the kernel's interest set (Watchers); the       *)
(* descriptors of connections that on_connection has not disposed of       *)
(* (Connections); what the state of a handle says of its descriptor and    *)
(* its writes (Sockets); and what a suspended function of the library will *)
(* find when its callback returns (Suspended).  A call of the user keeps   *)
(* it because of what it leaves alone (Call), a step of the library that   *)
(* serves a handle because only one function is then on the stack (Step),  *)
(* and apc_close, which may be suspended under other functions, by itself. *)
(* The last section shows that what is left of a closed handle (Zeroed)    *)
(* keeps the suspended functions off it.                                   *)
(***************************************************************************)
EXTENDS Net, Lemmas, SequenceTheorems

Flushing == {"flush", "on_flush"}

Fields == {"state", "use", "flags", "role", "reading", "connecting", "accepted", "size"}

(* What the proofs need of the types. *)
HandleShape ==
    /\ DOMAIN handle = Handles
    /\ \A h \in Handles :
          /\ DOMAIN handle[h] = Fields
          /\ handle[h].state \in {"free", "open", "closing"}
          /\ handle[h].connecting \in BOOLEAN
          /\ handle[h].accepted \in Fds \cup {NoFd}

NetShape ==
    /\ ReactorTypeOK
    /\ HandleShape
    /\ write_queue \in [Handles -> Seq(Reqs)]
    /\ closing_queue \in Seq(Handles)
    /\ stack \in Seq(Frames)

(* A descriptor belongs to one handle; the table finds under it the handle  *)
(* that waits for events, and no other; the kernel's interest is that of a  *)
(* watcher that waits.                                                      *)
Apart == \A h \in Handles : FdOf(h) # NoFd =>
    FdOf(h) \in open /\ \A g \in Handles \ {h} : FdOf(g) # FdOf(h)
Table == \A f \in Fds : event_watchers[f] # NoHandle =>
    FdOf(event_watchers[f]) = f /\ watcher[event_watchers[f]].events # {}
Listed == \A h \in Handles : watcher[h].events # {} =>
    FdOf(h) # NoFd /\ event_watchers[FdOf(h)] = h
Told == \A h \in Handles :
    /\ watcher[h].queued => watcher[h].events # {}
    /\ watcher[h].registered => watcher[h].events # {} /\ epoll[FdOf(h)] # {}

Watchers == Apart /\ Table /\ Listed /\ Told

(* A connection that on_connection was told of and that nobody has taken: a *)
(* server that closed one keeps its number in accepted_fd.                  *)
Held(h) == handle[h].accepted # NoFd /\ InFrame(h, "on_connection")

Connections == \A h \in Handles : Held(h) =>
    /\ handle[h].accepted \in open
    /\ \A g \in Handles : FdOf(g) # handle[h].accepted
    /\ \A g \in Handles \ {h} : Held(g) => handle[g].accepted # handle[h].accepted

(* Without a descriptor a handle has no role; with one it is open.  Only    *)
(* streams connect and write, and in this order.                            *)
Sockets == \A h \in Handles :
    /\ FdOf(h) = NoFd <=> handle[h].role = "none"
    /\ FdOf(h) # NoFd => handle[h].state = "open"
    /\ handle[h].role # "stream" => ~handle[h].connecting /\ write_queue[h] = <<>>
    /\ handle[h].connecting => write_queue[h] = <<>>

(* A handle is in the closing queue once, and its memory is not used again  *)
(* before its callback.                                                     *)
ClosingQueued ==
    /\ IsInjective(closing_queue)
    /\ \A h \in ToSet(closing_queue) : handle[h].state = "closing"

(* What the function of frame `i` finds: while apc_close answers writes the *)
(* handle is open, waits for nothing, and no other frame closes it or       *)
(* answers its writes.                                                      *)
Resumable(i) == LET h == stack[i].h IN
    /\ stack[i].pc \in Flushing =>
          /\ handle[h].state = "open" /\ watcher[h].events = {}
          /\ handle[h].accepted # NoFd => InFrame(h, "on_connection")
          /\ \A j \in 1..Len(stack) : j # i /\ stack[j].h = h
                => stack[j].q = <<>> /\ stack[j].pc \notin Flushing
    /\ stack[i].pc \notin Flushing \cup {"on_closing"} =>
          /\ handle[h].state # "free"
          /\ handle[h].state = "open" => FdOf(h) # NoFd
          /\ stack[i].pc = "connect" <=> handle[h].connecting
    /\ stack[i].q # <<>> => handle[h].state = "open"

(* Only apc_close calls back while other functions are suspended below it.  *)
Suspended ==
    /\ \A i \in 2..Len(stack) : stack[i].pc \in CallbackPcs
    /\ \A i \in 1..(Len(stack) - 1) : stack[i].pc \in Flushing
    /\ \A i \in 1..Len(stack) : Resumable(i)

IInv == /\ NetShape /\ Watchers /\ Connections /\ Sockets /\ ClosingQueued
        /\ Suspended /\ PendingWatched

-----------------------------------------------------------------------------
(* The reactor. *)

(* What a step leaves to the watchers: their descriptors are still open and *)
(* the kernel has the same interest in them.                               *)
KernelKept ==
    /\ open' \subseteq Fds /\ epoll' \in [Fds -> SUBSET PollEvents]
    /\ \A g \in Handles : FdOf(g) # NoFd =>
          /\ FdOf(g) \in open'
          /\ watcher'[g].registered => epoll'[FdOf(g)] = epoll[FdOf(g)]

(* Every watcher but that of `h` is as it was. *)
OnlyWatcher(h) == \A g \in Handles \ {h} : watcher'[g] = watcher[g]

(* No descriptor is -1, no handle is the absent one. *)
LEMMA FdNumbers == NoFd \notin Fds /\ NoHandle \notin Handles
BY ReactorAssumption DEF NoFd

(* apc_event_watcher_register of a watcher with a descriptor. *)
LEMMA RegisterFacts ==
    ASSUME ReactorTypeOK, Watchers, KernelKept,
           NEW h \in Handles, FdOf(h) # NoFd,
           NEW ev \in SUBSET PollEvents, ev # {},
           apc_event_watcher_register(h, ev)
    PROVE  /\ ReactorTypeOK' /\ Watchers' /\ OnlyWatcher(h)
           /\ watcher'[h].fd = FdOf(h)
           /\ watcher'[h].events = watcher[h].events \cup ev
<1> DEFINE w == watcher[h]
           new == [w EXCEPT !.events = @ \cup ev, !.queued = TRUE]
<1> USE FdNumbers DEF ReactorTypeOK, FdOf
<1>1. /\ watcher' = [watcher EXCEPT ![h] = new]
      /\ event_watchers' = [event_watchers EXCEPT ![w.fd] = IF @ = NoHandle THEN h ELSE @]
  BY DEF apc_event_watcher_register, RegisterAs
<1>2. /\ new.fd = w.fd /\ new.events = w.events \cup ev /\ new.queued = TRUE
      /\ new.registered = w.registered
      /\ new \in [fd : Fds \cup {NoFd}, events : SUBSET PollEvents,
                  registered : BOOLEAN, queued : BOOLEAN]
  OBVIOUS
<1> HIDE DEF new
<1>3. watcher'[h] = new /\ \A g \in Handles \ {h} : watcher'[g] = watcher[g]
  BY <1>1
<1>4. ReactorTypeOK'
  BY <1>1, <1>2 DEF KernelKept
<1>5. event_watchers'[w.fd] = h
  BY <1>1 DEF Watchers, Table, Apart
<1>6. \A f \in Fds \ {w.fd} : event_watchers'[f] = event_watchers[f]
  BY <1>1
<1>7. Watchers'
  <2>0. Apart /\ Table /\ Listed /\ Told
    BY DEF Watchers
  <2>1. Apart'
    BY <1>2, <1>3, <2>0 DEF Apart, KernelKept
  <2>2. Table'
    BY <1>2, <1>3, <1>4, <1>5, <1>6, <2>0 DEF Table, Apart
  <2>3. Listed'
    BY <1>2, <1>3, <1>5, <1>6, <2>0 DEF Listed, Apart
  <2>4. Told'
    BY <1>2, <1>3, <2>0 DEF Told, Listed, KernelKept
  <2> QED
    BY <2>1, <2>2, <2>3, <2>4 DEF Watchers
<1> QED
  BY <1>2, <1>3, <1>4, <1>7 DEF OnlyWatcher

(* A descriptor that no handle has is given to one without a descriptor. *)
LEMMA NewFdFacts ==
    ASSUME ReactorTypeOK, Watchers, KernelKept,
           NEW h \in Handles, FdOf(h) = NoFd,
           NEW f \in Fds, f \in open', \A g \in Handles : FdOf(g) # f,
           NEW ev \in SUBSET PollEvents,
           \/ /\ ev = {} /\ watcher' = [watcher EXCEPT ![h] = apc_event_watcher_init(f)]
              /\ UNCHANGED event_watchers
           \/ ev # {} /\ RegisterAs(h, apc_event_watcher_init(f), ev)
    PROVE  /\ ReactorTypeOK' /\ Watchers' /\ OnlyWatcher(h)
           /\ watcher'[h].fd = f /\ watcher'[h].events = ev
<1> DEFINE w == apc_event_watcher_init(f)
           new == IF ev = {} THEN w
                  ELSE [w EXCEPT !.events = @ \cup ev, !.queued = TRUE]
<1> USE FdNumbers DEF ReactorTypeOK, FdOf
<1>1. /\ w.fd = f /\ w.events = {} /\ w.registered = FALSE /\ w.queued = FALSE
      /\ w \in [fd : Fds \cup {NoFd}, events : SUBSET PollEvents,
                registered : BOOLEAN, queued : BOOLEAN]
  BY DEF apc_event_watcher_init, NewWatcher
<1>2. /\ new.fd = f /\ new.events = ev /\ new.queued = (ev # {})
      /\ new.registered = FALSE
      /\ new \in [fd : Fds \cup {NoFd}, events : SUBSET PollEvents,
                  registered : BOOLEAN, queued : BOOLEAN]
  <2> HIDE DEF w
  <2>1. CASE ev = {}
    BY <1>1, <2>1
  <2>2. CASE ev # {}
    BY <1>1, <2>2
  <2> QED
    BY <2>1, <2>2
<1>3. w.fd = f
  BY <1>1
<1> HIDE DEF w
<1>4. event_watchers[f] = NoHandle
  BY DEF Watchers, Table
<1>5. /\ watcher' = [watcher EXCEPT ![h] = new]
      /\ event_watchers' = [event_watchers EXCEPT ![f] = IF ev = {} THEN @ ELSE h]
  <2>1. CASE ev = {}
    BY <2>1, <1>4 DEF w
  <2>2. CASE ev # {}
    BY <2>2, <1>3, <1>4 DEF w, RegisterAs
  <2> QED
    BY <2>1, <2>2
<1> HIDE DEF new
<1>6. watcher'[h] = new /\ \A g \in Handles \ {h} : watcher'[g] = watcher[g]
  BY <1>5
<1>7. ReactorTypeOK'
  BY <1>5, <1>2 DEF KernelKept
<1>8. event_watchers'[f] = IF ev = {} THEN NoHandle ELSE h
  BY <1>4, <1>5
<1>9. \A d \in Fds \ {f} : event_watchers'[d] = event_watchers[d]
  BY <1>5
<1>10. Watchers'
  <2>0. Apart /\ Table /\ Listed /\ Told
    BY DEF Watchers
  <2>1. Apart'
    BY <1>2, <1>6, <2>0 DEF Apart, KernelKept
  <2>2. Table'
    BY <1>2, <1>6, <1>7, <1>8, <1>9, <2>0 DEF Table
  <2>3. Listed'
    BY <1>2, <1>6, <1>8, <1>9, <2>0 DEF Listed
  <2>4. Told'
    BY <1>2, <1>6, <2>0 DEF Told, Listed, KernelKept
  <2> QED
    BY <2>1, <2>2, <2>3, <2>4 DEF Watchers
<1> QED
  BY <1>2, <1>6, <1>7, <1>10 DEF OnlyWatcher

(* apc_event_watcher_deregister, which does nothing without a descriptor. *)
LEMMA DeregisterFacts ==
    ASSUME ReactorTypeOK, Watchers, KernelKept,
           NEW h \in Handles, NEW ev \in SUBSET PollEvents,
           apc_event_watcher_deregister(h, ev)
    PROVE  /\ ReactorTypeOK' /\ Watchers' /\ OnlyWatcher(h)
           /\ watcher'[h].fd = FdOf(h)
           /\ watcher'[h].events = watcher[h].events \ ev
<1> DEFINE w == watcher[h]
           new == Deregistered(h, ev)
<1> USE FdNumbers DEF ReactorTypeOK, FdOf
<1>1. CASE FdOf(h) = NoFd
  <2>1. UNCHANGED <<watcher, event_watchers>>
    BY <1>1 DEF apc_event_watcher_deregister, reactorVars
  <2>2. watcher[h].events = {}
    BY <1>1 DEF Watchers, Listed
  <2>3. ReactorTypeOK' /\ Watchers'
    BY <2>1 DEF Watchers, KernelKept, Apart, Table, Listed, Told
  <2> QED
    BY <2>1, <2>2, <2>3 DEF OnlyWatcher
<1>2. CASE FdOf(h) # NoFd
  <2>1. /\ new.fd = w.fd /\ new.events = w.events \ ev
        /\ new.queued = (w.events \ ev # {})
        /\ new.registered => w.registered /\ w.events \ ev # {}
        /\ new \in [fd : Fds \cup {NoFd}, events : SUBSET PollEvents,
                    registered : BOOLEAN, queued : BOOLEAN]
    BY DEF Deregistered
  <2> HIDE DEF new
  <2>2. /\ watcher' = [watcher EXCEPT ![h] = new]
        /\ event_watchers' = IF new.events = {}
                             THEN [event_watchers EXCEPT ![w.fd] = NoHandle]
                             ELSE event_watchers
    BY <1>2 DEF apc_event_watcher_deregister, new
  <2>3. watcher'[h] = new /\ \A g \in Handles \ {h} : watcher'[g] = watcher[g]
    BY <2>2
  <2>4. ReactorTypeOK'
    BY <2>1, <2>2 DEF KernelKept
  <2>5. /\ event_watchers'[w.fd] = IF new.events = {} THEN NoHandle
                                   ELSE event_watchers[w.fd]
        /\ \A f \in Fds \ {w.fd} : event_watchers'[f] = event_watchers[f]
    BY <1>2, <2>2
  <2>6. Watchers'
    <3>0. Apart /\ Table /\ Listed /\ Told
      BY DEF Watchers
    <3>1. Apart'
      BY <2>1, <2>3, <3>0 DEF Apart, KernelKept
    <3>2. Table'
      BY <1>2, <2>1, <2>3, <2>4, <2>5, <3>0 DEF Table, Apart
    <3>3. Listed'
      BY <1>2, <2>1, <2>3, <2>5, <3>0 DEF Listed, Apart
    <3>4. Told'
      BY <2>1, <2>3, <3>0 DEF Told, Listed, KernelKept
    <3> QED
      BY <3>1, <3>2, <3>3, <3>4 DEF Watchers
  <2> QED
    BY <2>1, <2>3, <2>4, <2>6 DEF OnlyWatcher
<1> QED
  BY <1>1, <1>2

(* The watchers stay as they are. *)
LEMMA SameWatchersFacts ==
    ASSUME ReactorTypeOK, Watchers, KernelKept, UNCHANGED reactorVars
    PROVE  ReactorTypeOK' /\ Watchers'
BY DEF ReactorTypeOK, Watchers, KernelKept, Apart, Table, Listed, Told, FdOf, reactorVars

(* apc_event_watcher_close leaves no event and no interest. *)
LEMMA WatcherCloseFacts ==
    ASSUME ReactorTypeOK, Watchers, NEW h \in Handles, apc_event_watcher_close(h)
    PROVE  /\ ReactorTypeOK' /\ Watchers' /\ OnlyWatcher(h)
           /\ watcher'[h].fd = FdOf(h) /\ watcher'[h].events = {}
<1>1. apc_event_watcher_deregister(h, PollEvents)
  BY DEF apc_event_watcher_close
<1>2. \A g \in Handles \ {h} : watcher'[g] = watcher[g]
  BY <1>1 DEF apc_event_watcher_deregister, ReactorTypeOK, reactorVars
<1>3. FdOf(h) # NoFd => ~watcher'[h].registered
  <2>1. watcher[h].events \ PollEvents = {}
    BY DEF ReactorTypeOK
  <2>2. Deregistered(h, PollEvents).registered = FALSE
    BY <2>1 DEF Deregistered, ReactorTypeOK
  <2>3. FdOf(h) # NoFd => watcher'[h] = Deregistered(h, PollEvents)
    BY <1>1 DEF apc_event_watcher_deregister, ReactorTypeOK
  <2> QED
    BY <2>2, <2>3
<1>4. KernelKept
  BY <1>2, <1>3, FdNumbers
     DEF apc_event_watcher_close, KernelKept, ReactorTypeOK, Watchers, Apart, FdOf
<1>5. watcher[h].events \ PollEvents = {}
  BY DEF ReactorTypeOK
<1> QED
  BY <1>1, <1>4, <1>5, DeregisterFacts

(* The descriptor of a watcher without events is taken away. *)
LEMMA NoFdFacts ==
    ASSUME ReactorTypeOK, Watchers, NEW h \in Handles, watcher[h].events = {},
           watcher' = [watcher EXCEPT ![h].fd = NoFd], UNCHANGED event_watchers,
           NEW closed, CloseFds(closed),
           \A g \in Handles \ {h} : FdOf(g) # NoFd => FdOf(g) \notin closed
    PROVE  /\ ReactorTypeOK' /\ Watchers' /\ OnlyWatcher(h)
           /\ watcher'[h].fd = NoFd /\ watcher'[h].events = {}
<1> USE FdNumbers DEF ReactorTypeOK, FdOf
<1>1. /\ \A g \in Handles \ {h} : watcher'[g] = watcher[g]
      /\ watcher'[h].fd = NoFd /\ watcher'[h].events = {}
      /\ watcher'[h].queued = watcher[h].queued
      /\ watcher'[h].registered = watcher[h].registered
  OBVIOUS
<1>2. /\ open' \subseteq open
      /\ \A g \in Handles \ {h} : FdOf(g) # NoFd =>
            /\ FdOf(g) \in open => FdOf(g) \in open'
            /\ epoll'[FdOf(g)] = epoll[FdOf(g)]
  BY DEF CloseFds
<1>3. ReactorTypeOK'
  BY <1>2 DEF CloseFds
<1>4. Apart /\ Table /\ Listed /\ Told
  BY DEF Watchers
<1>5. Apart'
  BY <1>1, <1>2, <1>4 DEF Apart
<1>6. Table' /\ Listed'
  BY <1>1, <1>4 DEF Table, Listed
<1>7. Told'
  BY <1>1, <1>2, <1>4 DEF Told, Listed
<1> QED
  BY <1>1, <1>3, <1>5, <1>6, <1>7 DEF Watchers, OnlyWatcher

(* The first half of apc_reactor_poll. *)
LEMMA TellKernelFacts ==
    ASSUME ReactorTypeOK, Watchers, TellKernel
    PROVE  /\ ReactorTypeOK' /\ Watchers'
           /\ \A h \in Handles : /\ watcher'[h].fd = FdOf(h)
                                 /\ watcher'[h].events = watcher[h].events
<1> USE FdNumbers DEF ReactorTypeOK, FdOf
<1>1. \A h \in Handles :
         /\ watcher'[h].fd = FdOf(h) /\ watcher'[h].events = watcher[h].events
         /\ ~watcher'[h].queued
         /\ watcher'[h].registered <=> watcher[h].registered \/ watcher[h].queued
         /\ watcher'[h] \in [fd : Fds \cup {NoFd}, events : SUBSET PollEvents,
                             registered : BOOLEAN, queued : BOOLEAN]
  BY DEF TellKernel
<1>2. Apart /\ Table /\ Listed /\ Told
  BY DEF Watchers
<1>3. ASSUME NEW f \in Fds
      PROVE  /\ epoll'[f] \in SUBSET PollEvents
             /\ \A h \in Handles : watcher[h].queued /\ FdOf(h) = f
                    => watcher[h].events \subseteq epoll'[f]
             /\ (\A h \in Handles : ~(watcher[h].queued /\ FdOf(h) = f))
                    => epoll'[f] = epoll[f]
  <2> DEFINE news == {h \in Handles : watcher[h].queued /\ FdOf(h) = f}
  <2>1. epoll'[f] = IF news = {} THEN epoll[f]
                    ELSE UNION {watcher[h].events : h \in news}
    BY DEF TellKernel, Interest
  <2> QED
    BY <2>1
<1>4. epoll' \in [Fds -> SUBSET PollEvents]
  <2>1. epoll' = [f \in Fds |-> epoll'[f]]
    BY DEF TellKernel, Interest
  <2> QED
    BY <2>1, <1>3
<1>5. ReactorTypeOK'
  <2>1. watcher' = [h \in Handles |-> watcher'[h]]
    BY DEF TellKernel
  <2>2. UNCHANGED <<event_watchers, open>>
    BY DEF TellKernel
  <2> QED
    BY <2>1, <2>2, <1>1, <1>4
<1>6. Apart' /\ Table' /\ Listed'
  <2>1. event_watchers' = event_watchers /\ open' = open
    BY DEF TellKernel
  <2>2. Apart'
    BY <1>1, <1>2, <2>1 DEF Apart
  <2>3. Table'
    BY <1>1, <1>2, <2>1 DEF Table
  <2>4. Listed'
    BY <1>1, <1>2, <2>1 DEF Listed
  <2> QED
    BY <2>2, <2>3, <2>4
<1>7. Told'
  <2> SUFFICES ASSUME NEW h \in Handles, watcher'[h].registered
               PROVE  watcher[h].events # {} /\ epoll'[FdOf(h)] # {}
    BY <1>1 DEF Told
  <2>1. watcher[h].events # {} /\ FdOf(h) \in Fds
    BY <1>1, <1>2 DEF Told, Listed
  <2>2. CASE \E g \in Handles : watcher[g].queued /\ FdOf(g) = FdOf(h)
    <3>1. PICK g \in Handles : watcher[g].queued /\ FdOf(g) = FdOf(h)
      BY <2>2
    <3>2. watcher[g].events # {} /\ watcher[g].events \subseteq epoll'[FdOf(h)]
      BY <3>1, <2>1, <1>2, <1>3 DEF Told
    <3> QED
      BY <2>1, <3>2
  <2>3. CASE ~ \E g \in Handles : watcher[g].queued /\ FdOf(g) = FdOf(h)
    <3>1. epoll'[FdOf(h)] = epoll[FdOf(h)] /\ watcher[h].registered
      BY <2>1, <2>3, <1>1, <1>3
    <3> QED
      BY <2>1, <3>1, <1>2 DEF Told
  <2> QED
    BY <2>2, <2>3
<1> QED
  BY <1>1, <1>5, <1>6, <1>7 DEF Watchers

(* The interest in a descriptor without a watcher is dropped. *)
LEMMA DropInterestFacts ==
    ASSUME ReactorTypeOK, Watchers, NEW f \in Fds, event_watchers[f] = NoHandle,
           DropInterest(f)
    PROVE  ReactorTypeOK' /\ Watchers'
<1>1. \A h \in Handles : watcher[h].registered => FdOf(h) # f
  BY FdNumbers DEF Watchers, Listed, Told
<1> QED
  BY <1>1 DEF ReactorTypeOK, Watchers, Apart, Table, Listed, Told, FdOf, DropInterest

-----------------------------------------------------------------------------
(* Calls of the user. *)

(* The stack as a sequence of frames. *)
LEMMA FrameFacts ==
    ASSUME stack \in Seq(Frames)
    PROVE  /\ Len(stack) \in Nat /\ DOMAIN stack = 1..Len(stack)
           /\ stack # <<>> <=> Len(stack) > 0
           /\ stack # <<>> => Top = stack[1] /\ Top \in Frames
           /\ \A i \in 1..Len(stack) : stack[i] \in Frames
BY DEF Top

(* What a call on `h` may change: `h` is not being closed and is or becomes *)
(* open, with another descriptor only if it had none; another handle may    *)
(* lose its fresh connection.                                               *)
Call(h) ==
    /\ UNCHANGED <<stack, closing_queue>>
    /\ ReactorTypeOK' /\ HandleShape' /\ Watchers' /\ OnlyWatcher(h)
    /\ write_queue' \in [Handles -> Seq(Reqs)]
    /\ \A g \in Handles :
          /\ handle'[g].accepted \in {handle[g].accepted, NoFd}
          /\ Held(g)' => /\ handle[g].accepted \in open'
                         /\ FdOf(h)' = FdOf(h) \/ FdOf(h)' # handle[g].accepted
    /\ \A g \in Handles \ {h} :
          /\ handle'[g].state = handle[g].state /\ handle'[g].role = handle[g].role
          /\ handle'[g].connecting = handle[g].connecting
          /\ handle'[g].flags = handle[g].flags
          /\ write_queue'[g] = write_queue[g]
    /\ ~BeingClosed(h) /\ handle[h].state # "closing" /\ handle'[h].state = "open"
    /\ FdOf(h) # NoFd => /\ FdOf(h)' = FdOf(h)
                         /\ handle'[h].connecting = handle[h].connecting
    /\ FdOf(h)' = NoFd <=> handle'[h].role = "none"
    /\ handle'[h].role # "stream" => ~handle'[h].connecting /\ write_queue'[h] = <<>>
    /\ handle'[h].connecting => write_queue'[h] = <<>>
    /\ handle'[h].connecting \/ CanWrite(h)'
          => "OUT" \in watcher'[h].events /\ "ACTIVE" \in handle'[h].flags

(* A call keeps the invariant. *)
LEMMA CallKeeps ==
    ASSUME IInv, NEW h \in Handles, Call(h)
    PROVE  IInv'
<1> USE DEF Call
<1>0. /\ NetShape /\ Watchers /\ Connections /\ Sockets /\ ClosingQueued
      /\ Suspended /\ PendingWatched
  BY DEF IInv
<1>1. NetShape'
  BY <1>0 DEF NetShape
<1>2. \A g \in Handles : \A pc : InFrame(g, pc)' <=> InFrame(g, pc)
  BY DEF InFrame
<1>3. \A g \in Handles : BeingClosed(g)' <=> BeingClosed(g)
  BY <1>2 DEF BeingClosed
<1>4. \A g \in Handles \ {h} : FdOf(g)' = FdOf(g)
  BY DEF OnlyWatcher, FdOf
<1>5. Connections'
  <2> SUFFICES ASSUME NEW g \in Handles, Held(g)'
               PROVE  /\ handle'[g].accepted \in open'
                      /\ \A k \in Handles : FdOf(k)' # handle'[g].accepted
                      /\ \A k \in Handles \ {g} : Held(k)' =>
                            handle'[k].accepted # handle'[g].accepted
    BY DEF Connections
  <2>1. \A k \in Handles : Held(k)' => Held(k) /\ handle'[k].accepted = handle[k].accepted
    BY <1>2 DEF Held
  <2>2. \A k \in Handles : FdOf(k)' # handle'[g].accepted
    BY <2>1, <1>0, <1>4 DEF Connections
  <2> QED
    BY <2>1, <2>2, <1>0 DEF Connections
<1>6. Sockets'
  BY <1>0, <1>4 DEF Sockets
<1>7. ClosingQueued'
  <2>1. ToSet(closing_queue) \subseteq Handles
    BY <1>0 DEF NetShape, ToSet
  <2> QED
    BY <2>1, <1>0 DEF ClosingQueued
<1>8. Suspended'
  <2> SUFFICES ASSUME NEW i \in 1..Len(stack) PROVE Resumable(i)'
    BY <1>0 DEF Suspended
  <2> DEFINE g == stack[i].h
  <2>1. g \in Handles /\ Resumable(i)
    <3>1. stack[i] \in Frames
      BY <1>0, FrameFacts DEF NetShape
    <3> QED
      BY <3>1, <1>0 DEF Suspended, Frames
  <2>2. CASE g = h
    <3>1. stack[i].pc \notin Flushing
      BY <2>1, <2>2, <1>0, FrameFacts DEF BeingClosed, InFrame, Flushing, NetShape
    <3> QED
      BY <2>1, <2>2, <3>1, <1>0 DEF Resumable, HandleShape, NetShape
  <2>3. CASE g # h
    <3>1. watcher'[g] = watcher[g] /\ FdOf(g)' = FdOf(g)
      BY <2>1, <2>3, <1>4 DEF OnlyWatcher
    <3> QED
      BY <2>1, <2>3, <3>1, <1>2 DEF Resumable
  <2> QED
    BY <2>2, <2>3
<1>9. PendingWatched'
  <2> SUFFICES ASSUME NEW g \in Handles, handle'[g].state = "open", ~BeingClosed(g)',
                      handle'[g].connecting \/ CanWrite(g)'
               PROVE  "OUT" \in watcher'[g].events /\ "ACTIVE" \in handle'[g].flags
    BY DEF PendingWatched, Watches
  <2>1. CASE g = h
    BY <2>1
  <2>2. CASE g # h
    <3>1. /\ watcher'[g] = watcher[g] /\ handle[g].state = "open" /\ ~BeingClosed(g)
          /\ handle[g].connecting \/ CanWrite(g)
      BY <2>2, <1>3 DEF OnlyWatcher, CanWrite
    <3> QED
      BY <2>2, <3>1, <1>0 DEF PendingWatched, Watches
  <2> QED
    BY <2>1, <2>2
<1> QED
  BY <1>1, <1>0, <1>5, <1>6, <1>7, <1>8, <1>9 DEF IInv

(* What the code supports, as in the passing runs. *)
Supported == Allows = {}

(* A supported call is on an open handle that is not being closed. *)
LEMMA MayCallFacts ==
    ASSUME Supported, NEW h \in Handles, MayCall(h)
    PROVE  handle[h].state = "open" /\ ~BeingClosed(h)
BY DEF Supported, MayCall

(* No descriptor that is free is a handle's or a fresh connection's. *)
LEMMA FreeFdFacts ==
    ASSUME ReactorTypeOK, Watchers, Connections, HasFreeFd
    PROVE  /\ FreeFd \in Fds \ open
           /\ \A g \in Handles : FdOf(g) # FreeFd
           /\ \A g \in Handles : Held(g) => handle[g].accepted # FreeFd
<1>1. Fds \ open \subseteq Nat /\ Fds \ open # {}
  BY ReactorAssumption DEF HasFreeFd, ReactorTypeOK
<1>2. FreeFd \in Fds \ open
  BY <1>1, MinIn DEF FreeFd
<1> QED
  BY <1>2, FdNumbers DEF Watchers, Apart, Connections

(* A step that leaves the kernel alone. *)
LEMMA SameKernel ==
    ASSUME ReactorTypeOK, Watchers, UNCHANGED kernelVars
    PROVE  KernelKept
BY DEF KernelKept, ReactorTypeOK, Watchers, Apart, kernelVars

(* A handle in apc_close is open and waits for nothing. *)
LEMMA FlushedFacts ==
    ASSUME stack \in Seq(Frames), Suspended, NEW h \in Handles, BeingClosed(h)
    PROVE  handle[h].state = "open" /\ watcher[h].events = {}
<1>1. PICK i \in 1..Len(stack) : stack[i].h = h /\ stack[i].pc \in Flushing
  BY FrameFacts DEF BeingClosed, InFrame, Flushing
<1> QED
  BY <1>1 DEF Suspended, Resumable

(* apc_tcp_init and apc_udp_init. *)
LEMMA InitCall ==
    ASSUME IInv, Supported, NEW h \in Handles, apc_net_init(h),
           UNCHANGED <<stack, closing_queue>>
    PROVE  Call(h)
<1>0. /\ NetShape /\ Watchers /\ Connections /\ Sockets /\ Suspended
  BY DEF IInv
<1> USE DEF apc_net_init
<1>1. PICK use \in Uses[h] :
         handle' = [handle EXCEPT ![h] = [NoHandleYet EXCEPT !.state = "open", !.use = use]]
  OBVIOUS
<1>2. FdOf(h) = NoFd /\ watcher[h].events = {} /\ write_queue[h] = <<>>
  BY <1>0, FdNumbers DEF Sockets, Watchers, Listed
<1>3. ~BeingClosed(h)
  BY <1>0, FlushedFacts DEF NetShape
<1>4. ReactorTypeOK' /\ Watchers' /\ OnlyWatcher(h) /\ watcher'[h].fd = NoFd
  <2>1. /\ OnlyWatcher(h) /\ watcher'[h] = NewWatcher
    BY <1>0 DEF OnlyWatcher, ReactorTypeOK, NetShape
  <2>2. /\ NewWatcher.fd = NoFd /\ NewWatcher.events = {}
        /\ ~NewWatcher.queued /\ ~NewWatcher.registered
        /\ NewWatcher \in [fd : Fds \cup {NoFd}, events : SUBSET PollEvents,
                           registered : BOOLEAN, queued : BOOLEAN]
    BY DEF NewWatcher
  <2>3. ReactorTypeOK'
    BY <2>2, <1>0 DEF ReactorTypeOK, NetShape, kernelVars
  <2>4. Apart /\ Table /\ Listed /\ Told /\ UNCHANGED <<event_watchers, open, epoll>>
    BY <1>0 DEF Watchers, kernelVars
  <2>5. Apart'
    BY <2>1, <2>2, <2>4 DEF Apart, OnlyWatcher, FdOf
  <2>6. Table'
    BY <2>1, <2>2, <2>4, <1>0, <1>2 DEF Table, OnlyWatcher, FdOf, NetShape, ReactorTypeOK
  <2>7. Listed' /\ Told'
    BY <2>1, <2>2, <2>4 DEF Listed, Told, OnlyWatcher, FdOf
  <2> QED
    BY <2>1, <2>2, <2>3, <2>5, <2>6, <2>7 DEF Watchers
<1>5. /\ \A g \in Handles \ {h} : handle'[g] = handle[g]
      /\ handle'[h].state = "open" /\ handle'[h].role = "none"
      /\ handle'[h].connecting = FALSE /\ handle'[h].accepted = NoFd
      /\ DOMAIN handle'[h] = Fields
  BY <1>0, <1>1 DEF NoHandleYet, HandleShape, NetShape, Fields
<1>6. HandleShape'
  BY <1>0, <1>1, <1>5 DEF HandleShape, NetShape
<1>7. \A g \in Handles : Held(g)' => Held(g) /\ handle'[g].accepted = handle[g].accepted
  BY <1>5 DEF Held, InFrame
<1> QED
  BY <1>0, <1>2, <1>3, <1>4, <1>5, <1>6, <1>7
     DEF Call, NetShape, Connections, FdOf, CanWrite, kernelVars

(* apc_tcp_bind, apc_udp_bind and apc_udp_connect. *)
LEMMA BindCall ==
    ASSUME IInv, Supported, NEW h \in Handles, apc_bind(h),
           UNCHANGED <<stack, closing_queue>>
    PROVE  Call(h)
<1>0. /\ NetShape /\ Watchers /\ Connections /\ Sockets /\ Suspended
  BY DEF IInv
<1> USE DEF apc_bind
<1>1. handle[h].state = "open" /\ ~BeingClosed(h)
  BY MayCallFacts
<1>2. write_queue[h] = <<>> /\ ~handle[h].connecting
  BY <1>0 DEF Sockets
<1>3. /\ FreeFd \in Fds \ open
      /\ \A g \in Handles : FdOf(g) # FreeFd
      /\ \A g \in Handles : Held(g) => handle[g].accepted # FreeFd
  BY <1>0, FreeFdFacts DEF NetShape
<1>4. KernelKept
  BY <1>0, <1>3 DEF KernelKept, NetShape, ReactorTypeOK, Watchers, Apart
<1>5. /\ ReactorTypeOK' /\ Watchers' /\ OnlyWatcher(h)
      /\ watcher'[h].fd = FreeFd /\ watcher'[h].events = {}
  <2>1. FreeFd \in open' /\ {} \in SUBSET PollEvents /\ FreeFd \in Fds
    BY <1>3
  <2>2. ReactorTypeOK /\ Watchers /\ FdOf(h) = NoFd
    BY <1>0 DEF NetShape
  <2>3. /\ watcher' = [watcher EXCEPT ![h] = apc_event_watcher_init(FreeFd)]
        /\ UNCHANGED event_watchers
    OBVIOUS
  <2> HIDE DEF apc_bind
  <2> QED
    BY <2>1, <2>2, <2>3, <1>3, <1>4, NewFdFacts
<1>6. /\ \A g \in Handles \ {h} : handle'[g] = handle[g]
      /\ handle'[h].state = "open" /\ handle'[h].role \in {"bound", "stream"}
      /\ handle'[h].connecting = FALSE /\ handle'[h].accepted = handle[h].accepted
  BY <1>0, <1>1, <1>2 DEF HandleShape, NetShape, Fields
<1>7. HandleShape'
  BY <1>0, <1>6 DEF HandleShape, NetShape
<1>8. \A g \in Handles : Held(g)' => Held(g) /\ handle'[g].accepted = handle[g].accepted
  BY <1>6 DEF Held, InFrame
<1> QED
  BY <1>0, <1>1, <1>2, <1>3, <1>5, <1>6, <1>7, <1>8, FdNumbers
     DEF Call, NetShape, Connections, FdOf, CanWrite

(* apc_tcp_connect. *)
LEMMA ConnectCall ==
    ASSUME IInv, Supported, NEW h \in Handles, apc_tcp_connect(h),
           UNCHANGED <<stack, closing_queue>>
    PROVE  Call(h)
<1>0. /\ NetShape /\ Watchers /\ Connections /\ Sockets /\ Suspended
  BY DEF IInv
<1> USE DEF apc_tcp_connect
<1>1. handle[h].state = "open" /\ ~BeingClosed(h)
  BY MayCallFacts
<1>2. write_queue[h] = <<>>
  BY <1>0 DEF Sockets
<1>3. /\ FreeFd \in Fds \ open
      /\ \A g \in Handles : FdOf(g) # FreeFd
      /\ \A g \in Handles : Held(g) => handle[g].accepted # FreeFd
  BY <1>0, FreeFdFacts DEF NetShape
<1>4. \A g \in Handles \ {h} : watcher'[g] = watcher[g]
  BY <1>0 DEF RegisterAs, NetShape, ReactorTypeOK
<1>5. KernelKept
  BY <1>0, <1>3 DEF KernelKept, NetShape, ReactorTypeOK, Watchers, Apart
<1>6. /\ ReactorTypeOK' /\ Watchers' /\ OnlyWatcher(h)
      /\ watcher'[h].fd = FreeFd /\ watcher'[h].events = {"OUT"}
  <2>1. FreeFd \in open' /\ {"OUT"} \in SUBSET PollEvents /\ FreeFd \in Fds /\ {"OUT"} # {}
    BY <1>3 DEF PollEvents
  <2>2. ReactorTypeOK /\ Watchers /\ FdOf(h) = NoFd
    BY <1>0 DEF NetShape
  <2>3. RegisterAs(h, apc_event_watcher_init(FreeFd), {"OUT"})
    OBVIOUS
  <2> HIDE DEF apc_tcp_connect
  <2> QED
    BY <2>1, <2>2, <2>3, <1>3, <1>5, NewFdFacts
<1>7. /\ \A g \in Handles \ {h} : handle'[g] = handle[g]
      /\ handle'[h].state = "open" /\ handle'[h].role = "stream"
      /\ handle'[h].connecting = TRUE /\ handle'[h].accepted = handle[h].accepted
      /\ "ACTIVE" \in handle'[h].flags /\ DOMAIN handle'[h] = Fields
  BY <1>0, <1>1 DEF HandleShape, NetShape, Fields, With
<1>8. HandleShape'
  BY <1>0, <1>7 DEF HandleShape, NetShape
<1>9. \A g \in Handles : Held(g)' => Held(g) /\ handle'[g].accepted = handle[g].accepted
  BY <1>7 DEF Held, InFrame
<1> QED
  BY <1>0, <1>1, <1>2, <1>3, <1>6, <1>7, <1>8, <1>9, FdNumbers
     DEF Call, NetShape, Connections, FdOf, CanWrite

(* A call on a handle that has its descriptor, which stays as it is.       *)
LEMMA SettledCall ==
    ASSUME IInv, Supported, NEW h \in Handles, MayCall(h), FdOf(h) # NoFd,
           UNCHANGED <<stack, closing_queue, kernelVars>>,
           ReactorTypeOK', Watchers', OnlyWatcher(h),
           watcher'[h].fd = FdOf(h),
           HandleShape',
           \A g \in Handles \ {h} : handle'[g] = handle[g] /\ write_queue'[g] = write_queue[g],
           write_queue' \in [Handles -> Seq(Reqs)],
           handle'[h].state = handle[h].state,
           handle'[h].accepted = handle[h].accepted,
           handle'[h].connecting = handle[h].connecting,
           handle'[h].role # "none",
           handle'[h].role # "stream" => ~handle'[h].connecting /\ write_queue'[h] = <<>>,
           handle'[h].connecting => write_queue'[h] = <<>>,
           handle'[h].connecting \/ CanWrite(h)'
              => "OUT" \in watcher'[h].events /\ "ACTIVE" \in handle'[h].flags
    PROVE  Call(h)
<1>1. handle[h].state = "open" /\ ~BeingClosed(h)
  BY MayCallFacts
<1>2. \A g \in Handles : Held(g)' => Held(g) /\ handle'[g].accepted = handle[g].accepted
  BY DEF Held, InFrame
<1> QED
  BY <1>1, <1>2 DEF Call, IInv, NetShape, Connections, FdOf, kernelVars

(* apc_listen. *)
LEMMA ListenCall ==
    ASSUME IInv, Supported, NEW h \in Handles, apc_listen(h),
           UNCHANGED <<stack, closing_queue>>
    PROVE  Call(h)
<1>0. /\ NetShape /\ Watchers /\ Connections /\ Sockets /\ Suspended
  BY DEF IInv
<1>1. /\ MayCall(h) /\ handle[h].role \in {"bound", "server"}
      /\ apc_event_watcher_register(h, {"IN"})
      /\ handle' = [handle EXCEPT ![h] = [With(h, {"ACTIVE", "READABLE"}) EXCEPT !.role = "server"]]
      /\ UNCHANGED <<kernelVars, write_queue>>
  BY DEF apc_listen
<1>2. FdOf(h) # NoFd /\ ~handle[h].connecting /\ write_queue[h] = <<>>
  BY <1>0, <1>1 DEF Sockets
<1>3. ReactorTypeOK /\ KernelKept /\ {"IN"} \in SUBSET PollEvents /\ {"IN"} # {}
  BY <1>0, <1>1, SameKernel DEF NetShape, PollEvents
<1>4. ReactorTypeOK' /\ Watchers' /\ OnlyWatcher(h) /\ watcher'[h].fd = FdOf(h)
  BY <1>0, <1>1, <1>2, <1>3, RegisterFacts
<1>5. /\ \A g \in Handles \ {h} : handle'[g] = handle[g]
      /\ handle'[h].state = handle[h].state /\ handle'[h].role = "server"
      /\ handle'[h].connecting = handle[h].connecting
      /\ handle'[h].accepted = handle[h].accepted /\ DOMAIN handle'[h] = Fields
  BY <1>0, <1>1 DEF HandleShape, NetShape, Fields, With
<1>6. HandleShape'
  BY <1>0, <1>1, <1>5 DEF HandleShape, NetShape
<1>7. write_queue' = write_queue /\ write_queue \in [Handles -> Seq(Reqs)]
  BY <1>0, <1>1 DEF NetShape
<1>8. ~CanWrite(h)'
  BY <1>2, <1>7 DEF CanWrite
<1> QED
  BY <1>1, <1>2, <1>4, <1>5, <1>6, <1>7, <1>8, SettledCall

(* net_start_read. *)
LEMMA StartReadCall ==
    ASSUME IInv, Supported, NEW h \in Handles, apc_start_read(h),
           UNCHANGED <<stack, closing_queue>>
    PROVE  Call(h)
<1>0. /\ NetShape /\ Watchers /\ Sockets /\ PendingWatched
  BY DEF IInv
<1>1. /\ MayCall(h) /\ handle[h].role = "stream"
      /\ apc_event_watcher_register(h, {"IN"})
      /\ handle' = [handle EXCEPT ![h] = [With(h, {"ACTIVE", "READABLE"}) EXCEPT !.reading = TRUE]]
      /\ UNCHANGED <<kernelVars, write_queue>>
  BY DEF apc_start_read
<1>2. FdOf(h) # NoFd /\ (handle[h].connecting => write_queue[h] = <<>>)
  BY <1>0, <1>1 DEF Sockets
<1>3. ReactorTypeOK /\ KernelKept /\ {"IN"} \in SUBSET PollEvents /\ {"IN"} # {}
  BY <1>0, <1>1, SameKernel DEF NetShape, PollEvents
<1>4. /\ ReactorTypeOK' /\ Watchers' /\ OnlyWatcher(h) /\ watcher'[h].fd = FdOf(h)
      /\ watcher'[h].events = watcher[h].events \cup {"IN"}
  BY <1>0, <1>1, <1>2, <1>3, RegisterFacts
<1>5. /\ \A g \in Handles \ {h} : handle'[g] = handle[g]
      /\ handle'[h].state = handle[h].state /\ handle'[h].role = "stream"
      /\ handle'[h].connecting = handle[h].connecting
      /\ handle'[h].accepted = handle[h].accepted /\ DOMAIN handle'[h] = Fields
      /\ handle'[h].flags = handle[h].flags \cup {"ACTIVE", "READABLE"}
  BY <1>0, <1>1 DEF HandleShape, NetShape, Fields, With
<1>6. HandleShape'
  BY <1>0, <1>1, <1>5 DEF HandleShape, NetShape
<1>7. write_queue' = write_queue /\ write_queue \in [Handles -> Seq(Reqs)]
  BY <1>0, <1>1 DEF NetShape
<1>8. handle'[h].connecting \/ CanWrite(h)'
          => "OUT" \in watcher'[h].events /\ "ACTIVE" \in handle'[h].flags
  BY <1>0, <1>1, <1>4, <1>5, <1>7, MayCallFacts DEF PendingWatched, CanWrite, Watches
<1> QED
  BY <1>1, <1>2, <1>4, <1>5, <1>6, <1>7, <1>8, SettledCall

(* net_stop_read, which deregisters POLLOUT: nothing may wait for it. *)
LEMMA StopReadCall ==
    ASSUME IInv, Supported, NEW h \in Handles, apc_stop_read(h),
           UNCHANGED <<stack, closing_queue>>
    PROVE  Call(h)
<1>0. /\ NetShape /\ Watchers /\ Sockets
  BY DEF IInv
<1>1. /\ MayCall(h) /\ handle[h].role = "stream"
      /\ ~handle[h].connecting /\ write_queue[h] = <<>>
      /\ handle' = [handle EXCEPT ![h] = StoppedReading(h)]
      /\ apc_event_watcher_deregister(h, {"OUT"})
      /\ UNCHANGED <<kernelVars, write_queue>>
  BY DEF apc_stop_read, Supported
<1>2. FdOf(h) # NoFd
  BY <1>0, <1>1 DEF Sockets
<1>3. ReactorTypeOK /\ KernelKept /\ {"OUT"} \in SUBSET PollEvents
  BY <1>0, <1>1, SameKernel DEF NetShape, PollEvents
<1>4. ReactorTypeOK' /\ Watchers' /\ OnlyWatcher(h) /\ watcher'[h].fd = FdOf(h)
  BY <1>0, <1>1, <1>2, <1>3, DeregisterFacts
<1>5. /\ \A g \in Handles \ {h} : handle'[g] = handle[g]
      /\ handle'[h].state = handle[h].state /\ handle'[h].role = "stream"
      /\ handle'[h].connecting = handle[h].connecting
      /\ handle'[h].accepted = handle[h].accepted /\ DOMAIN handle'[h] = Fields
  BY <1>0, <1>1 DEF HandleShape, NetShape, Fields, StoppedReading
<1>6. HandleShape'
  BY <1>0, <1>1, <1>5 DEF HandleShape, NetShape
<1>7. write_queue' = write_queue /\ write_queue \in [Handles -> Seq(Reqs)]
  BY <1>0, <1>1 DEF NetShape
<1>8. ~CanWrite(h)'
  BY <1>1, <1>7 DEF CanWrite
<1> QED
  BY <1>1, <1>2, <1>4, <1>5, <1>6, <1>7, <1>8, SettledCall

(* net_write. *)
LEMMA WriteCall ==
    ASSUME IInv, Supported, NEW h \in Handles, NEW r \in Reqs, apc_write(h, r),
           UNCHANGED <<stack, closing_queue>>
    PROVE  Call(h)
<1>0. /\ NetShape /\ Watchers /\ Sockets
  BY DEF IInv
<1>1. PICK n \in Sizes :
      /\ MayCall(h) /\ handle[h].role = "stream" /\ ~handle[h].connecting
      /\ write_queue' = [write_queue EXCEPT ![h] = Append(@, r)]
      /\ handle' = [handle EXCEPT ![h] = [With(h, {"ACTIVE", "WRITABLE"}) EXCEPT !.size = @ + n]]
      /\ apc_event_watcher_register(h, {"OUT"})
      /\ UNCHANGED kernelVars
  BY DEF apc_write, Supported
<1>2. FdOf(h) # NoFd
  BY <1>0, <1>1 DEF Sockets
<1>3. ReactorTypeOK /\ KernelKept /\ {"OUT"} \in SUBSET PollEvents /\ {"OUT"} # {}
  BY <1>0, <1>1, SameKernel DEF NetShape, PollEvents
<1>4. /\ ReactorTypeOK' /\ Watchers' /\ OnlyWatcher(h) /\ watcher'[h].fd = FdOf(h)
      /\ watcher'[h].events = watcher[h].events \cup {"OUT"}
  BY <1>0, <1>1, <1>2, <1>3, RegisterFacts
<1>5. /\ \A g \in Handles \ {h} : handle'[g] = handle[g]
      /\ handle'[h].state = handle[h].state /\ handle'[h].role = "stream"
      /\ handle'[h].connecting = FALSE /\ handle[h].connecting = FALSE
      /\ handle'[h].accepted = handle[h].accepted /\ DOMAIN handle'[h] = Fields
      /\ "ACTIVE" \in handle'[h].flags
  BY <1>0, <1>1 DEF HandleShape, NetShape, Fields, With
<1>6. HandleShape'
  BY <1>0, <1>1, <1>5 DEF HandleShape, NetShape
<1>7. /\ write_queue' \in [Handles -> Seq(Reqs)]
      /\ \A g \in Handles \ {h} : write_queue'[g] = write_queue[g]
  BY <1>0, <1>1 DEF NetShape
<1> QED
  BY <1>1, <1>2, <1>4, <1>5, <1>6, <1>7, SettledCall

(* apc_accept: the fresh connection becomes that of a new handle. *)
LEMMA AcceptCall ==
    ASSUME IInv, Supported, NEW s \in Handles, NEW c \in Handles, apc_accept(s, c),
           UNCHANGED <<stack, closing_queue>>
    PROVE  Call(c)
<1>0. /\ NetShape /\ Watchers /\ Connections /\ Sockets /\ Suspended
  BY DEF IInv
<1> DEFINE f == handle[s].accepted
<1>1. /\ MayCall(s) /\ Held(s) /\ handle[c].state = "free"
      /\ RegisterAs(c, apc_event_watcher_init(f), {"IN"})
      /\ handle' = [handle EXCEPT ![c] = [NoHandleYet EXCEPT !.state = "open",
                                              !.use = "stream", !.role = "stream"],
                                  ![s].accepted = NoFd]
      /\ UNCHANGED <<kernelVars, write_queue>>
  BY DEF apc_accept, Supported, Held
<1>2. handle[s].state = "open" /\ s # c
  BY <1>1, MayCallFacts
<1>3. /\ FdOf(c) = NoFd /\ write_queue[c] = <<>> /\ ~BeingClosed(c)
  BY <1>0, <1>1, FlushedFacts DEF Sockets, NetShape
<1>4. /\ f \in Fds /\ f \in open /\ \A g \in Handles : FdOf(g) # f
      /\ \A g \in Handles \ {s} : Held(g) => handle[g].accepted # f
  BY <1>0, <1>1 DEF Connections, NetShape, ReactorTypeOK
<1>5. KernelKept
  BY <1>0, <1>1, SameKernel DEF NetShape
<1>6. /\ ReactorTypeOK' /\ Watchers' /\ OnlyWatcher(c)
      /\ watcher'[c].fd = f /\ watcher'[c].events = {"IN"}
  <2>1. f \in open' /\ {"IN"} \in SUBSET PollEvents /\ {"IN"} # {}
    BY <1>1, <1>4 DEF PollEvents, kernelVars
  <2>2. ReactorTypeOK /\ Watchers /\ FdOf(c) = NoFd
    BY <1>0, <1>3 DEF NetShape
  <2> HIDE DEF f
  <2> QED
    BY <2>1, <2>2, <1>1, <1>4, <1>5, NewFdFacts
<1>7. /\ \A g \in Handles \ {s, c} : handle'[g] = handle[g]
      /\ handle'[s] = [handle[s] EXCEPT !.accepted = NoFd]
      /\ handle'[c] = [NoHandleYet EXCEPT !.state = "open", !.use = "stream", !.role = "stream"]
      /\ DOMAIN handle' = Handles
  BY <1>0, <1>1, <1>2 DEF HandleShape, NetShape
<1>8. /\ handle'[c].state = "open" /\ handle'[c].role = "stream"
      /\ handle'[c].connecting = FALSE /\ handle'[c].accepted = NoFd
      /\ DOMAIN handle'[c] = Fields
  BY <1>7 DEF NoHandleYet, Fields
<1>9. /\ handle'[s].state = handle[s].state /\ handle'[s].role = handle[s].role
      /\ handle'[s].connecting = handle[s].connecting /\ handle'[s].flags = handle[s].flags
      /\ handle'[s].accepted = NoFd /\ DOMAIN handle'[s] = Fields
  BY <1>0, <1>7 DEF HandleShape, NetShape, Fields
<1>10. HandleShape'
  BY <1>0, <1>7, <1>8, <1>9 DEF HandleShape, NetShape
<1>11. \A g \in Handles : Held(g)' => Held(g) /\ g # s
  <2>1. stack' = stack /\ \A g \in Handles \ {s, c} : handle'[g] = handle[g]
    BY <1>7
  <2>2. handle'[s].accepted = NoFd /\ handle'[c].accepted = NoFd
    BY <1>8, <1>9
  <2> QED
    BY <2>1, <2>2 DEF Held, InFrame
<1>12. ~CanWrite(c)'
  BY <1>1, <1>3 DEF CanWrite
<1> QED
  <2>1. /\ UNCHANGED <<stack, closing_queue>>
        /\ ReactorTypeOK' /\ HandleShape' /\ Watchers' /\ OnlyWatcher(c)
        /\ write_queue' \in [Handles -> Seq(Reqs)]
    BY <1>0, <1>1, <1>6, <1>10 DEF NetShape
  <2>2. \A g \in Handles :
          /\ handle'[g].accepted \in {handle[g].accepted, NoFd}
          /\ Held(g)' => /\ handle[g].accepted \in open'
                         /\ FdOf(c)' = FdOf(c) \/ FdOf(c)' # handle[g].accepted
    BY <1>0, <1>1, <1>4, <1>6, <1>7, <1>8, <1>9, <1>11 DEF Connections, FdOf, kernelVars
  <2>3. \A g \in Handles \ {c} :
          /\ handle'[g].state = handle[g].state /\ handle'[g].role = handle[g].role
          /\ handle'[g].connecting = handle[g].connecting
          /\ handle'[g].flags = handle[g].flags
          /\ write_queue'[g] = write_queue[g]
    BY <1>1, <1>7, <1>9
  <2>4. FdOf(c)' # NoFd
    BY <1>4, <1>6, FdNumbers DEF FdOf
  <2> QED
    BY <2>1, <2>2, <2>3, <2>4, <1>1, <1>3, <1>8, <1>12 DEF Call

(* apc_reject: the fresh connection is closed. *)
LEMMA RejectCall ==
    ASSUME IInv, Supported, NEW s \in Handles, apc_reject(s),
           UNCHANGED <<stack, closing_queue>>
    PROVE  Call(s)
<1>0. /\ NetShape /\ Watchers /\ Connections /\ Sockets /\ PendingWatched
  BY DEF IInv
<1> DEFINE f == handle[s].accepted
<1>1. /\ MayCall(s) /\ Held(s) /\ CloseFds({f})
      /\ handle' = [handle EXCEPT ![s].accepted = NoFd]
      /\ UNCHANGED <<reactorVars, write_queue>>
  BY DEF apc_reject, Supported, Held
<1>2. handle[s].state = "open" /\ ~BeingClosed(s)
  BY <1>1, MayCallFacts
<1>3. /\ \A g \in Handles : FdOf(g) # f
      /\ \A g \in Handles \ {s} : Held(g) => handle[g].accepted # f
  BY <1>0, <1>1 DEF Connections
<1>4. /\ open' = open \ {f} /\ open' \subseteq Fds
      /\ epoll' \in [Fds -> SUBSET PollEvents]
      /\ \A d \in Fds : d # f => epoll'[d] = epoll[d]
  BY <1>0, <1>1 DEF CloseFds, NetShape, ReactorTypeOK
<1>5. KernelKept
  <2>1. \A g \in Handles : FdOf(g) # NoFd => FdOf(g) \in Fds /\ FdOf(g) \in open
    BY <1>0 DEF Watchers, Apart, NetShape, ReactorTypeOK
  <2> QED
    BY <2>1, <1>3, <1>4 DEF KernelKept
<1>6. ReactorTypeOK' /\ Watchers'
  BY <1>0, <1>1, <1>5, SameWatchersFacts DEF NetShape
<1>7. /\ \A g \in Handles \ {s} : handle'[g] = handle[g]
      /\ handle'[s].state = handle[s].state /\ handle'[s].role = handle[s].role
      /\ handle'[s].connecting = handle[s].connecting /\ handle'[s].flags = handle[s].flags
      /\ handle'[s].accepted = NoFd /\ DOMAIN handle'[s] = Fields
      /\ DOMAIN handle' = Handles
  BY <1>0, <1>1 DEF HandleShape, NetShape, Fields
<1>8. HandleShape'
  BY <1>0, <1>7 DEF HandleShape, NetShape
<1>9. \A g \in Handles : Held(g)' => Held(g) /\ g # s
  BY <1>7 DEF Held, InFrame
<1>10. handle'[s].connecting \/ CanWrite(s)'
           => "OUT" \in watcher'[s].events /\ "ACTIVE" \in handle'[s].flags
  BY <1>0, <1>1, <1>2, <1>7 DEF PendingWatched, CanWrite, Watches, reactorVars
<1> QED
  <2>1. /\ UNCHANGED <<stack, closing_queue>>
        /\ ReactorTypeOK' /\ HandleShape' /\ Watchers' /\ OnlyWatcher(s)
        /\ write_queue' \in [Handles -> Seq(Reqs)]
    BY <1>0, <1>1, <1>6, <1>8 DEF NetShape, OnlyWatcher, reactorVars
  <2>2. \A g \in Handles : FdOf(g)' = FdOf(g)
    BY <1>1 DEF FdOf, reactorVars
  <2>3. \A g \in Handles :
          /\ handle'[g].accepted \in {handle[g].accepted, NoFd}
          /\ Held(g)' => handle[g].accepted \in open'
    BY <1>0, <1>3, <1>4, <1>7, <1>9 DEF Connections
  <2> QED
    BY <2>1, <2>2, <2>3, <1>0, <1>1, <1>2, <1>7, <1>10 DEF Call, Sockets

(* Every call of the user. *)
LEMMA UserStepKeeps ==
    ASSUME IInv, Supported, UserStep
    PROVE  IInv'
<1>1. PICK h \in Handles : UserCall(h)
  BY DEF UserStep
<1>2. UNCHANGED <<stack, closing_queue>>
  BY DEF UserStep, loopVars
<1>3. CASE apc_net_init(h)
  BY <1>2, <1>3, InitCall, CallKeeps
<1>4. CASE apc_bind(h)
  BY <1>2, <1>4, BindCall, CallKeeps
<1>5. CASE apc_tcp_connect(h)
  BY <1>2, <1>5, ConnectCall, CallKeeps
<1>6. CASE apc_listen(h)
  BY <1>2, <1>6, ListenCall, CallKeeps
<1>7. CASE apc_start_read(h)
  BY <1>2, <1>7, StartReadCall, CallKeeps
<1>8. CASE apc_stop_read(h)
  BY <1>2, <1>8, StopReadCall, CallKeeps
<1>9. CASE apc_reject(h)
  BY <1>2, <1>9, RejectCall, CallKeeps
<1>10. ASSUME NEW c \in Handles, apc_accept(h, c) PROVE IInv'
  BY <1>2, <1>10, AcceptCall, CallKeeps
<1>11. ASSUME NEW r \in Reqs, apc_write(h, r) PROVE IInv'
  BY <1>2, <1>11, WriteCall, CallKeeps
<1> QED
  BY <1>1, <1>3, <1>4, <1>5, <1>6, <1>7, <1>8, <1>9, <1>10, <1>11 DEF UserCall

-----------------------------------------------------------------------------
(* Steps of the library while no apc_close is suspended: at most one frame. *)

Alone == stack = <<>> \/ (stack = <<Top>> /\ Top.pc \notin Flushing)

(* With at most one frame no handle is being closed, and the stack is easy. *)
LEMMA AloneFacts ==
    ASSUME IInv, Alone
    PROVE  /\ \A h \in Handles : ~BeingClosed(h)
           /\ stack # <<>> => /\ Top \in Frames /\ Top.h \in Handles
                              /\ Tail(stack) = <<>>
                              /\ \A f : <<f>> \o Tail(stack) = <<f>>
<1>0. stack \in Seq(Frames)
  BY DEF IInv, NetShape
<1>1. CASE stack = <<>>
  BY <1>1 DEF BeingClosed, InFrame
<1>2. CASE stack = <<Top>> /\ Top.pc \notin Flushing
  <2> DEFINE t == Top
  <2>1. t \in Frames /\ t.h \in Handles
    BY <1>0, <1>2, FrameFacts DEF Frames
  <2>2. \A h \in Handles : \A pc : InFrame(h, pc) => t.pc = pc
    <3>1. stack = <<t>>
      BY <1>2
    <3> HIDE DEF t
    <3> QED
      BY <3>1 DEF InFrame
  <2>3. Tail(stack) = <<>> /\ \A f : <<f>> \o <<>> = <<f>>
    <3>1. stack = <<t>>
      BY <1>2
    <3> HIDE DEF t
    <3> QED
      BY <3>1
  <2> QED
    BY <1>2, <2>1, <2>2, <2>3 DEF BeingClosed, Flushing
<1> QED
  BY <1>1, <1>2 DEF Alone

(* Only apc_close is suspended under other frames. *)
LEMMA TopAlone ==
    ASSUME IInv, stack # <<>>, Top.pc \notin Flushing
    PROVE  Alone
<1>1. stack \in Seq(Frames) /\ Suspended
  BY DEF IInv, NetShape
<1>2. Len(stack) = 1
  BY <1>1, FrameFacts DEF Suspended
<1>3. stack = <<Top>>
  BY <1>1, <1>2 DEF Top
<1> QED
  BY <1>3 DEF Alone

(* A step leaves a frame of `h`, in which it goes on. *)
GoesOn(h) == \E f \in Frames :
    /\ stack' = <<f>> /\ f.h = h /\ f.pc \notin Flushing
    /\ f.pc # "on_closing" =>
          /\ handle'[h].state # "free"
          /\ handle'[h].state = "open" => FdOf(h)' # NoFd
          /\ f.pc = "connect" <=> handle'[h].connecting
    /\ f.q # <<>> => handle'[h].state = "open"
    /\ f.pc = "on_connection" /\ handle'[h].accepted # NoFd =>
          /\ handle'[h].accepted \in open'
          /\ \A g \in Handles : FdOf(g)' # handle'[h].accepted

(* What a step about `h` may change. *)
Step(h) ==
    /\ stack' = <<>> \/ GoesOn(h)
    /\ ReactorTypeOK' /\ HandleShape' /\ Watchers' /\ OnlyWatcher(h)
    /\ write_queue' \in [Handles -> Seq(Reqs)]
    /\ closing_queue' \in Seq(Handles) /\ ClosingQueued'
    /\ \A g \in Handles \ {h} : handle'[g] = handle[g] /\ write_queue'[g] = write_queue[g]
    /\ FdOf(h)' = FdOf(h)
    /\ FdOf(h) = NoFd <=> handle'[h].role = "none"
    /\ FdOf(h) # NoFd => handle'[h].state = "open"
    /\ handle'[h].role # "stream" => ~handle'[h].connecting /\ write_queue'[h] = <<>>
    /\ handle'[h].connecting => write_queue'[h] = <<>>
    /\ handle'[h].state = "open" /\ (handle'[h].connecting \/ CanWrite(h)')
          => "OUT" \in watcher'[h].events /\ "ACTIVE" \in handle'[h].flags

(* A step about one handle keeps the invariant. *)
LEMMA StepKeeps ==
    ASSUME IInv, Alone, NEW h \in Handles, Step(h)
    PROVE  IInv'
<1> USE DEF Step
<1>0. /\ NetShape /\ Watchers /\ Connections /\ Sockets /\ ClosingQueued
      /\ Suspended /\ PendingWatched
  BY DEF IInv
<1>1. stack' \in Seq(Frames)
  <2>1. stack' = <<>> \/ \E f \in Frames : stack' = <<f>>
    BY DEF GoesOn
  <2>2. <<>> \in Seq(Frames) /\ \A f \in Frames : <<f>> \in Seq(Frames)
    OBVIOUS
  <2> HIDE DEF Step
  <2> QED
    BY <2>1, <2>2
<1>2. NetShape'
  BY <1>1 DEF NetShape
<1>3. \A g \in Handles : FdOf(g)' = FdOf(g)
  BY DEF OnlyWatcher, FdOf
<1>4. \A g \in Handles : \A pc : InFrame(g, pc)' =>
         g = h /\ \E f \in Frames : stack' = <<f>> /\ f.h = h /\ f.pc = pc
  <2>1. CASE stack' = <<>>
    BY <2>1 DEF InFrame
  <2>2. CASE GoesOn(h)
    <3>1. PICK f \in Frames : stack' = <<f>> /\ f.h = h
      BY <2>2 DEF GoesOn
    <3> QED
      BY <3>1 DEF InFrame
  <2> QED
    BY <2>1, <2>2
<1>5. \A g \in Handles : Held(g)' => /\ g = h /\ handle'[h].accepted \in open'
                                     /\ \A k \in Handles : FdOf(k)' # handle'[h].accepted
  <2> SUFFICES ASSUME NEW g \in Handles, Held(g)'
               PROVE  /\ g = h /\ handle'[h].accepted \in open'
                      /\ \A k \in Handles : FdOf(k)' # handle'[h].accepted
    OBVIOUS
  <2>1. PICK f \in Frames : stack' = <<f>> /\ f.h = h /\ f.pc = "on_connection" /\ g = h
    BY <1>4 DEF Held
  <2>2. GoesOn(h)
    BY <2>1
  <2>3. PICK k \in Frames :
           /\ stack' = <<k>>
           /\ k.pc = "on_connection" /\ handle'[h].accepted # NoFd =>
                 /\ handle'[h].accepted \in open'
                 /\ \A d \in Handles : FdOf(d)' # handle'[h].accepted
    BY <2>2 DEF GoesOn
  <2>4. k = f
    BY <2>1, <2>3
  <2> QED
    BY <2>1, <2>3, <2>4 DEF Held
<1>6. Connections'
  BY <1>5 DEF Connections
<1>7. Sockets'
  BY <1>0, <1>3 DEF Sockets
<1>8. Suspended'
  <2>1. CASE stack' = <<>>
    BY <2>1 DEF Suspended
  <2>2. CASE GoesOn(h)
    <3>1. PICK f \in Frames :
           /\ stack' = <<f>> /\ f.h = h /\ f.pc \notin Flushing
           /\ f.pc # "on_closing" =>
                 /\ handle'[h].state # "free"
                 /\ handle'[h].state = "open" => FdOf(h)' # NoFd
                 /\ f.pc = "connect" <=> handle'[h].connecting
           /\ f.q # <<>> => handle'[h].state = "open"
      BY <2>2 DEF GoesOn
    <3>2. Len(stack') = 1 /\ stack'[1] = f
      BY <3>1
    <3>3. \A i \in 1..Len(stack') : i = 1
      BY <3>2
    <3>4. Resumable(1)'
      BY <3>1, <3>2 DEF Resumable
    <3>5. 2..Len(stack') = {} /\ 1..(Len(stack') - 1) = {}
      BY <3>2
    <3> QED
      BY <3>3, <3>4, <3>5 DEF Suspended
  <2> QED
    BY <2>1, <2>2
<1>9. PendingWatched'
  <2> SUFFICES ASSUME NEW g \in Handles, handle'[g].state = "open",
                      handle'[g].connecting \/ CanWrite(g)'
               PROVE  "OUT" \in watcher'[g].events /\ "ACTIVE" \in handle'[g].flags
    BY DEF PendingWatched, Watches
  <2>1. CASE g = h
    BY <2>1
  <2>2. CASE g # h
    <3>1. /\ watcher'[g] = watcher[g] /\ handle[g].state = "open" /\ ~BeingClosed(g)
          /\ handle[g].connecting \/ CanWrite(g)
      BY <2>2, AloneFacts DEF OnlyWatcher, CanWrite
    <3> QED
      BY <2>2, <3>1, <1>0 DEF PendingWatched, Watches
  <2> QED
    BY <2>1, <2>2
<1> QED
  BY <1>2, <1>6, <1>7, <1>8, <1>9 DEF IInv

(* A step that changes nothing of a handle, and of the kernel only what it  *)
(* knows of the watchers.                                                   *)
LEMMA QuietKeeps ==
    ASSUME IInv, UNCHANGED <<handle, write_queue, closing_queue, stack, open>>,
           ReactorTypeOK', Watchers',
           \A h \in Handles : /\ watcher'[h].fd = FdOf(h)
                              /\ watcher'[h].events = watcher[h].events
    PROVE  IInv'
<1>0. /\ NetShape /\ Watchers /\ Connections /\ Sockets /\ ClosingQueued
      /\ Suspended /\ PendingWatched
  BY DEF IInv
<1>1. NetShape'
  BY <1>0 DEF NetShape, HandleShape
<1>2. \A g \in Handles : \A pc : InFrame(g, pc)' <=> InFrame(g, pc)
  BY DEF InFrame
<1>3. \A g \in Handles : FdOf(g)' = FdOf(g)
  BY DEF FdOf
<1>4. Connections'
  BY <1>0, <1>2, <1>3 DEF Connections, Held
<1>5. Sockets' /\ ClosingQueued'
  BY <1>0, <1>3 DEF Sockets, ClosingQueued
<1>6. Suspended'
  <2> SUFFICES ASSUME NEW i \in 1..Len(stack) PROVE Resumable(i)'
    BY <1>0 DEF Suspended
  <2>1. stack[i].h \in Handles /\ Resumable(i)
    BY <1>0, FrameFacts DEF Suspended, NetShape, Frames
  <2> QED
    BY <2>1, <1>2, <1>3 DEF Resumable
<1>7. PendingWatched'
  BY <1>0, <1>2 DEF PendingWatched, BeingClosed, CanWrite, Watches
<1> QED
  BY <1>0, <1>1, <1>4, <1>5, <1>6, <1>7 DEF IInv

(* A step of a function that serves `Top.h`. *)
InService == stack # <<>> /\ Top.pc \notin Flushing \cup {"on_closing"}

(* It returns, or goes on in another place. *)
Moves == \/ stack' = <<>>
         \/ /\ ~handle'[Top.h].connecting
            /\ \E f \in Frames :
                  /\ stack' = <<f>> /\ f.h = Top.h
                  /\ f.pc \notin Flushing \cup {"on_closing", "connect"}
                  /\ f.q # <<>> => handle[Top.h].state = "open"
                  /\ f.pc = "on_connection" =>
                        /\ handle'[Top.h].accepted \in open'
                        /\ \A g \in Handles : FdOf(g)' # handle'[Top.h].accepted

(* A step that serves a handle is a step about it. *)
LEMMA ServiceKeeps ==
    ASSUME IInv, InService, NEW h, h = Top.h, Moves,
           UNCHANGED closing_queue,
           ReactorTypeOK', HandleShape', Watchers', OnlyWatcher(h), FdOf(h)' = FdOf(h),
           write_queue' \in [Handles -> Seq(Reqs)],
           \A g \in Handles \ {h} : handle'[g] = handle[g] /\ write_queue'[g] = write_queue[g],
           handle'[h].state = handle[h].state, handle'[h].role = handle[h].role,
           write_queue[h] = <<>> => write_queue'[h] = <<>>,
           handle'[h].connecting => handle[h].connecting,
           handle[h].state = "open" /\ (handle'[h].connecting \/ CanWrite(h)')
              => "OUT" \in watcher'[h].events /\ "ACTIVE" \in handle'[h].flags
    PROVE  IInv'
<1>0. NetShape /\ Sockets /\ ClosingQueued /\ Suspended
  BY DEF IInv
<1>1. Alone /\ h \in Handles
  BY TopAlone, AloneFacts DEF InService
<1>2. /\ handle[h].state # "free"
      /\ handle[h].state = "open" => FdOf(h) # NoFd
  <2>1. Resumable(1) /\ stack[1] = Top
    BY <1>0, FrameFacts DEF Suspended, NetShape, InService
  <2> QED
    BY <2>1 DEF Resumable, InService
<1>3. stack' = <<>> \/ GoesOn(h)
  <2>1. CASE stack' = <<>>
    BY <2>1
  <2>2. CASE stack' # <<>>
    <3>1. PICK f \in Frames :
                  /\ stack' = <<f>> /\ f.h = h
                  /\ f.pc \notin Flushing \cup {"on_closing", "connect"}
                  /\ f.q # <<>> => handle[h].state = "open"
                  /\ f.pc = "on_connection" =>
                        /\ handle'[h].accepted \in open'
                        /\ \A g \in Handles : FdOf(g)' # handle'[h].accepted
      BY <2>2 DEF Moves
    <3>2. ~handle'[h].connecting
      BY <2>2 DEF Moves
    <3> QED
      BY <3>1, <3>2, <1>2 DEF GoesOn
  <2> QED
    BY <2>1, <2>2
<1>4. ClosingQueued' /\ closing_queue' \in Seq(Handles)
  <2>1. ToSet(closing_queue) \subseteq Handles
    BY <1>0 DEF NetShape, ToSet
  <2>2. \A g \in Handles : handle'[g].state = handle[g].state
    BY <1>1
  <2> QED
    BY <2>1, <2>2, <1>0 DEF ClosingQueued, NetShape
<1>5. Step(h)
  BY <1>0, <1>1, <1>3, <1>4 DEF Step, Sockets
<1> QED
  BY <1>1, <1>5, StepKeeps

(* The same if the watchers and what the handle waits for stay as they are. *)
LEMMA UntouchedKeeps ==
    ASSUME IInv, InService, NEW h, h = Top.h, Moves,
           UNCHANGED <<closing_queue, reactorVars, kernelVars>>,
           HandleShape',
           write_queue' \in [Handles -> Seq(Reqs)],
           \A g \in Handles \ {h} : handle'[g] = handle[g] /\ write_queue'[g] = write_queue[g],
           handle'[h].state = handle[h].state, handle'[h].role = handle[h].role,
           handle'[h].connecting = handle[h].connecting,
           handle'[h].flags = handle[h].flags,
           write_queue[h] = <<>> => write_queue'[h] = <<>>
    PROVE  IInv'
<1>0. NetShape /\ Watchers /\ PendingWatched
  BY DEF IInv
<1>1. /\ h \in Handles /\ ~BeingClosed(h)
  BY TopAlone, AloneFacts DEF InService
<1>2. KernelKept
  BY <1>0, SameKernel DEF NetShape
<1>3. ReactorTypeOK' /\ Watchers'
  BY <1>0, <1>2, SameWatchersFacts DEF NetShape
<1>4. OnlyWatcher(h) /\ FdOf(h)' = FdOf(h) /\ watcher'[h] = watcher[h]
  BY DEF OnlyWatcher, FdOf, reactorVars
<1>5. handle[h].state = "open" /\ (handle'[h].connecting \/ CanWrite(h)')
          => "OUT" \in watcher'[h].events /\ "ACTIVE" \in handle'[h].flags
  BY <1>0, <1>1, <1>4 DEF PendingWatched, CanWrite, Watches
<1> QED
  BY <1>3, <1>4, <1>5, ServiceKeeps

(* The same if no handle changes either. *)
LEMMA FrameKeeps ==
    ASSUME IInv, InService, Moves,
           UNCHANGED <<closing_queue, reactorVars, kernelVars, handle>>,
           write_queue' \in [Handles -> Seq(Reqs)],
           \A g \in Handles \ {Top.h} : write_queue'[g] = write_queue[g],
           write_queue[Top.h] = <<>> => write_queue'[Top.h] = <<>>
    PROVE  IInv'
<1>1. HandleShape'
  BY DEF IInv, NetShape, HandleShape
<1> QED
  BY <1>1, UntouchedKeeps

(* What holds of the frame in service. *)
LEMMA TopFacts ==
    ASSUME IInv, InService
    PROVE  /\ Top.h \in Handles /\ Top \in Frames
           /\ Tail(stack) = <<>> /\ \A f : Replace(f) <=> stack' = <<f>>
           /\ Return <=> stack' = <<>>
           /\ ~BeingClosed(Top.h)
           /\ Top.pc = "connect" <=> handle[Top.h].connecting
           /\ Top.q # <<>> => handle[Top.h].state = "open"
           /\ handle[Top.h].state = "open" => FdOf(Top.h) # NoFd
<1>1. Alone
  BY TopAlone DEF InService
<1>2. Resumable(1) /\ stack[1] = Top
  BY FrameFacts DEF IInv, Suspended, NetShape, InService
<1> QED
  BY <1>1, <1>2, AloneFacts DEF Resumable, InService, Replace, Return

(* The queues of writes stay as they are. *)
LEMMA SameQueues ==
    ASSUME IInv, UNCHANGED write_queue
    PROVE  /\ write_queue' \in [Handles -> Seq(Reqs)]
           /\ \A h \in Handles : write_queue'[h] = write_queue[h]
BY DEF IInv, NetShape

(* What only moves the frame. *)
LEMMA MovesKeeps ==
    ASSUME IInv,
           \/ ServerStops \/ AcceptFails \/ StillConnecting \/ ReadLoopEnds \/ ReadData
           \/ IoReturns \/ AnswerWritten
    PROVE  IInv'
<1>1. InService
  BY DEF InService, Flushing, At, Reading, Writing, ServerStops, AcceptFails, StillConnecting,
         ReadLoopEnds, ReadData, IoReturns, AnswerWritten, Answer
<1>2. UNCHANGED <<closing_queue, reactorVars, kernelVars, handle, write_queue>>
  BY DEF ServerStops, AcceptFails, StillConnecting, ReadLoopEnds, ReadData, IoReturns,
         AnswerWritten, Answer, handleVars, loopVars
<1>3. /\ Top.h \in Handles /\ Top \in Frames
      /\ Top.pc = "connect" <=> handle[Top.h].connecting
      /\ Top.q # <<>> => handle[Top.h].state = "open"
      /\ \A f : Replace(f) <=> stack' = <<f>>
      /\ Return <=> stack' = <<>>
  BY <1>1, TopFacts
<1>4. Moves
  <2>1. CASE ServerStops \/ StillConnecting \/ IoReturns
    BY <2>1, <1>3 DEF Moves, ServerStops, StillConnecting, IoReturns
  <2>2. CASE AcceptFails
    <3> DEFINE f == [Top EXCEPT !.pc = "on_refused"]
    <3>1. f \in Frames /\ f.h = Top.h /\ f.pc = "on_refused" /\ f.q = Top.q
      BY <1>3 DEF Frames, CallbackPcs
    <3>2. stack' = <<f>> /\ Top.pc = "server"
      BY <2>2, <1>3 DEF AcceptFails, Goto, At
    <3> HIDE DEF f
    <3> QED
      BY <3>1, <3>2, <1>2, <1>3 DEF Moves, Flushing
  <2>3. CASE ReadLoopEnds
    <3> DEFINE f == [Top EXCEPT !.ev = NoMoreReads]
    <3>1. f \in Frames /\ f.h = Top.h /\ f.pc = Top.pc /\ f.q = Top.q
      BY <1>3 DEF Frames, NoMoreReads
    <3>2. stack' = <<f>> /\ Top.pc = "io"
      BY <2>3, <1>3 DEF ReadLoopEnds, Reading, At
    <3> HIDE DEF f
    <3> QED
      BY <3>1, <3>2, <1>2, <1>3 DEF Moves, Flushing
  <2>4. CASE ReadData
    <3>0. PICK ev \in {Top.ev, NoMoreReads} : Replace([Top EXCEPT !.pc = "on_read", !.ev = ev])
      BY <2>4 DEF ReadData
    <3> DEFINE f == [Top EXCEPT !.pc = "on_read", !.ev = ev]
    <3>1. f \in Frames /\ f.h = Top.h /\ f.pc = "on_read" /\ f.q = Top.q
      BY <1>3 DEF Frames, NoMoreReads, CallbackPcs
    <3>2. stack' = <<f>> /\ Top.pc = "io"
      BY <2>4, <3>0, <1>3 DEF ReadData, Reading, At
    <3> HIDE DEF f
    <3> QED
      BY <3>1, <3>2, <1>2, <1>3 DEF Moves, Flushing
  <2>5. CASE AnswerWritten
    <3> DEFINE f == Frame("on_write", Top.h, Top.ev, Tail(Top.q))
    <3>0. Top.q # <<>> /\ Top.q \in Seq(Reqs) /\ Top.pc = "written"
      BY <2>5, <1>3 DEF AnswerWritten, Answer, Frames, At
    <3>1. f \in Frames /\ f.h = Top.h /\ f.pc = "on_write"
      BY <3>0, <1>3 DEF Frames, Frame, CallbackPcs
    <3>2. stack' = <<f>>
      BY <2>5, <1>3 DEF AnswerWritten, Answer
    <3> HIDE DEF f
    <3> QED
      BY <3>0, <3>1, <3>2, <1>2, <1>3 DEF Moves, Flushing
  <2> QED
    BY <2>1, <2>2, <2>3, <2>4, <2>5
<1> QED
  BY <1>1, <1>2, <1>3, <1>4, SameQueues, FrameKeeps

(* A step that takes events from the watcher of `Top.h`. *)
LEMMA DeregisterKeeps ==
    ASSUME IInv, InService, NEW h, h = Top.h, Moves,
           NEW ev \in SUBSET PollEvents, apc_event_watcher_deregister(h, ev), KernelKept,
           UNCHANGED closing_queue,
           HandleShape',
           write_queue' \in [Handles -> Seq(Reqs)],
           \A g \in Handles \ {h} : handle'[g] = handle[g] /\ write_queue'[g] = write_queue[g],
           handle'[h].state = handle[h].state, handle'[h].role = handle[h].role,
           write_queue[h] = <<>> => write_queue'[h] = <<>>,
           handle'[h].connecting => handle[h].connecting,
           \/ ~handle'[h].connecting /\ ~CanWrite(h)'
           \/ /\ ev = {"IN"} /\ handle'[h].connecting = handle[h].connecting
              /\ write_queue'[h] = write_queue[h]
              /\ \E gone : /\ handle'[h].flags = FlagsWithout(h, ev) \ gone
                           /\ gone \in {{"READABLE"}, {}}
    PROVE  IInv'
<1>0. NetShape /\ Watchers /\ PendingWatched
  BY DEF IInv
<1>1. h \in Handles /\ ~BeingClosed(h)
  BY TopFacts
<1>2. /\ ReactorTypeOK' /\ Watchers' /\ OnlyWatcher(h) /\ watcher'[h].fd = FdOf(h)
      /\ watcher'[h].events = watcher[h].events \ ev
  BY <1>0, <1>1, DeregisterFacts DEF NetShape
<1>3. ASSUME handle[h].state = "open", handle'[h].connecting \/ CanWrite(h)'
      PROVE  "OUT" \in watcher'[h].events /\ "ACTIVE" \in handle'[h].flags
  <2>1. /\ ev = {"IN"} /\ handle'[h].connecting = handle[h].connecting
        /\ write_queue'[h] = write_queue[h]
    BY <1>3
  <2>2. PICK gone : /\ handle'[h].flags = FlagsWithout(h, ev) \ gone
                    /\ gone \in {{"READABLE"}, {}}
    BY <1>3
  <2>3. "ACTIVE" \notin gone /\ "WRITABLE" \notin gone
    BY <2>2
  <2>4. handle[h].connecting \/ CanWrite(h)
    BY <1>3, <2>1, <2>2 DEF CanWrite, FlagsWithout
  <2>5. "OUT" \in watcher[h].events /\ "ACTIVE" \in handle[h].flags
    BY <1>0, <1>1, <1>3, <2>4 DEF PendingWatched, Watches
  <2>6. "OUT" \in watcher[h].events \ ev
    BY <2>1, <2>5
  <2> QED
    BY <1>2, <2>2, <2>3, <2>5, <2>6 DEF FlagsWithout
<1> QED
  BY <1>2, <1>3, ServiceKeeps DEF FdOf

(* fd_watcher_server accepts: nobody has the new descriptor. *)
LEMMA AcceptsKeeps ==
    ASSUME IInv, Accepts
    PROVE  IInv'
<1>20. InService
  BY DEF Accepts, At, InService, Flushing
<1>21. PICK h \in Handles : h = Top.h
  BY <1>20, TopFacts
<1> USE <1>21
<1>0. NetShape /\ Watchers /\ Connections /\ Sockets /\ PendingWatched
  BY DEF IInv
<1>1. /\ Top.pc = "server" /\ stack # <<>> /\ FdOf(h) # NoFd /\ HasFreeFd
      /\ open' = open \cup {FreeFd}
      /\ handle' = [handle EXCEPT ![h].accepted = FreeFd]
      /\ Goto("on_connection")
      /\ UNCHANGED <<reactorVars, epoll, write_queue, closing_queue>>
  BY DEF Accepts, At, loopVars
<1>3. /\ h \in Handles /\ Top \in Frames /\ ~BeingClosed(h) /\ ~handle[h].connecting
      /\ Top.q # <<>> => handle[h].state = "open"
      /\ \A f : Replace(f) <=> stack' = <<f>>
  BY <1>1, <1>20, TopFacts
<1>4. FreeFd \in Fds /\ \A g \in Handles : FdOf(g) # FreeFd
  BY <1>0, <1>1, FreeFdFacts DEF NetShape
<1>5. KernelKept
  BY <1>0, <1>1, <1>4 DEF KernelKept, NetShape, ReactorTypeOK, Watchers, Apart
<1>6. ReactorTypeOK' /\ Watchers' /\ OnlyWatcher(h) /\ watcher' = watcher
  BY <1>0, <1>1, <1>5, SameWatchersFacts DEF NetShape, OnlyWatcher, reactorVars
<1>7. /\ \A g \in Handles \ {h} : handle'[g] = handle[g]
      /\ handle'[h].state = handle[h].state /\ handle'[h].role = handle[h].role
      /\ handle'[h].connecting = handle[h].connecting /\ handle'[h].flags = handle[h].flags
      /\ handle'[h].accepted = FreeFd /\ DOMAIN handle'[h] = Fields
      /\ DOMAIN handle' = Handles
  BY <1>0, <1>1, <1>3 DEF HandleShape, NetShape, Fields
<1>8. HandleShape'
  BY <1>0, <1>4, <1>7 DEF HandleShape, NetShape
<1>9. Moves
  <2> DEFINE f == [Top EXCEPT !.pc = "on_connection"]
  <2>1. f \in Frames /\ f.h = h /\ f.pc = "on_connection" /\ f.q = Top.q
    BY <1>3 DEF Frames, CallbackPcs
  <2>2. stack' = <<f>>
    BY <1>1, <1>3 DEF Goto
  <2>3. /\ handle'[h].accepted \in open'
        /\ \A g \in Handles : FdOf(g)' # handle'[h].accepted
    BY <1>1, <1>4, <1>6, <1>7 DEF FdOf
  <2> HIDE DEF f
  <2> QED
    BY <2>1, <2>2, <2>3, <1>3, <1>7 DEF Moves, Flushing
<1>10. /\ write_queue' \in [Handles -> Seq(Reqs)]
       /\ \A g \in Handles : write_queue'[g] = write_queue[g]
  BY <1>1, SameQueues
<1>11. handle[h].state = "open" /\ (handle'[h].connecting \/ CanWrite(h)')
           => "OUT" \in watcher'[h].events /\ "ACTIVE" \in handle'[h].flags
  BY <1>0, <1>3, <1>6, <1>7, <1>10 DEF PendingWatched, CanWrite, Watches
<1>12. FdOf(h)' = FdOf(h)
  BY <1>6 DEF FdOf
<1> QED
  BY <1>1, <1>20, <1>3, <1>6, <1>7, <1>8, <1>9, <1>10, <1>11, <1>12, ServiceKeeps

(* A connection that on_connection left is closed, with the listening. *)
LEMMA ConnectionLeftKeeps ==
    ASSUME IInv, ConnectionLeft
    PROVE  IInv'
<1>20. InService
  BY DEF ConnectionLeft, At, InService, Flushing
<1>21. PICK h \in Handles : h = Top.h
  BY <1>20, TopFacts
<1> USE <1>21
<1>0. NetShape /\ Watchers /\ Connections
  BY DEF IInv
<1>1. /\ Top.pc = "on_connection" /\ stack # <<>> /\ handle[h].accepted # NoFd
      /\ apc_event_watcher_deregister(h, {"IN"})
      /\ handle' = [handle EXCEPT ![h].flags = FlagsWithout(h, {"IN"}) \ {"READABLE"}]
      /\ CloseFds({handle[h].accepted})
      /\ Return
      /\ UNCHANGED <<write_queue, closing_queue>>
  BY DEF ConnectionLeft, At, loopVars
<1>3. h \in Handles /\ stack' = <<>>
  BY <1>1, <1>20, TopFacts
<1>4. Held(h)
  <2>1. 1 \in DOMAIN stack /\ stack[1] = Top
    BY <1>0, <1>1, FrameFacts DEF NetShape
  <2> QED
    BY <2>1, <1>1 DEF Held, InFrame
<1>5. \A g \in Handles : FdOf(g) # handle[h].accepted
  BY <1>0, <1>3, <1>4 DEF Connections
<1>6. KernelKept
  <2>1. \A g \in Handles : FdOf(g) # NoFd => FdOf(g) \in Fds /\ FdOf(g) \in open
    BY <1>0 DEF Watchers, Apart, NetShape, ReactorTypeOK
  <2> QED
    BY <2>1, <1>0, <1>1, <1>5 DEF KernelKept, CloseFds, NetShape, ReactorTypeOK
<1>7. /\ \A g \in Handles \ {h} : handle'[g] = handle[g]
      /\ handle'[h].state = handle[h].state /\ handle'[h].role = handle[h].role
      /\ handle'[h].connecting = handle[h].connecting
      /\ handle'[h].flags = FlagsWithout(h, {"IN"}) \ {"READABLE"}
      /\ handle'[h].accepted = handle[h].accepted /\ DOMAIN handle'[h] = Fields
      /\ DOMAIN handle' = Handles
  BY <1>0, <1>1, <1>3 DEF HandleShape, NetShape, Fields
<1>8. HandleShape'
  BY <1>0, <1>7 DEF HandleShape, NetShape
<1>9. /\ write_queue' \in [Handles -> Seq(Reqs)]
      /\ \A g \in Handles : write_queue'[g] = write_queue[g]
  BY <1>1, SameQueues
<1>10. Moves
  BY <1>3 DEF Moves
<1>11. {"IN"} \in SUBSET PollEvents
  BY DEF PollEvents
<1> QED
  <2>1. \E gone : /\ handle'[h].flags = FlagsWithout(h, {"IN"}) \ gone
                  /\ gone \in {{"READABLE"}, {}}
    BY <1>7
  <2>2. /\ {"IN"} = {"IN"} /\ handle'[h].connecting = handle[h].connecting
        /\ write_queue'[h] = write_queue[h]
        /\ \E gone : /\ handle'[h].flags = FlagsWithout(h, {"IN"}) \ gone
                     /\ gone \in {{"READABLE"}, {}}
    BY <2>1, <1>7, <1>9
  <2>3. /\ apc_event_watcher_deregister(h, {"IN"}) /\ UNCHANGED closing_queue
        /\ \A g \in Handles \ {h} : handle'[g] = handle[g] /\ write_queue'[g] = write_queue[g]
        /\ handle'[h].state = handle[h].state /\ handle'[h].role = handle[h].role
        /\ write_queue[h] = <<>> => write_queue'[h] = <<>>
        /\ handle'[h].connecting => handle[h].connecting
    BY <1>1, <1>7, <1>9
  <2> QED
    BY <2>2, <2>3, <1>20, <1>6, <1>8, <1>9, <1>10, <1>11, DeregisterKeeps

(* A connect is decided; there was nothing to write before. *)
LEMMA ConnectsKeeps ==
    ASSUME IInv, Connects
    PROVE  IInv'
<1>20. InService
  BY DEF Connects, At, InService, Flushing
<1>21. PICK h \in Handles : h = Top.h
  BY <1>20, TopFacts
<1> USE <1>21
<1>0. NetShape /\ Watchers /\ Sockets
  BY DEF IInv
<1>1. /\ Top.pc = "connect" /\ stack # <<>>
      /\ \/ /\ handle' = [handle EXCEPT ![h] = [With(h, {"READABLE", "WRITABLE"})
                                                  EXCEPT !.connecting = FALSE]]
            /\ UNCHANGED reactorVars
         \/ /\ handle' = [handle EXCEPT ![h].connecting = FALSE,
                   ![h].flags = FlagsWithout(h, {"OUT"}) \cup {"READABLE", "WRITABLE"}]
            /\ apc_event_watcher_deregister(h, {"OUT"})
      /\ Goto("on_connected")
      /\ UNCHANGED <<kernelVars, write_queue, closing_queue>>
  BY DEF Connects, At, loopVars
<1>3. /\ h \in Handles /\ Top \in Frames /\ handle[h].connecting
      /\ Top.q # <<>> => handle[h].state = "open"
      /\ \A f : Replace(f) <=> stack' = <<f>>
  BY <1>1, <1>20, TopFacts
<1>4. write_queue[h] = <<>>
  BY <1>0, <1>3 DEF Sockets
<1>5. /\ \A g \in Handles \ {h} : handle'[g] = handle[g]
      /\ handle'[h].state = handle[h].state /\ handle'[h].role = handle[h].role
      /\ handle'[h].connecting = FALSE
      /\ handle'[h].accepted = handle[h].accepted /\ DOMAIN handle'[h] = Fields
      /\ DOMAIN handle' = Handles
  <2>0. DOMAIN handle = Handles /\ DOMAIN handle[h] = Fields
    BY <1>0 DEF HandleShape, NetShape
  <2>1. CASE handle' = [handle EXCEPT ![h] = [With(h, {"READABLE", "WRITABLE"})
                                                  EXCEPT !.connecting = FALSE]]
    BY <2>0, <2>1 DEF Fields, With
  <2>2. CASE handle' = [handle EXCEPT ![h].connecting = FALSE,
                   ![h].flags = FlagsWithout(h, {"OUT"}) \cup {"READABLE", "WRITABLE"}]
    <3> DEFINE new == [handle[h] EXCEPT !.connecting = FALSE,
                           !.flags = FlagsWithout(h, {"OUT"}) \cup {"READABLE", "WRITABLE"}]
    <3>1. handle' = [handle EXCEPT ![h] = new]
      BY <2>0, <2>2
    <3>2. /\ new.state = handle[h].state /\ new.role = handle[h].role
          /\ new.connecting = FALSE
          /\ new.accepted = handle[h].accepted /\ DOMAIN new = Fields
      BY <2>0 DEF Fields
    <3> HIDE DEF new
    <3> QED
      BY <2>0, <3>1, <3>2
  <2> QED
    BY <1>1, <2>1, <2>2
<1>6. HandleShape'
  BY <1>0, <1>5 DEF HandleShape, NetShape
<1>7. Moves
  <2> DEFINE f == [Top EXCEPT !.pc = "on_connected"]
  <2>1. f \in Frames /\ f.h = h /\ f.pc = "on_connected" /\ f.q = Top.q
    BY <1>3 DEF Frames, CallbackPcs
  <2>2. stack' = <<f>>
    BY <1>1, <1>3 DEF Goto
  <2> HIDE DEF f
  <2> QED
    BY <2>1, <2>2, <1>3, <1>5 DEF Moves, Flushing
<1>8. /\ write_queue' \in [Handles -> Seq(Reqs)]
      /\ \A g \in Handles : write_queue'[g] = write_queue[g]
  BY <1>1, SameQueues
<1>9. ~CanWrite(h)'
  BY <1>3, <1>4, <1>8 DEF CanWrite
<1>10. KernelKept
  BY <1>0, <1>1, SameKernel DEF NetShape
<1>11. CASE UNCHANGED reactorVars
  <2>1. ReactorTypeOK' /\ Watchers' /\ OnlyWatcher(h) /\ FdOf(h)' = FdOf(h)
    BY <1>0, <1>10, <1>11, SameWatchersFacts DEF NetShape, OnlyWatcher, reactorVars, FdOf
  <2> QED
    BY <2>1, <1>1, <1>20, <1>3, <1>5, <1>6, <1>7, <1>8, <1>9, ServiceKeeps
<1>12. CASE apc_event_watcher_deregister(h, {"OUT"})
  <2>1. {"OUT"} \in SUBSET PollEvents
    BY DEF PollEvents
  <2> QED
    BY <2>1, <1>1, <1>20, <1>3, <1>5, <1>6, <1>7, <1>8, <1>9, <1>10, <1>12, DeregisterKeeps
<1> QED
  BY <1>1, <1>11, <1>12

(* core_tcp_read after an error or the end of the stream. *)
LEMMA ReadEndsKeeps ==
    ASSUME IInv, ReadEnds
    PROVE  IInv'
<1>0. NetShape /\ Watchers
  BY DEF IInv
<1>1. InService
  BY DEF ReadEnds, Reading, At, InService, Flushing
<1>2. PICK h \in Handles : h = Top.h
  BY <1>1, TopFacts
<1> USE <1>2
<1>3. PICK gone \in {{"READABLE"}, {}} :
         handle' = [handle EXCEPT ![h].flags = FlagsWithout(h, {"IN"}) \ gone]
  BY DEF ReadEnds
<1>4. /\ Top.pc = "io" /\ apc_event_watcher_deregister(h, {"IN"})
      /\ Replace([Top EXCEPT !.pc = "on_read", !.ev = NoMoreReads])
      /\ UNCHANGED <<kernelVars, write_queue, closing_queue>>
  BY DEF ReadEnds, Reading, At, loopVars
<1>5. /\ Top \in Frames /\ ~handle[h].connecting
      /\ Top.q # <<>> => handle[h].state = "open"
      /\ \A f : Replace(f) <=> stack' = <<f>>
  BY <1>1, <1>4, TopFacts
<1>6. KernelKept
  BY <1>0, <1>4, SameKernel DEF NetShape
<1>7. /\ \A g \in Handles \ {h} : handle'[g] = handle[g]
      /\ handle'[h].state = handle[h].state /\ handle'[h].role = handle[h].role
      /\ handle'[h].connecting = handle[h].connecting
      /\ handle'[h].flags = FlagsWithout(h, {"IN"}) \ gone
      /\ handle'[h].accepted = handle[h].accepted /\ DOMAIN handle'[h] = Fields
      /\ DOMAIN handle' = Handles
  BY <1>0, <1>3 DEF HandleShape, NetShape, Fields
<1>8. HandleShape'
  BY <1>0, <1>7 DEF HandleShape, NetShape
<1>9. /\ write_queue' \in [Handles -> Seq(Reqs)]
      /\ \A g \in Handles : write_queue'[g] = write_queue[g]
  BY <1>4, SameQueues
<1>10. Moves
  <2> DEFINE f == [Top EXCEPT !.pc = "on_read", !.ev = NoMoreReads]
  <2>1. f \in Frames /\ f.h = h /\ f.pc = "on_read" /\ f.q = Top.q
    BY <1>5 DEF Frames, CallbackPcs, NoMoreReads
  <2>2. stack' = <<f>>
    BY <1>4, <1>5
  <2> HIDE DEF f
  <2> QED
    BY <2>1, <2>2, <1>5, <1>7 DEF Moves, Flushing
<1>11. {"IN"} \in SUBSET PollEvents
  BY DEF PollEvents
<1> QED
  <2>1. \E d : /\ handle'[h].flags = FlagsWithout(h, {"IN"}) \ d
               /\ d \in {{"READABLE"}, {}}
    BY <1>7
  <2>2. /\ {"IN"} = {"IN"} /\ handle'[h].connecting = handle[h].connecting
        /\ write_queue'[h] = write_queue[h]
        /\ \E d : /\ handle'[h].flags = FlagsWithout(h, {"IN"}) \ d
                  /\ d \in {{"READABLE"}, {}}
    BY <2>1, <1>7, <1>9
  <2>3. /\ apc_event_watcher_deregister(h, {"IN"}) /\ UNCHANGED closing_queue
        /\ \A g \in Handles \ {h} : handle'[g] = handle[g] /\ write_queue'[g] = write_queue[g]
        /\ handle'[h].state = handle[h].state /\ handle'[h].role = handle[h].role
        /\ write_queue[h] = <<>> => write_queue'[h] = <<>>
        /\ handle'[h].connecting => handle[h].connecting
    BY <1>4, <1>7, <1>9
  <2> QED
    BY <2>2, <2>3, <1>1, <1>6, <1>8, <1>9, <1>10, <1>11, DeregisterKeeps

(* The first writes go from the queue to the frame. *)
LEMMA WrittenFacts ==
    ASSUME IInv, WriteTurn, NEW h, h = Top.h, NEW n \in 0..Len(write_queue[h]), Written(h, n),
           ~handle'[h].connecting
    PROVE  /\ InService /\ h \in Handles /\ handle[h].state = "open" /\ ~BeingClosed(h)
           /\ ~handle[h].connecting
           /\ write_queue' \in [Handles -> Seq(Reqs)]
           /\ \A g \in Handles \ {h} : write_queue'[g] = write_queue[g]
           /\ write_queue[h] = <<>> => write_queue'[h] = <<>>
           /\ Moves
<1>0. NetShape /\ Sockets
  BY DEF IInv
<1>1. InService /\ Top.pc = "io"
  BY DEF InService, WriteTurn, Writing, At, Flushing
<1>2. h \in Handles /\ Top \in Frames /\ ~BeingClosed(h) /\ ~handle[h].connecting
      /\ \A f : Replace(f) <=> stack' = <<f>>
  BY <1>1, TopFacts
<1>3. handle[h].state = "open"
  BY <1>0, <1>2 DEF WriteTurn, Sockets
<1>4. write_queue[h] \in Seq(Reqs) /\ DOMAIN write_queue = Handles
  BY <1>0, <1>2 DEF NetShape
<1> DEFINE wq == write_queue[h]
           sent == SubSeq(wq, 1, n)
           rest == SubSeq(wq, n + 1, Len(wq))
<1>5. sent \in Seq(Reqs) /\ rest \in Seq(Reqs) /\ (wq = <<>> => rest = <<>>)
  <2>1. Len(wq) \in Nat /\ \A i \in 1..Len(wq) : wq[i] \in Reqs
    BY <1>4
  <2>2. n \in Int /\ n + 1 \in Int /\ Len(wq) \in Int /\ 1 \in Int
    BY <2>1
  <2>3. /\ \A i \in 1..n : wq[i] \in Reqs
        /\ \A i \in (n + 1)..Len(wq) : wq[i] \in Reqs
    BY <2>1
  <2>4. sent \in Seq(Reqs)
    BY <2>2, <2>3, SubSeqProperties
  <2>5. rest \in Seq(Reqs)
    BY <2>2, <2>3, SubSeqProperties
  <2>6. wq = <<>> => rest = <<>>
    <3>1. wq = <<>> => Len(wq) = 0
      OBVIOUS
    <3>2. wq = <<>> => Len(wq) < n + 1
      BY <3>1, <2>1
    <3> QED
      BY <2>2, <3>2, SubSeqEmpty
  <2> QED
    BY <2>4, <2>5, <2>6
<1>6. write_queue' = [write_queue EXCEPT ![h] = rest]
  BY DEF Written
<1>7. stack' = <<[Top EXCEPT !.pc = "written", !.q = sent]>>
  BY <1>2 DEF Written
<1> DEFINE f == [Top EXCEPT !.pc = "written", !.q = sent]
<1> HIDE DEF sent, rest
<1>8. f \in Frames /\ f.h = h /\ f.pc = "written"
  BY <1>2, <1>5 DEF Frames
<1>9. stack' = <<f>>
  BY <1>7
<1> HIDE DEF f
<1>10. Moves
  BY <1>3, <1>8, <1>9 DEF Moves, Flushing
<1> QED
  BY <1>0, <1>1, <1>2, <1>3, <1>4, <1>5, <1>6, <1>10 DEF NetShape

(* No write is ready. *)
LEMMA NothingToWriteKeeps ==
    ASSUME IInv, NothingToWrite
    PROVE  IInv'
<1>1. PICK h : h = Top.h
  OBVIOUS
<1>2. /\ WriteTurn /\ Written(h, 0) /\ UNCHANGED <<reactorVars, kernelVars, handle, closing_queue>>
  BY <1>1 DEF NothingToWrite, loopVars
<1>3. InService /\ h \in Handles /\ ~handle[h].connecting
  BY <1>1, <1>2, TopFacts DEF InService, WriteTurn, Writing, At, Flushing
<1>4. 0 \in 0..Len(write_queue[h])
  BY <1>3 DEF IInv, NetShape
<1> QED
  BY <1>1, <1>2, <1>3, <1>4, WrittenFacts, FrameKeeps

(* What the writes change in a handle that waits as before. *)
LEMMA SizeKeeps ==
    ASSUME IInv, WriteTurn, NEW h, h = Top.h, NEW n \in 0..Len(write_queue[h]), Written(h, n),
           NEW size, handle' = [handle EXCEPT ![h].size = size],
           UNCHANGED <<reactorVars, kernelVars, closing_queue>>
    PROVE  IInv'
<1>0. HandleShape
  BY DEF IInv, NetShape
<1>1. InService
  BY DEF InService, WriteTurn, Writing, At, Flushing
<1>2. h \in Handles /\ ~handle[h].connecting
  BY <1>1, TopFacts DEF WriteTurn, Writing, At
<1>3. /\ \A g \in Handles \ {h} : handle'[g] = handle[g]
      /\ handle'[h].state = handle[h].state /\ handle'[h].role = handle[h].role
      /\ handle'[h].connecting = handle[h].connecting /\ handle'[h].flags = handle[h].flags
      /\ handle'[h].accepted = handle[h].accepted /\ DOMAIN handle'[h] = Fields
      /\ DOMAIN handle' = Handles
  BY <1>0, <1>2 DEF HandleShape, Fields
<1>4. HandleShape'
  BY <1>0, <1>3 DEF HandleShape
<1> QED
  BY <1>1, <1>2, <1>3, <1>4, WrittenFacts, UntouchedKeeps

(* core_tcp_write. *)
LEMMA TcpWritesKeeps ==
    ASSUME IInv, TcpWrites
    PROVE  IInv'
<1>1. PICK h : h = Top.h
  OBVIOUS
<1>2. /\ WriteTurn /\ write_queue[h] # <<>>
      /\ UNCHANGED <<reactorVars, kernelVars, closing_queue>>
  BY <1>1 DEF TcpWrites, CanWrite, loopVars
<1>3. PICK n : /\ handle' = [handle EXCEPT ![h].size = @ - n]
               /\ Written(h, IF n = left[Head(write_queue[h])] THEN 1 ELSE 0)
  BY <1>1 DEF TcpWrites
<1>4. h \in Handles
  BY <1>1, <1>2, TopFacts DEF InService, WriteTurn, Writing, At, Flushing
<1>5. write_queue[h] \in Seq(Reqs)
  BY <1>4 DEF IInv, NetShape
<1>6. 1 \in 0..Len(write_queue[h]) /\ 0 \in 0..Len(write_queue[h])
  BY <1>2, <1>5
<1>7. handle' = [handle EXCEPT ![h].size = handle[h].size - n]
  BY <1>3
<1>8. CASE n = left[Head(write_queue[h])]
  BY <1>1, <1>2, <1>3, <1>6, <1>7, <1>8, SizeKeeps
<1>9. CASE n # left[Head(write_queue[h])]
  BY <1>1, <1>2, <1>3, <1>6, <1>7, <1>9, SizeKeeps
<1> QED
  BY <1>8, <1>9

(* core_udp_write. *)
LEMMA UdpWritesKeeps ==
    ASSUME IInv, UdpWrites
    PROVE  IInv'
<1>1. PICK h : h = Top.h
  OBVIOUS
<1>2. WriteTurn /\ UNCHANGED <<reactorVars, kernelVars, closing_queue>>
  BY DEF UdpWrites, loopVars
<1>3. PICK n \in 0..Len(write_queue[h]) :
         /\ Written(h, n)
         /\ handle' = [handle EXCEPT ![h].size = @ - Units(SubSeq(write_queue[h], 1, n))]
  BY <1>1 DEF UdpWrites
<1>4. PICK size : size = handle[h].size - Units(SubSeq(write_queue[h], 1, n))
  OBVIOUS
<1>5. handle' = [handle EXCEPT ![h].size = size]
  BY <1>3, <1>4
<1> QED
  BY <1>1, <1>2, <1>3, <1>5, SizeKeeps

(* An error: POLLOUT is given up together with HANDLE_WRITABLE. *)
LEMMA TcpWriteFailsKeeps ==
    ASSUME IInv, TcpWriteFails
    PROVE  IInv'
<1>0. NetShape /\ Watchers
  BY DEF IInv
<1>1. PICK h : h = Top.h
  OBVIOUS
<1>2. /\ WriteTurn /\ write_queue[h] # <<>> /\ Written(h, 1)
      /\ handle' = [handle EXCEPT ![h].size = @ - left[Head(write_queue[h])],
                                ![h].flags = FlagsWithout(h, {"OUT"}) \ {"WRITABLE"}]
      /\ apc_event_watcher_deregister(h, {"OUT"})
      /\ UNCHANGED <<kernelVars, closing_queue>>
  BY <1>1 DEF TcpWriteFails, CanWrite, loopVars
<1>3. InService /\ h \in Handles /\ ~handle[h].connecting
  BY <1>1, <1>2, TopFacts DEF InService, WriteTurn, Writing, At, Flushing
<1>4. 1 \in 0..Len(write_queue[h])
  <2>1. write_queue[h] \in Seq(Reqs)
    BY <1>0, <1>3 DEF NetShape
  <2> QED
    BY <2>1, <1>2
<1>5. /\ \A g \in Handles \ {h} : handle'[g] = handle[g]
      /\ handle'[h].state = handle[h].state /\ handle'[h].role = handle[h].role
      /\ handle'[h].connecting = handle[h].connecting
      /\ "WRITABLE" \notin handle'[h].flags
      /\ handle'[h].accepted = handle[h].accepted /\ DOMAIN handle'[h] = Fields
      /\ DOMAIN handle' = Handles
  <2> DEFINE new == [handle[h] EXCEPT !.size = @ - left[Head(write_queue[h])],
                         !.flags = FlagsWithout(h, {"OUT"}) \ {"WRITABLE"}]
  <2>0. DOMAIN handle = Handles /\ DOMAIN handle[h] = Fields
    BY <1>0, <1>3 DEF HandleShape, NetShape
  <2>1. handle' = [handle EXCEPT ![h] = new]
    BY <2>0, <1>2, <1>3
  <2>2. /\ new.state = handle[h].state /\ new.role = handle[h].role
        /\ new.connecting = handle[h].connecting
        /\ "WRITABLE" \notin new.flags
        /\ new.accepted = handle[h].accepted /\ DOMAIN new = Fields
    BY <2>0 DEF Fields
  <2> HIDE DEF new
  <2> QED
    BY <2>0, <2>1, <2>2, <1>3
<1>6. HandleShape'
  BY <1>0, <1>3, <1>5 DEF HandleShape, NetShape
<1>7. ~CanWrite(h)' /\ ~handle'[h].connecting
  BY <1>3, <1>5 DEF CanWrite
<1>8. KernelKept /\ {"OUT"} \in SUBSET PollEvents
  BY <1>0, <1>2, SameKernel DEF NetShape, PollEvents
<1>9. /\ write_queue' \in [Handles -> Seq(Reqs)]
      /\ \A g \in Handles \ {h} : write_queue'[g] = write_queue[g]
      /\ write_queue[h] = <<>> => write_queue'[h] = <<>>
      /\ Moves
  BY <1>1, <1>2, <1>4, <1>7, WrittenFacts
<1> QED
  <2>1. /\ apc_event_watcher_deregister(h, {"OUT"}) /\ UNCHANGED closing_queue
        /\ \A g \in Handles \ {h} : handle'[g] = handle[g] /\ write_queue'[g] = write_queue[g]
        /\ handle'[h].state = handle[h].state /\ handle'[h].role = handle[h].role
        /\ handle'[h].connecting => handle[h].connecting
    BY <1>2, <1>5, <1>9
  <2> QED
    BY <2>1, <1>1, <1>3, <1>6, <1>7, <1>8, <1>9, DeregisterKeeps

(* POLLOUT is given up only with an empty queue. *)
LEMMA WritesServedKeeps ==
    ASSUME IInv, WritesServed
    PROVE  IInv'
<1>0. NetShape /\ Watchers
  BY DEF IInv
<1>1. PICK h : h = Top.h
  OBVIOUS
<1>2. Top.pc = "written" /\ Return /\ UNCHANGED <<kernelVars, closing_queue, write_queue>>
  BY DEF WritesServed, At, loopVars
<1>3. InService
  BY DEF InService, WritesServed, At, Flushing
<1>4. h \in Handles /\ ~handle[h].connecting /\ Moves
  BY <1>1, <1>2, <1>3, TopFacts DEF Moves
<1>5. CASE write_queue[h] # <<>>
  <2>1. UNCHANGED <<reactorVars, handle>>
    BY <1>1, <1>5 DEF WritesServed
  <2> QED
    BY <2>1, <1>2, <1>3, <1>4, SameQueues, FrameKeeps, TopFacts
<1>6. CASE write_queue[h] = <<>>
  <2>1. /\ apc_event_watcher_deregister(h, {"OUT"})
        /\ handle' = [handle EXCEPT ![h].flags = FlagsWithout(h, {"OUT"})]
    BY <1>1, <1>6 DEF WritesServed
  <2>2. /\ \A g \in Handles \ {h} : handle'[g] = handle[g]
        /\ handle'[h].state = handle[h].state /\ handle'[h].role = handle[h].role
        /\ handle'[h].connecting = handle[h].connecting
        /\ handle'[h].accepted = handle[h].accepted /\ DOMAIN handle'[h] = Fields
        /\ DOMAIN handle' = Handles
    BY <2>1, <1>0, <1>4 DEF HandleShape, NetShape, Fields
  <2>3. HandleShape'
    BY <1>0, <1>4, <2>2 DEF HandleShape, NetShape
  <2>4. KernelKept /\ {"OUT"} \in SUBSET PollEvents
    BY <1>0, <1>2, SameKernel DEF NetShape, PollEvents
  <2>5. /\ write_queue' \in [Handles -> Seq(Reqs)]
        /\ \A g \in Handles : write_queue'[g] = write_queue[g]
    BY <1>2, SameQueues
  <2>6. ~CanWrite(h)' /\ ~handle'[h].connecting
    BY <1>4, <1>6, <2>2, <2>5 DEF CanWrite
  <2> QED
    BY <1>1, <1>2, <1>3, <1>4, <2>1, <2>2, <2>3, <2>4, <2>5, <2>6, DeregisterKeeps
<1> QED
  BY <1>5, <1>6

-----------------------------------------------------------------------------
(* apc_close: the frames above and below may be of other handles. *)

(* Another innermost frame. *)
LEMMA ReplaceFacts ==
    ASSUME stack \in Seq(Frames), stack # <<>>, NEW f \in Frames, Replace(f)
    PROVE  /\ stack' \in Seq(Frames) /\ Len(stack') = Len(stack)
           /\ stack'[1] = f
           /\ \A i \in 2..Len(stack) : stack'[i] = stack[i]
<1>1. stack' = <<f>> \o Tail(stack)
  BY DEF Replace
<1>2. Tail(stack) \in Seq(Frames) /\ Len(Tail(stack)) = Len(stack) - 1
      /\ \A i \in 1..Len(Tail(stack)) : Tail(stack)[i] = stack[i + 1]
  BY HeadTailProperties
<1> DEFINE t == Tail(stack)
           c == <<f>> \o t
<1>3. /\ c \in Seq(Frames) /\ Len(c) = 1 + Len(t) /\ c[1] = f
      /\ \A i \in 2..(1 + Len(t)) : c[i] = t[i - 1]
  <2>1. t \in Seq(Frames)
    BY <1>2
  <2> HIDE DEF t
  <2> QED
    BY <2>1
<1>4. Len(stack) \in Nat
  OBVIOUS
<1> HIDE DEF t
<1>5. ASSUME NEW i \in 2..Len(stack) PROVE c[i] = stack[i]
  <2>1. i - 1 \in 1..Len(Tail(stack)) /\ i \in 2..(1 + Len(t))
    BY <1>2, <1>4 DEF t
  <2> HIDE DEF c
  <2> QED
    BY <1>2, <1>3, <2>1 DEF t
<1> HIDE DEF c
<1> QED
  BY <1>1, <1>2, <1>3, <1>4, <1>5 DEF c, t

(* apc_close goes from a callback to the next write and back. *)
LEMMA FlushKeeps ==
    ASSUME IInv, stack # <<>>, Top.pc \in Flushing,
           NEW f \in Frames, f.h = Top.h, f.pc \in Flushing, Replace(f),
           UNCHANGED <<handle, write_queue, closing_queue, reactorVars, kernelVars>>
    PROVE  IInv'
<1>0. /\ NetShape /\ Watchers /\ Connections /\ Sockets /\ ClosingQueued
      /\ Suspended /\ PendingWatched
  BY DEF IInv
<1>1. stack \in Seq(Frames)
  BY <1>0 DEF NetShape
<1>2. /\ stack' \in Seq(Frames) /\ Len(stack') = Len(stack)
      /\ stack'[1] = f
      /\ \A i \in 2..Len(stack) : stack'[i] = stack[i]
  BY <1>1, ReplaceFacts
<1>3. /\ Len(stack) \in Nat /\ Len(stack) > 0 /\ DOMAIN stack = 1..Len(stack)
      /\ DOMAIN stack' = 1..Len(stack) /\ Top = stack[1]
  BY <1>1, <1>2, FrameFacts
<1>4. /\ \A i \in 1..Len(stack) : /\ stack'[i].h = stack[i].h
                                  /\ stack'[i].pc \in Flushing <=> stack[i].pc \in Flushing
      /\ \A i \in 1..Len(stack) : i # 1 => stack'[i] = stack[i]
  BY <1>2, <1>3
<1>5. \A g \in Handles : /\ InFrame(g, "on_connection")' <=> InFrame(g, "on_connection")
                         /\ BeingClosed(g)' <=> BeingClosed(g)
  <2> SUFFICES ASSUME NEW g \in Handles
               PROVE  /\ InFrame(g, "on_connection")' <=> InFrame(g, "on_connection")
                      /\ BeingClosed(g)' <=> BeingClosed(g)
    OBVIOUS
  <2>1. \A i \in 1..Len(stack) : stack'[i].pc = "on_connection" <=> stack[i].pc = "on_connection"
    BY <1>2, <1>3, <1>4 DEF Flushing
  <2>2. InFrame(g, "on_connection")' <=> InFrame(g, "on_connection")
    BY <1>3, <1>4, <2>1 DEF InFrame
  <2>3. BeingClosed(g) <=> \E i \in 1..Len(stack) : stack[i].h = g /\ stack[i].pc \in Flushing
    BY <1>3 DEF BeingClosed, InFrame, Flushing
  <2>4. BeingClosed(g)' <=> \E i \in 1..Len(stack) : stack'[i].h = g /\ stack'[i].pc \in Flushing
    BY <1>3 DEF BeingClosed, InFrame, Flushing
  <2> QED
    BY <1>4, <2>2, <2>3, <2>4
<1>6. UNCHANGED <<watcher, event_watchers, open, epoll>>
  BY DEF reactorVars, kernelVars
<1>7. NetShape'
  BY <1>0, <1>2, <1>6 DEF NetShape, ReactorTypeOK, HandleShape
<1>8. Watchers'
  BY <1>0, <1>6 DEF Watchers, Apart, Table, Listed, Told, FdOf
<1>9. Connections' /\ Sockets' /\ ClosingQueued'
  BY <1>0, <1>5, <1>6 DEF Connections, Held, Sockets, ClosingQueued, FdOf
<1>10. PendingWatched'
  BY <1>0, <1>5, <1>6 DEF PendingWatched, CanWrite, Watches
<1>11. Suspended'
  <2>1. \A i \in 2..Len(stack') : stack'[i].pc \in CallbackPcs
    BY <1>0, <1>2, <1>3 DEF Suspended
  <2>2. \A i \in 1..(Len(stack') - 1) : stack'[i].pc \in Flushing
    BY <1>0, <1>2, <1>3, <1>4 DEF Suspended
  <2>3. ASSUME NEW i \in 1..Len(stack') PROVE Resumable(i)'
    <3>1. i \in 1..Len(stack) /\ Resumable(i) /\ stack[i].h \in Handles
      BY <1>0, <1>1, <1>2, FrameFacts DEF Suspended, Frames
    <3>2. Resumable(1)
      BY <1>0, <1>3 DEF Suspended
    <3>3. CASE i = 1
      <4>1. /\ handle[f.h].state = "open" /\ watcher[f.h].events = {}
            /\ handle[f.h].accepted # NoFd => InFrame(f.h, "on_connection")
            /\ \A j \in 1..Len(stack) : j # 1 /\ stack[j].h = f.h
                  => stack[j].q = <<>> /\ stack[j].pc \notin Flushing
        BY <1>3, <3>2 DEF Resumable
      <4>2. f.h \in Handles
        BY <1>3, <3>1, <3>3
      <4> QED
        BY <1>2, <1>4, <1>5, <1>6, <3>3, <4>1, <4>2 DEF Resumable
    <3>4. CASE i # 1
      <4>1. stack'[i] = stack[i]
        BY <1>4, <3>1, <3>4
      <4>2. stack[i].pc \in Flushing => f.h # stack[i].h
        BY <1>3, <3>1, <3>2, <3>4 DEF Resumable
      <4>3. stack[i].pc \in Flushing =>
               \A j \in 1..Len(stack') : j # i /\ stack'[j].h = stack[i].h
                  => stack'[j].q = <<>> /\ stack'[j].pc \notin Flushing
        BY <1>2, <1>3, <1>4, <3>1, <4>2 DEF Resumable
      <4> QED
        BY <1>5, <1>6, <3>1, <4>1, <4>3 DEF Resumable, FdOf
    <3> QED
      BY <3>3, <3>4
  <2> QED
    BY <2>1, <2>2, <2>3 DEF Suspended
<1> QED
  BY <1>7, <1>8, <1>9, <1>10, <1>11 DEF IInv

(* apc_close answers a write. *)
LEMMA AnswerFlushedKeeps ==
    ASSUME IInv, AnswerFlushed
    PROVE  IInv'
<1> DEFINE f == Frame("on_flush", Top.h, Top.ev, Tail(Top.q))
<1>1. /\ stack # <<>> /\ Top.pc = "flush" /\ Top.q # <<>> /\ Replace(f)
      /\ UNCHANGED <<reactorVars, kernelVars, handle, write_queue, closing_queue>>
  BY DEF AnswerFlushed, Answer, At, loopVars
<1>2. Top \in Frames
  BY <1>1, FrameFacts DEF IInv, NetShape
<1>3. f \in Frames /\ f.h = Top.h /\ f.pc = "on_flush"
  <2>1. Tail(Top.q) \in Seq(Reqs)
    BY <1>1, <1>2 DEF Frames
  <2> QED
    BY <2>1, <1>2 DEF Frame, Frames, CallbackPcs
<1> HIDE DEF f
<1> QED
  BY <1>1, <1>3, FlushKeeps DEF Flushing

(* A callback returns to the loop. *)
LEMMA ReturnKeeps ==
    ASSUME IInv, stack # <<>>, Top.pc \notin Flushing, Return,
           UNCHANGED <<handle, write_queue, closing_queue, reactorVars, kernelVars>>
    PROVE  IInv'
<1>0. /\ NetShape /\ Watchers /\ Sockets /\ ClosingQueued /\ PendingWatched
  BY DEF IInv
<1>1. Alone
  BY TopAlone
<1>2. Top.h \in Handles /\ Tail(stack) = <<>> /\ ~BeingClosed(Top.h)
  BY <1>1, AloneFacts
<1>3. PICK h \in Handles : h = Top.h
  BY <1>2
<1>4. KernelKept
  BY <1>0, SameKernel DEF NetShape
<1>5. ReactorTypeOK' /\ Watchers'
  BY <1>0, <1>4, SameWatchersFacts DEF NetShape
<1>6. UNCHANGED watcher
  BY DEF reactorVars
<1>7. Step(h)
  BY <1>0, <1>2, <1>3, <1>5, <1>6
     DEF Step, Return, NetShape, HandleShape, Sockets, ClosingQueued, OnlyWatcher, FdOf,
         PendingWatched, CanWrite, Watches
<1> QED
  BY <1>1, <1>7, StepKeeps

(* A callback returns to the function that called it. *)
LEMMA CallbackReturnsKeeps ==
    ASSUME IInv, CallbackReturns \/ ConnectionTaken
    PROVE  IInv'
<1>1. /\ stack # <<>>
      /\ UNCHANGED <<handle, write_queue, closing_queue, reactorVars, kernelVars>>
  BY DEF CallbackReturns, ConnectionTaken, At, handleVars, loopVars
<1>2. Top \in Frames
  BY <1>1, FrameFacts DEF IInv, NetShape
<1>3. ASSUME NEW from, NEW to \in {"server", "io", "written"},
             At(from), from \in {"on_refused", "on_read", "on_write", "on_connection"}, Goto(to)
      PROVE  IInv'
  <2> DEFINE f == [Top EXCEPT !.pc = to]
  <2>1. InService
    BY <1>3 DEF InService, At, Flushing
  <2>2. f \in Frames /\ f.h = Top.h /\ f.pc = to /\ f.q = Top.q
    BY <1>2 DEF Frames
  <2>3. /\ stack' = <<f>> /\ ~handle[Top.h].connecting
        /\ Top.q # <<>> => handle[Top.h].state = "open"
    BY <1>3, <2>1, TopFacts DEF Goto, At
  <2> HIDE DEF f
  <2>4. Moves
    BY <1>1, <2>2, <2>3 DEF Moves, Flushing
  <2> QED
    BY <1>1, <2>1, <2>4, SameQueues, FrameKeeps, TopFacts
<1>4. ASSUME NEW from \in {"on_connected", "on_closing"}, At(from), Return
      PROVE  IInv'
  BY <1>1, <1>4, ReturnKeeps DEF At, Flushing
<1>5. ASSUME At("on_flush"), Goto("flush") PROVE IInv'
  <2> DEFINE f == [Top EXCEPT !.pc = "flush"]
  <2>1. f \in Frames /\ f.h = Top.h /\ f.pc = "flush"
    BY <1>2 DEF Frames
  <2>2. Replace(f)
    BY <1>5 DEF Goto
  <2> HIDE DEF f
  <2> QED
    BY <1>1, <1>5, <2>1, <2>2, FlushKeeps DEF At, Flushing
<1> QED
  BY <1>3, <1>4, <1>5 DEF CallbackReturns, ConnectionTaken

-----------------------------------------------------------------------------
(* The loop. *)

(* The poll and the end of an iteration. *)
LEMMA PollKeeps ==
    ASSUME IInv, Poll \/ LoopCheck
    PROVE  IInv'
<1>0. ReactorTypeOK /\ Watchers
  BY DEF IInv, NetShape
<1>1. CASE Poll
  <2>1. TellKernel /\ UNCHANGED <<handle, write_queue, closing_queue, stack>>
    BY <1>1 DEF Poll, handleVars
  <2>2. /\ ReactorTypeOK' /\ Watchers'
        /\ \A h \in Handles : /\ watcher'[h].fd = FdOf(h)
                              /\ watcher'[h].events = watcher[h].events
    BY <1>0, <2>1, TellKernelFacts
  <2>3. UNCHANGED open
    BY <2>1 DEF TellKernel
  <2> QED
    BY <2>1, <2>2, <2>3, QuietKeeps
<1>2. CASE LoopCheck
  <2>1. UNCHANGED <<handle, write_queue, closing_queue, stack, reactorVars, kernelVars>>
    BY <1>2 DEF LoopCheck, handleVars
  <2>2. ReactorTypeOK' /\ Watchers'
    BY <1>0, <2>1, SameKernel, SameWatchersFacts
  <2> QED
    BY <2>1, <2>2, QuietKeeps DEF reactorVars, kernelVars, FdOf
<1> QED
  BY <1>1, <1>2

(* An event goes to the present watcher of its descriptor. *)
LEMMA DispatchKeeps ==
    ASSUME IInv, NEW f \in Fds, Dispatch(f)
    PROVE  IInv'
<1>0. NetShape /\ Watchers /\ Sockets /\ ClosingQueued /\ PendingWatched
  BY DEF IInv
<1>1. PICK h \in Handles \cup {NoHandle} : h = event_watchers[f]
  BY <1>0 DEF NetShape, ReactorTypeOK
<1>2. stack = <<>> /\ UNCHANGED <<handle, write_queue, closing_queue>>
  BY DEF Dispatch, AtLoop, handleVars
<1>3. CASE h = NoHandle
  <2>1. DropInterest(f) /\ UNCHANGED stack
    BY <1>1, <1>3 DEF Dispatch
  <2>2. ReactorTypeOK' /\ Watchers'
    BY <1>0, <1>1, <1>3, <2>1, DropInterestFacts DEF NetShape
  <2> QED
    BY <1>2, <2>1, <2>2, QuietKeeps DEF DropInterest, FdOf
<1>4. CASE h # NoHandle
  <2> DEFINE ev == Wanted(h, batch[f])
             frame == Frame(EventPc(h), h, ev, <<>>)
  <2>1. /\ h \in Handles /\ UNCHANGED <<reactorVars, kernelVars>>
        /\ stack' = IF ev = {} THEN stack ELSE <<frame>>
    BY <1>1, <1>4 DEF Dispatch
  <2>2. ReactorTypeOK' /\ Watchers'
    BY <1>0, <2>1, SameKernel, SameWatchersFacts DEF NetShape
  <2>3. CASE ev = {}
    BY <1>2, <2>1, <2>2, <2>3, QuietKeeps DEF reactorVars, kernelVars, FdOf
  <2>4. CASE ev # {}
    <3>1. FdOf(h) # NoFd /\ handle[h].state = "open"
      BY <1>0, <1>1, <1>4, FdNumbers DEF Watchers, Table, Sockets
    <3>2. ev \in SUBSET (PollEvents \cup {"ERR"})
      BY <1>0, <2>1 DEF Wanted, NetShape, ReactorTypeOK
    <3>3. /\ EventPc(h) \in {"server", "connect", "io"}
          /\ EventPc(h) = "connect" <=> handle[h].connecting
      BY <1>0, <2>1 DEF EventPc, Sockets
    <3>4. /\ frame \in Frames /\ frame.h = h /\ frame.pc = EventPc(h) /\ frame.q = <<>>
      BY <2>1, <3>2, <3>3 DEF Frame, Frames
    <3>5. stack' = <<frame>>
      BY <2>1, <2>4
    <3> HIDE DEF frame
    <3>6. UNCHANGED watcher
      BY <2>1 DEF reactorVars
    <3>7. GoesOn(h)
      BY <1>2, <3>1, <3>3, <3>4, <3>5, <3>6 DEF GoesOn, Flushing, FdOf
    <3>8. Alone /\ ~BeingClosed(h)
      BY <1>2 DEF Alone, BeingClosed, InFrame
    <3>9. Step(h)
      BY <1>0, <1>2, <2>1, <2>2, <3>1, <3>6, <3>7, <3>8
         DEF Step, NetShape, HandleShape, Sockets, ClosingQueued, OnlyWatcher, FdOf,
             PendingWatched, CanWrite, Watches
    <3> QED
      BY <2>1, <3>8, <3>9, StepKeeps
  <2> QED
    BY <2>3, <2>4
<1> QED
  BY <1>3, <1>4

(* run_closing: the memory may be used again. *)
LEMMA RunClosingKeeps ==
    ASSUME IInv, RunClosing
    PROVE  IInv'
<1>0. NetShape /\ Watchers /\ Sockets /\ ClosingQueued
  BY DEF IInv
<1>1. PICK h : h = Head(closing_queue)
  OBVIOUS
<1>2. /\ stack = <<>> /\ closing_queue # <<>> /\ closing_queue' = Tail(closing_queue)
      /\ handle' = [handle EXCEPT ![h] = NoHandleYet]
      /\ stack' = <<Frame("on_closing", h, {}, <<>>)>>
      /\ UNCHANGED <<reactorVars, kernelVars, write_queue>>
  BY <1>1 DEF RunClosing, AtLoop
<1>3. closing_queue \in Seq(Handles)
  BY <1>0 DEF NetShape
<1>4. h \in Handles
  BY <1>1, <1>2, <1>3
<1>5. /\ closing_queue' \in Seq(Handles)
      /\ ToSet(closing_queue) = ToSet(closing_queue') \cup {h}
      /\ IsInjective(closing_queue') /\ h \notin ToSet(closing_queue')
  BY <1>0, <1>1, <1>2, <1>3, TailFacts DEF ClosingQueued
<1>6. handle[h].state = "closing" /\ FdOf(h) = NoFd /\ write_queue[h] = <<>>
  BY <1>0, <1>4, <1>5 DEF ClosingQueued, Sockets
<1>7. /\ \A g \in Handles \ {h} : handle'[g] = handle[g]
      /\ handle'[h] = NoHandleYet /\ DOMAIN handle' = Handles
  BY <1>0, <1>2, <1>4 DEF NetShape, HandleShape
<1>8. /\ NoHandleYet.state = "free" /\ NoHandleYet.role = "none"
      /\ NoHandleYet.connecting = FALSE /\ NoHandleYet.accepted = NoFd
      /\ DOMAIN NoHandleYet = Fields
  BY DEF NoHandleYet, Fields
<1>9. HandleShape'
  BY <1>0, <1>7, <1>8 DEF HandleShape, NetShape
<1>10. ClosingQueued'
  <2>1. ToSet(closing_queue') \subseteq Handles
    BY <1>5 DEF ToSet
  <2> QED
    BY <2>1, <1>0, <1>5, <1>7 DEF ClosingQueued
<1>11. ReactorTypeOK' /\ Watchers' /\ UNCHANGED watcher
  BY <1>0, <1>2, SameKernel, SameWatchersFacts DEF NetShape, reactorVars
<1>12. GoesOn(h)
  <2> DEFINE f == Frame("on_closing", h, {}, <<>>)
  <2>1. f \in Frames /\ f.h = h /\ f.pc = "on_closing" /\ f.q = <<>>
    BY <1>4 DEF Frame, Frames, CallbackPcs
  <2>2. stack' = <<f>>
    BY <1>2
  <2> HIDE DEF f
  <2> QED
    BY <2>1, <2>2 DEF GoesOn, Flushing
<1>13. Step(h)
  BY <1>0, <1>2, <1>5, <1>6, <1>7, <1>8, <1>9, <1>10, <1>11, <1>12
     DEF Step, NetShape, OnlyWatcher, FdOf
<1> QED
  BY <1>2, <1>4, <1>13, StepKeeps DEF Alone

-----------------------------------------------------------------------------
(* The beginning and the end of apc_close. *)

(* apc_close begins above the frames of the callback it is called from. *)
LEMMA CloseStartKeeps ==
    ASSUME IInv, Supported, NEW h \in Handles, CloseStart(h)
    PROVE  IInv'
<1>0. /\ NetShape /\ Watchers /\ Connections /\ Sockets /\ ClosingQueued
      /\ Suspended /\ PendingWatched
  BY DEF IInv
<1> DEFINE f == Frame("flush", h, {}, write_queue[h])
<1>1. /\ InUserCode /\ handle[h].state = "open" /\ ~BeingClosed(h) /\ ~Answering(h)
      /\ handle[h].accepted # NoFd => InFrame(h, "on_connection")
      /\ handle' = [handle EXCEPT ![h] = IF "READABLE" \in @.flags THEN StoppedReading(h) ELSE @]
      /\ apc_event_watcher_close(h)
      /\ write_queue' = [write_queue EXCEPT ![h] = <<>>]
      /\ stack' = <<f>> \o stack
      /\ UNCHANGED <<open, closing_queue>>
  BY DEF CloseStart, MayClose, MayCall, Supported, loopVars, apc_event_watcher_close
<1>2. stack \in Seq(Frames) /\ write_queue \in [Handles -> Seq(Reqs)]
  BY <1>0 DEF NetShape
<1>3. f \in Frames /\ f.h = h /\ f.pc = "flush"
  BY <1>2 DEF Frame, Frames
<1> HIDE DEF f
<1>4. /\ stack' \in Seq(Frames) /\ Len(stack') = Len(stack) + 1 /\ Len(stack) \in Nat
      /\ stack'[1] = f /\ \A i \in 2..(Len(stack) + 1) : stack'[i] = stack[i - 1]
      /\ DOMAIN stack = 1..Len(stack) /\ DOMAIN stack' = 1..(Len(stack) + 1)
  BY <1>1, <1>2, <1>3
<1>5. \A i \in 1..Len(stack) : stack[i] \in Frames /\ stack'[i + 1] = stack[i]
  BY <1>2, <1>4, FrameFacts
<1>6. /\ \A g \in Handles \ {h} : handle'[g] = handle[g] /\ write_queue'[g] = write_queue[g]
      /\ write_queue'[h] = <<>>
      /\ handle'[h].state = handle[h].state /\ handle'[h].role = handle[h].role
      /\ handle'[h].connecting = handle[h].connecting
      /\ handle'[h].accepted = handle[h].accepted /\ DOMAIN handle'[h] = Fields
      /\ DOMAIN handle' = Handles
  BY <1>0, <1>1, <1>2 DEF HandleShape, NetShape, Fields, StoppedReading
<1>7. /\ ReactorTypeOK' /\ Watchers' /\ OnlyWatcher(h)
      /\ watcher'[h].fd = FdOf(h) /\ watcher'[h].events = {}
  BY <1>0, <1>1, WatcherCloseFacts DEF NetShape
<1>8. \A g \in Handles : FdOf(g)' = FdOf(g)
  BY <1>7 DEF OnlyWatcher, FdOf
<1>9. NetShape'
  <2>1. HandleShape'
    BY <1>0, <1>6 DEF HandleShape, NetShape
  <2>2. write_queue' \in [Handles -> Seq(Reqs)]
    BY <1>1, <1>2
  <2> QED
    BY <2>1, <2>2, <1>0, <1>1, <1>4, <1>7 DEF NetShape
<1>10. \A g \in Handles :
          /\ InFrame(g, "on_connection")' <=> InFrame(g, "on_connection")
          /\ g # h => (BeingClosed(g)' <=> BeingClosed(g))
          /\ BeingClosed(h)'
  <2>1. ASSUME NEW g \in Handles, NEW pc, g # h \/ pc # "flush"
        PROVE  InFrame(g, pc)' <=> InFrame(g, pc)
    <3>1. \A i \in 1..Len(stack) : stack'[i + 1] = stack[i] /\ i + 1 \in 1..(Len(stack) + 1)
      BY <1>4, <1>5
    <3>2. \A i \in 1..(Len(stack) + 1) : i # 1 =>
             /\ i - 1 \in 1..Len(stack) /\ stack'[i] = stack[i - 1]
      BY <1>4
    <3>3. InFrame(g, pc) => InFrame(g, pc)'
      BY <1>4, <3>1 DEF InFrame
    <3>4. InFrame(g, pc)' => InFrame(g, pc)
      <4>1. ASSUME InFrame(g, pc)' PROVE InFrame(g, pc)
        <5>1. PICK i \in 1..(Len(stack) + 1) : stack'[i].h = g /\ stack'[i].pc = pc
          BY <1>4, <4>1 DEF InFrame
        <5>2. i # 1
          BY <1>3, <1>4, <2>1, <5>1
        <5> QED
          BY <1>4, <3>2, <5>1, <5>2 DEF InFrame
      <4> QED
        BY <4>1
    <3> QED
      BY <3>3, <3>4
  <2>2. BeingClosed(h)'
    BY <1>3, <1>4 DEF BeingClosed, InFrame
  <2> QED
    BY <2>1, <2>2 DEF BeingClosed
<1>11. Connections'
  BY <1>0, <1>1, <1>6, <1>8, <1>10 DEF Connections, Held
<1>12. Sockets'
  BY <1>0, <1>6, <1>8 DEF Sockets
<1>13. ClosingQueued'
  <2>1. ToSet(closing_queue) \subseteq Handles
    BY <1>0 DEF NetShape, ToSet
  <2> QED
    BY <2>1, <1>0, <1>1, <1>6 DEF ClosingQueued
<1>14. PendingWatched'
  BY <1>0, <1>6, <1>7, <1>10 DEF PendingWatched, CanWrite, Watches, OnlyWatcher
<1>15. Suspended'
  <2>1. ASSUME NEW i \in 2..Len(stack') PROVE stack'[i].pc \in CallbackPcs
    <3>1. i - 1 \in 1..Len(stack) /\ stack'[i] = stack[i - 1]
      BY <1>4
    <3>2. CASE i = 2
      <4>1. stack # <<>> /\ Top = stack[1]
        BY <1>2, <3>1, FrameFacts
      <4> QED
        BY <1>1, <3>1, <3>2, <4>1 DEF InUserCode
    <3>3. CASE i # 2
      <4>1. i - 1 \in 2..Len(stack)
        BY <1>4, <3>1, <3>3
      <4> QED
        BY <1>0, <3>1, <4>1 DEF Suspended
    <3> QED
      BY <3>2, <3>3
  <2>2. ASSUME NEW i \in 1..(Len(stack') - 1) PROVE stack'[i].pc \in Flushing
    <3>1. CASE i = 1
      BY <1>3, <1>4, <3>1 DEF Flushing
    <3>2. CASE i # 1
      <4>1. i - 1 \in 1..(Len(stack) - 1) /\ stack'[i] = stack[i - 1]
        BY <1>4, <3>2
      <4> QED
        BY <1>0, <4>1 DEF Suspended
    <3> QED
      BY <3>1, <3>2
  <2>3. Resumable(1)'
    <3>1. \A j \in 1..Len(stack') : j # 1 /\ stack'[j].h = h
              => stack'[j].q = <<>> /\ stack'[j].pc \notin Flushing
      <4> SUFFICES ASSUME NEW j \in 1..Len(stack'), j # 1, stack'[j].h = h
                   PROVE  stack'[j].q = <<>> /\ stack'[j].pc \notin Flushing
        OBVIOUS
      <4>1. j - 1 \in 1..Len(stack) /\ stack'[j] = stack[j - 1]
        BY <1>4
      <4> QED
        BY <1>1, <1>4, <4>1 DEF Answering, BeingClosed, InFrame, Flushing
    <3> QED
      BY <1>1, <1>3, <1>4, <1>6, <1>7, <1>10, <3>1 DEF Resumable, Flushing
  <2>4. ASSUME NEW i \in 2..Len(stack') PROVE Resumable(i)'
    <3>0. PICK k, g : k = i - 1 /\ g = stack[k].h
      OBVIOUS
    <3>1. k \in 1..Len(stack) /\ stack'[i] = stack[k] /\ g \in Handles /\ Resumable(k)
      BY <1>0, <1>4, <1>5, <3>0 DEF Suspended, Frames
    <3>2. stack[k].pc \in Flushing => g # h
      BY <1>1, <1>4, <3>0, <3>1 DEF BeingClosed, InFrame, Flushing
    <3>3. ASSUME stack[k].pc \in Flushing, NEW j \in 1..Len(stack'), j # i, stack'[j].h = g
          PROVE  stack'[j].q = <<>> /\ stack'[j].pc \notin Flushing
      <4>1. j # 1
        BY <1>3, <1>4, <3>0, <3>2, <3>3
      <4>2. j - 1 \in 1..Len(stack) /\ stack'[j] = stack[j - 1] /\ j - 1 # k
        BY <1>4, <3>0, <3>3, <4>1
      <4> QED
        BY <3>0, <3>1, <3>3, <4>2 DEF Resumable
    <3>4. /\ handle'[g].state = handle[g].state
          /\ handle'[g].connecting = handle[g].connecting
          /\ handle'[g].accepted = handle[g].accepted
          /\ FdOf(g)' = FdOf(g)
          /\ g # h => watcher'[g] = watcher[g]
      BY <1>6, <1>7, <1>8, <3>1 DEF OnlyWatcher
    <3>5. stack'[i] = stack[k] /\ stack'[i].h = g
      BY <3>0, <3>1
    <3>6. InFrame(g, "on_connection")' <=> InFrame(g, "on_connection")
      BY <1>10, <3>1
    <3> QED
      BY <3>0, <3>1, <3>2, <3>3, <3>4, <3>5, <3>6 DEF Resumable
  <2> QED
    BY <2>1, <2>2, <2>3, <2>4, <1>4 DEF Suspended
<1> QED
  BY <1>7, <1>9, <1>11, <1>12, <1>13, <1>14, <1>15 DEF IInv

(* The end of apc_close. *)
LEMMA CloseEndKeeps ==
    ASSUME IInv, CloseEnd
    PROVE  IInv'
<1>0. /\ NetShape /\ Watchers /\ Connections /\ Sockets /\ ClosingQueued
      /\ Suspended /\ PendingWatched
  BY DEF IInv
<1>1. PICK h : h = Top.h
  OBVIOUS
<1>2. /\ stack # <<>> /\ Top.pc = "flush" /\ Top.q = <<>>
      /\ CloseFds({FdOf(h), handle[h].accepted})
      /\ watcher' = [watcher EXCEPT ![h].fd = NoFd]
      /\ write_queue' = [write_queue EXCEPT ![h] = <<>>]
      /\ handle' = [handle EXCEPT ![h] = [NoHandleYet EXCEPT !.state = "closing"]]
      /\ closing_queue' \in {closing_queue, Append(closing_queue, h)}
      /\ stack' = Tail(stack)
      /\ UNCHANGED event_watchers
  BY <1>1 DEF CloseEnd, At, Return
<1>3. /\ stack \in Seq(Frames) /\ write_queue \in [Handles -> Seq(Reqs)]
      /\ closing_queue \in Seq(Handles)
  BY <1>0 DEF NetShape
<1>4. /\ Len(stack) \in Nat /\ Len(stack) > 0 /\ Top = stack[1] /\ Top \in Frames /\ h \in Handles
      /\ stack' \in Seq(Frames) /\ Len(stack') = Len(stack) - 1
      /\ \A i \in 1..(Len(stack) - 1) : stack'[i] = stack[i + 1]
      /\ DOMAIN stack = 1..Len(stack) /\ DOMAIN stack' = 1..(Len(stack) - 1)
  BY <1>1, <1>2, <1>3, FrameFacts, HeadTailProperties DEF Frames
<1>5. /\ handle[h].state = "open" /\ watcher[h].events = {}
      /\ handle[h].accepted # NoFd => InFrame(h, "on_connection")
      /\ \A j \in 1..Len(stack) : j # 1 /\ stack[j].h = h
            => stack[j].q = <<>> /\ stack[j].pc \notin Flushing
  <2>1. Resumable(1) /\ stack[1].pc \in Flushing /\ stack[1].h = h
    BY <1>0, <1>1, <1>2, <1>4 DEF Suspended, Flushing
  <2> QED
    BY <2>1 DEF Resumable
<1>6. \A g \in Handles \ {h} : FdOf(g) # NoFd => FdOf(g) \notin {FdOf(h), handle[h].accepted}
  BY <1>0, <1>4, <1>5 DEF Watchers, Apart, Connections, Held
<1>7. /\ ReactorTypeOK' /\ Watchers' /\ OnlyWatcher(h)
      /\ watcher'[h].fd = NoFd /\ watcher'[h].events = {}
  BY <1>0, <1>2, <1>4, <1>5, <1>6, NoFdFacts DEF NetShape
<1>8. /\ \A g \in Handles \ {h} : handle'[g] = handle[g] /\ write_queue'[g] = write_queue[g]
      /\ write_queue'[h] = <<>>
      /\ handle'[h].state = "closing" /\ handle'[h].role = "none"
      /\ handle'[h].connecting = FALSE
      /\ handle'[h].accepted = NoFd /\ DOMAIN handle'[h] = Fields
      /\ DOMAIN handle' = Handles
  BY <1>0, <1>2, <1>3, <1>4 DEF HandleShape, NetShape, Fields, NoHandleYet
<1>9. \A g \in Handles \ {h} : FdOf(g)' = FdOf(g) /\ watcher'[g] = watcher[g]
  BY <1>7 DEF OnlyWatcher, FdOf
<1>10. NetShape' /\ ClosingQueued'
  <2>1. HandleShape'
    BY <1>0, <1>8 DEF HandleShape, NetShape
  <2>2. write_queue' \in [Handles -> Seq(Reqs)]
    <3>1. write_queue' = [write_queue EXCEPT ![h] = <<>>] /\ <<>> \in Seq(Reqs)
      BY <1>2
    <3> QED
      BY <1>3, <3>1
  <2>3. h \notin ToSet(closing_queue)
    BY <1>0, <1>5 DEF ClosingQueued
  <2>4. /\ closing_queue' \in Seq(Handles) /\ IsInjective(closing_queue')
        /\ ToSet(closing_queue') \subseteq ToSet(closing_queue) \cup {h}
    <3>1. CASE closing_queue' = closing_queue
      BY <1>0, <1>3, <3>1 DEF ClosingQueued
    <3>2. CASE closing_queue' = Append(closing_queue, h)
      BY <1>0, <1>3, <1>4, <2>3, <3>2, AppendFacts DEF ClosingQueued
    <3> QED
      BY <1>2, <3>1, <3>2
  <2>5. ToSet(closing_queue) \subseteq Handles
    BY <1>3 DEF ToSet
  <2>6. \A g \in ToSet(closing_queue') : handle'[g].state = "closing"
    BY <1>0, <1>8, <2>4, <2>5 DEF ClosingQueued
  <2> QED
    BY <2>1, <2>2, <2>4, <2>6, <1>4, <1>7 DEF NetShape, ClosingQueued
<1>11. \A g \in Handles \ {h} : \A pc : InFrame(g, pc)' <=> InFrame(g, pc)
  <2> SUFFICES ASSUME NEW g \in Handles \ {h}, NEW pc
               PROVE  InFrame(g, pc)' <=> InFrame(g, pc)
    OBVIOUS
  <2>1. ASSUME InFrame(g, pc)' PROVE InFrame(g, pc)
    <3>1. PICK i \in 1..(Len(stack) - 1) : stack'[i].h = g /\ stack'[i].pc = pc
      BY <1>4, <2>1 DEF InFrame
    <3>2. i + 1 \in 1..Len(stack) /\ stack'[i] = stack[i + 1]
      BY <1>4
    <3> QED
      BY <1>4, <3>1, <3>2 DEF InFrame
  <2>2. ASSUME InFrame(g, pc) PROVE InFrame(g, pc)'
    <3>1. PICK i \in 1..Len(stack) : stack[i].h = g /\ stack[i].pc = pc
      BY <1>4, <2>2 DEF InFrame
    <3>2. i # 1
      BY <1>1, <1>4, <3>1
    <3>3. i - 1 \in 1..(Len(stack) - 1) /\ stack'[i - 1] = stack[(i - 1) + 1]
      BY <1>4, <3>2
    <3>4. (i - 1) + 1 = i
      BY <1>4
    <3> QED
      BY <1>4, <3>1, <3>3, <3>4 DEF InFrame
  <2> QED
    BY <2>1, <2>2
<1>12. Connections'
  <2> SUFFICES ASSUME NEW g \in Handles, Held(g)'
               PROVE  /\ handle'[g].accepted \in open'
                      /\ \A k \in Handles : FdOf(k)' # handle'[g].accepted
                      /\ \A k \in Handles \ {g} : Held(k)' =>
                            handle'[k].accepted # handle'[g].accepted
    BY DEF Connections
  <2>1. \A k \in Handles : Held(k)' => /\ k # h /\ Held(k)
                                       /\ handle'[k].accepted = handle[k].accepted
    BY <1>8, <1>11 DEF Held
  <2>2. handle[g].accepted \in open /\ g # h /\ handle[g].accepted # NoFd
    BY <1>0, <2>1 DEF Connections, Held
  <2>3. handle[g].accepted \notin {FdOf(h), handle[h].accepted}
    BY <1>0, <1>4, <1>5, <2>1, <2>2 DEF Connections, Held
  <2>4. handle[g].accepted \in open'
    BY <1>2, <2>2, <2>3 DEF CloseFds
  <2>5. \A k \in Handles : FdOf(k)' # handle[g].accepted
    BY <1>0, <1>7, <1>9, <2>1, <2>2 DEF Connections, FdOf
  <2> QED
    BY <1>0, <2>1, <2>4, <2>5 DEF Connections
<1>13. Sockets'
  BY <1>0, <1>7, <1>8, <1>9 DEF Sockets, FdOf
<1>14. PendingWatched'
  BY <1>0, <1>8, <1>9, <1>11 DEF PendingWatched, BeingClosed, CanWrite, Watches
<1>15. Suspended'
  <2>0. \A i \in 1..(Len(stack) - 1) : i + 1 \in 2..Len(stack) /\ stack'[i] = stack[i + 1]
    BY <1>4
  <2>1. \A i \in 2..Len(stack') : stack'[i].pc \in CallbackPcs
    BY <1>0, <1>4, <2>0 DEF Suspended
  <2>2. ASSUME NEW i \in 1..(Len(stack') - 1) PROVE stack'[i].pc \in Flushing
    <3>1. i + 1 \in 1..(Len(stack) - 1) /\ stack'[i] = stack[i + 1]
      BY <1>4
    <3> QED
      BY <1>0, <3>1 DEF Suspended
  <2>3. ASSUME NEW i \in 1..Len(stack') PROVE Resumable(i)'
    <3>0. PICK k, g : k = i + 1 /\ g = stack[k].h
      OBVIOUS
    <3>1. k \in 2..Len(stack) /\ k \in 1..Len(stack) /\ stack'[i] = stack[k]
      BY <1>4, <3>0
    <3>2. g \in Handles /\ Resumable(k) /\ stack[k].pc \in CallbackPcs
      BY <1>0, <1>3, <3>0, <3>1, FrameFacts DEF Suspended, Frames
    <3>3. stack'[i].h = g /\ stack[k].pc # "connect"
      BY <3>0, <3>1, <3>2 DEF CallbackPcs
    <3>4. CASE g = h
      <4>1. stack[k].q = <<>> /\ stack[k].pc \notin Flushing
        <5>1. k # 1 /\ k \in 1..Len(stack) /\ stack[k].h = h
          BY <1>4, <3>0, <3>1, <3>4
        <5> QED
          BY <1>5, <5>1
      <4> QED
        BY <1>8, <3>1, <3>3, <3>4, <4>1 DEF Resumable
    <3>5. CASE g # h
      <4>1. ASSUME stack[k].pc \in Flushing, NEW j \in 1..Len(stack'), j # i, stack'[j].h = g
            PROVE  stack'[j].q = <<>> /\ stack'[j].pc \notin Flushing
        <5>1. j + 1 \in 1..Len(stack) /\ stack'[j] = stack[j + 1] /\ j + 1 # k
          BY <1>4, <3>0, <4>1
        <5> QED
          BY <3>0, <3>2, <4>1, <5>1 DEF Resumable
      <4>2. /\ handle'[g] = handle[g] /\ FdOf(g)' = FdOf(g) /\ watcher'[g] = watcher[g]
            /\ InFrame(g, "on_connection")' <=> InFrame(g, "on_connection")
        BY <1>8, <1>9, <1>11, <3>2, <3>5
      <4> QED
        BY <3>0, <3>1, <3>2, <3>3, <4>1, <4>2 DEF Resumable
    <3> QED
      BY <3>4, <3>5
  <2> QED
    BY <2>1, <2>2, <2>3 DEF Suspended
<1> QED
  BY <1>7, <1>10, <1>12, <1>13, <1>14, <1>15 DEF IInv

-----------------------------------------------------------------------------
(* The invariant is inductive. *)

(* It holds at first. *)
LEMMA IInvInit == Init => IInv
<1> SUFFICES ASSUME Init PROVE IInv
  OBVIOUS
<1> USE FdNumbers DEF Init, ReactorInit
<1>1. /\ NewWatcher.fd = NoFd /\ NewWatcher.events = {}
      /\ ~NewWatcher.queued /\ ~NewWatcher.registered
      /\ NewWatcher \in [fd : Fds \cup {NoFd}, events : SUBSET PollEvents,
                         registered : BOOLEAN, queued : BOOLEAN]
  BY DEF NewWatcher
<1>2. /\ NoHandleYet.state = "free" /\ NoHandleYet.role = "none"
      /\ NoHandleYet.connecting = FALSE /\ NoHandleYet.accepted = NoFd
      /\ DOMAIN NoHandleYet = Fields
  BY DEF NoHandleYet, Fields
<1>3. ReactorTypeOK
  BY <1>1 DEF ReactorTypeOK
<1>4. NetShape
  <2>1. HandleShape
    BY <1>2 DEF HandleShape
  <2>2. \A S : <<>> \in Seq(S)
    OBVIOUS
  <2> QED
    BY <1>3, <2>1, <2>2 DEF NetShape
<1>5. Watchers
  BY <1>1 DEF Watchers, Apart, Table, Listed, Told, FdOf
<1>6. Connections /\ Sockets /\ PendingWatched
  BY <1>1, <1>2 DEF Connections, Held, Sockets, PendingWatched, CanWrite, FdOf
<1>7. ClosingQueued
  <2>1. ToSet(<<>>) = {} /\ IsInjective(<<>>)
    BY EmptyFacts
  <2> QED
    BY <2>1 DEF ClosingQueued
<1>8. Suspended
  BY DEF Suspended
<1> QED
  BY <1>4, <1>5, <1>6, <1>7, <1>8 DEF IInv

(* Every step keeps it. *)
LEMMA IInvStep ==
    ASSUME IInv, Supported, [Next]_vars
    PROVE  IInv'
<1>1. CASE UserStep
  BY <1>1, UserStepKeeps
<1>2. ASSUME NEW h \in Handles, CloseStart(h) PROVE IInv'
  BY <1>2, CloseStartKeeps
<1>3. CASE CloseEnd
  BY <1>3, CloseEndKeeps
<1>4. CASE AnswerFlushed
  BY <1>4, AnswerFlushedKeeps
<1>5. CASE \/ ServerStops \/ AcceptFails \/ StillConnecting \/ ReadLoopEnds \/ ReadData
           \/ IoReturns \/ AnswerWritten
  BY <1>5, MovesKeeps
<1>6. CASE Accepts
  BY <1>6, AcceptsKeeps
<1>7. CASE CallbackReturns \/ ConnectionTaken
  BY <1>7, CallbackReturnsKeeps
<1>8. CASE ConnectionLeft
  BY <1>8, ConnectionLeftKeeps
<1>9. CASE Connects
  BY <1>9, ConnectsKeeps
<1>10. CASE ReadEnds
  BY <1>10, ReadEndsKeeps
<1>11. CASE NothingToWrite
  BY <1>11, NothingToWriteKeeps
<1>12. CASE TcpWrites
  BY <1>12, TcpWritesKeeps
<1>13. CASE TcpWriteFails
  BY <1>13, TcpWriteFailsKeeps
<1>14. CASE UdpWrites
  BY <1>14, UdpWritesKeeps
<1>15. CASE WritesServed
  BY <1>15, WritesServedKeeps
<1>16. CASE Poll \/ LoopCheck
  BY <1>16, PollKeeps
<1>17. ASSUME NEW f \in Fds, Dispatch(f) PROVE IInv'
  BY <1>17, DispatchKeeps
<1>18. CASE RunClosing
  BY <1>18, RunClosingKeeps
<1>19. CASE UNCHANGED vars
  <2>1. UNCHANGED <<handle, write_queue, closing_queue, stack, reactorVars, kernelVars>>
    BY <1>19 DEF vars, handleVars, loopVars
  <2>2. ReactorTypeOK' /\ Watchers'
    BY <2>1, SameKernel, SameWatchersFacts DEF IInv, NetShape
  <2> QED
    BY <2>1, <2>2, QuietKeeps DEF reactorVars, kernelVars, FdOf
<1> QED
  BY <1>1, <1>2, <1>3, <1>4, <1>5, <1>6, <1>7, <1>8, <1>9, <1>10, <1>11, <1>12, <1>13, <1>14,
     <1>15, <1>16, <1>17, <1>18, <1>19 DEF Next

(* It holds always. *)
LEMMA Inductive ==
    ASSUME Supported
    PROVE  Spec => []IInv
<1>1. IInv /\ [Next]_vars => IInv'
  BY IInvStep
<1> QED
  BY IInvInit, <1>1, PTL DEF Spec

(* No two handles have one descriptor, a descriptor in use is open, and the *)
(* reactor and the kernel are asked only for watchers that have theirs:     *)
(* epoll_ctl never fails for one (reactor.c), for any number of handles,    *)
(* descriptors and writes, whichever callbacks call what the code supports. *)
THEOREM DescriptorsKept ==
    ASSUME Supported
    PROVE  Spec => []DescriptorsOwned
<1>1. IInv => DescriptorsOwned
  <2> SUFFICES ASSUME IInv PROVE DescriptorsOwned
    OBVIOUS
  <2>0. NetShape /\ Watchers /\ Connections
    BY DEF IInv
  <2>1. ASSUME At("on_connection"), handle[Top.h].accepted # NoFd
        PROVE  /\ handle[Top.h].accepted \in open
               /\ \A g \in Handles : FdOf(g) # handle[Top.h].accepted
    <3>1. Top \in Frames /\ 1 \in DOMAIN stack /\ stack[1] = Top /\ Top.pc = "on_connection"
      BY <2>0, <2>1, FrameFacts DEF NetShape, At
    <3>2. Top.h \in Handles /\ Held(Top.h)
      BY <2>1, <3>1 DEF Held, InFrame, Frames
    <3> QED
      BY <2>0, <3>2 DEF Connections
  <2> QED
    BY <2>0, <2>1 DEF DescriptorsOwned, Watchers, Apart, Table, Listed, Told, FdOf
<1> QED
  BY <1>1, Inductive, PTL

(* A handle that connects, or has writes it can make, waits for POLLOUT and *)
(* keeps the loop going, although net_write, the write loop, net_stop_read  *)
(* and the ends of a connect and of a read all change what it waits for.    *)
THEOREM PendingIsWatched ==
    ASSUME Supported
    PROVE  Spec => []PendingWatched
<1>1. IInv => PendingWatched
  BY DEF IInv
<1> QED
  BY <1>1, Inductive, PTL

(* What a callback is called for, is open. *)
LEMMA CallsOpen ==
    ASSUME IInv, [Next]_vars, CallsBack
    PROVE  handle[Head(stack').h].state = "open"
<1> DEFINE calls == Head(stack').h = Top.h /\ handle[Top.h].state = "open"
<1>0. Sockets /\ stack \in Seq(Frames) /\ Suspended
  BY DEF IInv, NetShape
<1>1. /\ stack # <<>> /\ Len(stack') = Len(stack) /\ Top.pc # Head(stack').pc
      /\ Head(stack').pc \in CallbackPcs \ {"on_closing"}
  BY DEF CallsBack
<1>2. ~Return /\ stack' # stack
  <2>1. Len(Tail(stack)) # Len(stack)
    BY <1>0, <1>1
  <2> QED
    BY <2>1, <1>1 DEF Return, Top
<1>3. \A f : Replace(f) => Head(stack') = f
  BY DEF Replace
<1>4. Top.h \in Handles /\ (Top.q # <<>> => handle[Top.h].state = "open")
      /\ (Top.pc = "connect" => handle[Top.h].connecting)
  <2>1. Resumable(1) /\ stack[1] = Top /\ Top \in Frames
    BY <1>0, <1>1, FrameFacts DEF Suspended
  <2> QED
    BY <2>1 DEF Resumable, Frames, Flushing
<1>5. FdOf(Top.h) # NoFd => handle[Top.h].state = "open"
  BY <1>0, <1>4 DEF Sockets
<1>6. \A pc \in {"server", "io", "written", "flush"} : ~Goto(pc)
  <2> SUFFICES ASSUME NEW pc \in {"server", "io", "written", "flush"}, Goto(pc) PROVE FALSE
    OBVIOUS
  <2>1. Head(stack') = [Top EXCEPT !.pc = pc] /\ Top \in Frames
    BY <1>0, <1>1, <1>3, FrameFacts DEF Goto
  <2>2. Head(stack').pc = pc
    BY <2>1 DEF Frames
  <2> QED
    BY <1>1, <2>2 DEF CallbackPcs
<1>7. Top \in Frames
  BY <1>0, <1>1, FrameFacts
<1>8. CASE UserStep \/ Poll \/ LoopCheck \/ UNCHANGED vars
  BY <1>2, <1>8 DEF UserStep, Poll, LoopCheck, vars
<1>9. ASSUME NEW h \in Handles, CloseStart(h) PROVE FALSE
  <2>1. PICK f \in Frames : stack' = <<f>> \o stack
    <3>1. write_queue[h] \in Seq(Reqs)
      BY <1>9 DEF IInv, NetShape
    <3>2. Frame("flush", h, {}, write_queue[h]) \in Frames
      BY <1>9, <3>1 DEF Frame, Frames
    <3> QED
      BY <1>9, <3>2 DEF CloseStart
  <2>2. Len(<<f>> \o stack) = Len(stack) + 1
    BY <1>0
  <2> QED
    BY <1>0, <1>1, <2>1, <2>2
<1>10. CASE \/ CloseEnd \/ ServerStops \/ ConnectionTaken \/ ConnectionLeft \/ StillConnecting
            \/ IoReturns \/ WritesServed \/ CallbackReturns
  BY <1>2, <1>6, <1>10 DEF CloseEnd, ServerStops, ConnectionTaken, ConnectionLeft,
     StillConnecting, IoReturns, WritesServed, CallbackReturns
<1>11. CASE AnswerFlushed \/ AnswerWritten
  BY <1>3, <1>4, <1>11 DEF AnswerFlushed, AnswerWritten, Answer, Frame
<1>12. CASE AcceptFails \/ Accepts
  BY <1>3, <1>5, <1>7, <1>12 DEF AcceptFails, Accepts, Goto, Frames
<1>13. CASE Connects
  BY <1>0, <1>3, <1>4, <1>5, <1>7, <1>13 DEF Connects, Goto, Frames, Sockets, At
<1>14. CASE ReadLoopEnds
  BY <1>1, <1>3, <1>7, <1>14 DEF ReadLoopEnds, Reading, At, Frames
<1>15. CASE ReadData \/ ReadEnds
  BY <1>3, <1>5, <1>7, <1>15 DEF ReadData, ReadEnds, Reads, Frames
<1>16. ASSUME NEW h, NEW n, Written(h, n) PROVE FALSE
  <2>1. Head(stack') = [Top EXCEPT !.pc = "written", !.q = SubSeq(write_queue[h], 1, n)]
    BY <1>3, <1>16 DEF Written
  <2>2. Head(stack').pc = "written"
    BY <1>7, <2>1 DEF Frames
  <2> QED
    BY <1>1, <2>2 DEF CallbackPcs
<1>17. CASE NothingToWrite \/ TcpWrites \/ TcpWriteFails \/ UdpWrites
  BY <1>16, <1>17 DEF NothingToWrite, TcpWrites, TcpWriteFails, UdpWrites
<1>18. CASE RunClosing \/ \E f \in Fds : Dispatch(f)
  BY <1>1, <1>18 DEF RunClosing, Dispatch, AtLoop
<1> QED
  BY <1>8, <1>9, <1>10, <1>11, <1>12, <1>13, <1>14, <1>15, <1>17, <1>18 DEF Next

(* The library calls a callback of a handle, other than its closing one,    *)
(* only while the handle is open: apc_close may be called in every callback *)
(* and ends the loops of accept, read and write that are under way.         *)
THEOREM SilentIfClosed ==
    ASSUME Supported
    PROVE  Spec => SilentOnceClosed
<1>1. IInv /\ [Next]_vars => [CallsBack => handle[Head(stack').h].state = "open"]_vars
  BY CallsOpen
<1> QED
  BY <1>1, Inductive, PTL DEF Spec, SilentOnceClosed

-----------------------------------------------------------------------------
(* What is left of a handle that has been closed. *)
Gone == [NoHandleYet EXCEPT !.state = "closing"]

Zeroed == \A h \in Handles : handle[h].state = "closing" => handle[h] = Gone

LEMMA GoneFacts ==
    ASSUME IInv, Zeroed, NEW h \in Handles, handle[h].state = "closing"
    PROVE  /\ handle[h] = Gone /\ handle[h].flags = {} /\ handle[h].accepted = NoFd
           /\ FdOf(h) = NoFd /\ watcher[h].events = {} /\ ~watcher[h].queued
           /\ ~handle[h].connecting /\ write_queue[h] = <<>>
<1>1. handle[h] = Gone
  BY DEF Zeroed
<1>2. handle[h].flags = {} /\ handle[h].accepted = NoFd /\ handle[h].role = "none"
  BY <1>1 DEF Gone, NoHandleYet
<1>3. FdOf(h) = NoFd /\ ~handle[h].connecting /\ write_queue[h] = <<>>
  BY <1>2 DEF IInv, Sockets
<1>4. watcher[h].events = {} /\ ~watcher[h].queued
  BY <1>3 DEF IInv, Watchers, Listed, Told
<1> QED
  BY <1>1, <1>2, <1>3, <1>4

(* A step leaves a closed handle as it is, and makes none but a zeroed one. *)
Leaves(h) ==
    /\ handle[h].state = "closing" =>
          /\ handle'[h] = handle[h] \/ (RunClosing /\ h = Head(closing_queue))
          /\ watcher'[h] = watcher[h] /\ write_queue'[h] = write_queue[h]
    /\ handle'[h].state = "closing" => handle'[h] = Gone

(* A step that changes one handle, which is not closed. *)
ChangesOne(h) ==
    /\ handle[h].state # "closing"
    /\ handle'[h].state # "closing" \/ handle'[h] = Gone
    /\ \A g \in Handles \ {h} : /\ handle'[g] = handle[g] /\ watcher'[g] = watcher[g]
                                /\ write_queue'[g] = write_queue[g]

LEMMA ChangesOneLeaves ==
    ASSUME Zeroed, NEW h \in Handles, ChangesOne(h)
    PROVE  \A g \in Handles : Leaves(g)
BY DEF Zeroed, ChangesOne, Leaves

LEMMA ChangesNoneLeaves ==
    ASSUME Zeroed, UNCHANGED <<handle, watcher, write_queue>>
    PROVE  \A g \in Handles : Leaves(g)
BY DEF Zeroed, Leaves

(* A change of some fields, but not of the state, of an open handle. *)
LEMMA FieldsChanged ==
    ASSUME NetShape, NEW h \in Handles, handle[h].state # "closing", NEW k,
           handle' = [handle EXCEPT ![h] = k], k.state # "closing" \/ k = Gone,
           \A g \in Handles \ {h} : watcher'[g] = watcher[g],
           \A g \in Handles \ {h} : write_queue'[g] = write_queue[g]
    PROVE  ChangesOne(h)
BY DEF ChangesOne, NetShape, HandleShape

(* apc_event_watcher_register and _deregister change one watcher. *)
LEMMA OneWatcher ==
    ASSUME NetShape, NEW h \in Handles, NEW w, NEW events,
           \/ RegisterAs(h, w, events) \/ apc_event_watcher_deregister(h, events)
           \/ watcher' = [watcher EXCEPT ![h] = w] \/ UNCHANGED watcher
    PROVE  \A g \in Handles \ {h} : watcher'[g] = watcher[g]
BY DEF NetShape, ReactorTypeOK, RegisterAs, apc_event_watcher_deregister, reactorVars

LEMMA CallLeaves ==
    ASSUME IInv, Zeroed, Supported, NEW h \in Handles, UserCall(h)
    PROVE  \A g \in Handles : Leaves(g)
<1>0. NetShape /\ HandleShape
  BY DEF IInv, NetShape
<1> USE DEF HandleShape, Fields
<1>1. CASE apc_net_init(h)
  <2>1. PICK use \in Uses[h] :
           handle' = [handle EXCEPT ![h] = [NoHandleYet EXCEPT !.state = "open", !.use = use]]
    BY <1>1 DEF apc_net_init
  <2>2. [NoHandleYet EXCEPT !.state = "open", !.use = use].state = "open"
    BY DEF NoHandleYet
  <2>3. ChangesOne(h)
    BY <1>0, <1>1, <2>1, <2>2, OneWatcher, FieldsChanged DEF apc_net_init
  <2> QED
    BY <2>3, ChangesOneLeaves
<1>2. CASE apc_bind(h) \/ apc_tcp_connect(h) \/ apc_listen(h) \/ apc_start_read(h)
           \/ apc_stop_read(h) \/ (\E r \in Reqs : apc_write(h, r))
  <2>1. handle[h].state = "open"
    BY <1>2, MayCallFacts DEF apc_bind, apc_tcp_connect, apc_listen, apc_start_read,
       apc_stop_read, apc_write
  <2>2. handle'[h].state = "open" /\ \A g \in Handles \ {h} : handle'[g] = handle[g]
    <3>1. CASE apc_bind(h)
      BY <1>0, <2>1, <3>1 DEF apc_bind
    <3>2. CASE apc_tcp_connect(h)
      BY <1>0, <2>1, <3>2 DEF apc_tcp_connect, With
    <3>3. CASE apc_listen(h)
      BY <1>0, <2>1, <3>3 DEF apc_listen, With
    <3>4. CASE apc_start_read(h) \/ apc_stop_read(h)
      BY <1>0, <2>1, <3>4 DEF apc_start_read, apc_stop_read, With, StoppedReading
    <3>5. ASSUME NEW r \in Reqs, apc_write(h, r)
          PROVE  handle'[h].state = "open" /\ \A g \in Handles \ {h} : handle'[g] = handle[g]
      <4>1. PICK n \in Sizes :
               \/ handle' = [handle EXCEPT ![h].size = @ + n]
               \/ handle' = [handle EXCEPT ![h] = [With(h, {"ACTIVE", "WRITABLE"})
                                                      EXCEPT !.size = @ + n]]
        BY <3>5 DEF apc_write
      <4>2. [With(h, {"ACTIVE", "WRITABLE"}) EXCEPT !.size = @ + n].state = "open"
        BY <1>0, <2>1 DEF With
      <4> QED
        BY <1>0, <2>1, <4>1, <4>2
    <3> QED
      BY <1>2, <3>1, <3>2, <3>3, <3>4, <3>5
  <2>3. \A g \in Handles \ {h} : watcher'[g] = watcher[g]
    BY <1>0, <1>2, OneWatcher DEF apc_bind, apc_tcp_connect, apc_listen, apc_start_read,
       apc_stop_read, apc_write, apc_event_watcher_register, reactorVars
  <2>4. \A g \in Handles \ {h} : write_queue'[g] = write_queue[g]
    BY <1>0, <1>2 DEF NetShape, apc_bind, apc_tcp_connect, apc_listen, apc_start_read,
       apc_stop_read, apc_write
  <2>5. ChangesOne(h)
    BY <2>1, <2>2, <2>3, <2>4 DEF ChangesOne
  <2> QED
    BY <2>5, ChangesOneLeaves
<1>3. CASE apc_reject(h)
  <2>1. handle[h].state = "open"
    BY <1>3, MayCallFacts DEF apc_reject
  <2>2. handle'[h].state = "open" /\ \A g \in Handles \ {h} : handle'[g] = handle[g]
    BY <1>0, <1>3, <2>1 DEF apc_reject
  <2>3. ChangesOne(h)
    BY <1>3, <2>1, <2>2 DEF ChangesOne, apc_reject, reactorVars
  <2> QED
    BY <2>3, ChangesOneLeaves
<1>4. ASSUME NEW c \in Handles, apc_accept(h, c) PROVE \A g \in Handles : Leaves(g)
  <2>1. handle[h].state = "open" /\ handle[c].state = "free"
    BY <1>4, MayCallFacts DEF apc_accept
  <2>2. /\ handle'[h].state = "open" /\ handle'[c].state = "open"
        /\ \A g \in Handles \ {h, c} : handle'[g] = handle[g]
    BY <1>0, <1>4, <2>1 DEF apc_accept, NoHandleYet
  <2>3. /\ \A g \in Handles \ {c} : watcher'[g] = watcher[g]
        /\ UNCHANGED write_queue
    BY <1>0, <1>4, OneWatcher DEF apc_accept
  <2> QED
    BY <2>1, <2>2, <2>3 DEF Zeroed, Leaves
<1> QED
  BY <1>1, <1>2, <1>3, <1>4 DEF UserCall

(* The steps that go on with the handle of the innermost frame. *)
LEMMA TopLeaves ==
    ASSUME IInv, Zeroed, stack # <<>>,
           \/ Accepts \/ ConnectionLeft \/ Connects \/ ReadEnds
           \/ NothingToWrite \/ TcpWrites \/ TcpWriteFails \/ UdpWrites
    PROVE  \A g \in Handles : Leaves(g)
<1> DEFINE h == Top.h
<1>0. NetShape /\ HandleShape /\ Sockets /\ Suspended /\ stack \in Seq(Frames)
  BY DEF IInv, NetShape
<1>1. h \in Handles /\ Resumable(1) /\ stack[1] = Top
  BY <1>0, FrameFacts DEF Suspended, Frames
<1>2. handle[h].state # "closing"
  <2> SUFFICES ASSUME handle[h].state = "closing" PROVE FALSE
    OBVIOUS
  <2>1. FdOf(h) = NoFd /\ handle[h].accepted = NoFd /\ ~handle[h].connecting
    BY <1>1, GoneFacts
  <2>2. ~Connects
    BY <1>1, <2>1 DEF Connects, At, Resumable, Flushing
  <2> QED
    BY <2>1, <2>2 DEF Accepts, ConnectionLeft, ReadEnds, Reads, NothingToWrite, TcpWrites,
       TcpWriteFails, UdpWrites, WriteTurn
<1> USE DEF HandleShape, Fields
<1>3. handle'[h].state = handle[h].state /\ \A g \in Handles \ {h} : handle'[g] = handle[g]
  <2>1. CASE Accepts \/ ConnectionLeft \/ ReadEnds
    BY <1>0, <1>1, <2>1 DEF Accepts, ConnectionLeft, ReadEnds
  <2>2. CASE Connects
    <3>1. CASE handle' = [handle EXCEPT ![h] = [With(h, {"READABLE", "WRITABLE"})
                                                  EXCEPT !.connecting = FALSE]]
      <4>1. [With(h, {"READABLE", "WRITABLE"}) EXCEPT !.connecting = FALSE].state
               = handle[h].state
        BY <1>0, <1>1 DEF With
      <4> QED
        BY <1>0, <1>1, <3>1, <4>1
    <3>2. CASE handle' = [handle EXCEPT ![h].connecting = FALSE,
                 ![h].flags = FlagsWithout(h, {"OUT"}) \cup {"READABLE", "WRITABLE"}]
      BY <1>0, <1>1, <3>2
    <3> QED
      BY <2>2, <3>1, <3>2 DEF Connects
  <2>3. CASE NothingToWrite
    BY <2>3 DEF NothingToWrite
  <2>4. CASE TcpWrites
    <3>1. PICK n : handle' = [handle EXCEPT ![h].size = @ - n]
      BY <2>4 DEF TcpWrites
    <3> QED
      BY <1>0, <1>1, <3>1
  <2>5. CASE TcpWriteFails
    <3>1. PICK n, flags : handle' = [handle EXCEPT ![h].size = n, ![h].flags = flags]
      BY <1>0, <1>1, <2>5 DEF TcpWriteFails
    <3> QED
      BY <1>0, <1>1, <3>1
  <2>6. CASE UdpWrites
    <3>1. PICK n : handle' = [handle EXCEPT ![h].size = @ - n]
      BY <2>6 DEF UdpWrites
    <3> QED
      BY <1>0, <1>1, <3>1
  <2> QED
    BY <2>1, <2>2, <2>3, <2>4, <2>5, <2>6
<1>4. \A g \in Handles \ {h} : watcher'[g] = watcher[g]
  BY <1>0, <1>1, OneWatcher DEF Accepts, ConnectionLeft, Connects, ReadEnds, NothingToWrite,
     TcpWrites, TcpWriteFails, UdpWrites, reactorVars
<1>5. \A g \in Handles \ {h} : write_queue'[g] = write_queue[g]
  <2>1. ASSUME NEW n, Written(h, n) PROVE \A g \in Handles \ {h} : write_queue'[g] = write_queue[g]
    BY <1>0, <2>1 DEF Written, NetShape
  <2> QED
    BY <2>1 DEF Accepts, ConnectionLeft, Connects, ReadEnds, NothingToWrite, TcpWrites,
       TcpWriteFails, UdpWrites
<1>6. ChangesOne(h)
  BY <1>2, <1>3, <1>4, <1>5 DEF ChangesOne
<1> QED
  BY <1>1, <1>6, ChangesOneLeaves

(* The end of fd_watcher_*_io, of a handle that may have been closed by the *)
(* callback of its last write.                                              *)
LEMMA ServedLeaves ==
    ASSUME IInv, Zeroed, WritesServed
    PROVE  \A g \in Handles : Leaves(g)
<1> DEFINE h == Top.h
<1>0. NetShape /\ HandleShape /\ stack \in Seq(Frames) /\ stack # <<>>
  BY DEF IInv, NetShape, WritesServed, At
<1>1. h \in Handles
  BY <1>0, FrameFacts DEF Frames
<1>2. CASE write_queue[h] # <<>>
  BY <1>2, ChangesNoneLeaves DEF WritesServed, reactorVars
<1>3. CASE write_queue[h] = <<>>
  <2>1. /\ apc_event_watcher_deregister(h, {"OUT"}) /\ UNCHANGED write_queue
        /\ handle' = [handle EXCEPT ![h].flags = FlagsWithout(h, {"OUT"})]
    BY <1>3 DEF WritesServed
  <2>2. CASE handle[h].state = "closing"
    <3>1. FdOf(h) = NoFd /\ watcher[h].events = {} /\ handle[h] = Gone /\ handle[h].flags = {}
      BY <1>1, <2>2, GoneFacts
    <3>2. UNCHANGED watcher
      BY <2>1, <3>1 DEF apc_event_watcher_deregister, reactorVars
    <3>3. FlagsWithout(h, {"OUT"}) = {}
      BY <3>1 DEF FlagsWithout
    <3>4. [Gone EXCEPT !.flags = {}] = Gone
      <4>1. Gone = [x \in DOMAIN Gone |-> Gone[x]] /\ Gone.flags = {}
        <5>1. Gone = [x \in DOMAIN Gone |-> Gone[x]]
          BY DEF Gone
        <5> QED
          BY <5>1 DEF Gone, NoHandleYet
      <4> QED
        BY <4>1
    <3>5. \A g \in Handles : handle'[g] = handle[g]
      BY <1>0, <1>1, <2>1, <3>1, <3>3, <3>4 DEF HandleShape
    <3> QED
      BY <2>1, <3>2, <3>5 DEF Zeroed, Leaves
  <2>3. CASE handle[h].state # "closing"
    <3>1. handle'[h].state = handle[h].state /\ \A g \in Handles \ {h} : handle'[g] = handle[g]
      BY <1>0, <1>1, <2>1 DEF HandleShape, Fields
    <3>2. \A g \in Handles \ {h} : watcher'[g] = watcher[g]
      BY <1>0, <1>1, <2>1, OneWatcher
    <3>3. ChangesOne(h)
      BY <2>1, <2>3, <3>1, <3>2 DEF ChangesOne
    <3> QED
      BY <1>1, <3>3, ChangesOneLeaves
  <2> QED
    BY <2>2, <2>3
<1> QED
  BY <1>2, <1>3

LEMMA CloseLeaves ==
    ASSUME IInv, Zeroed, Supported, NEW h \in Handles,
           CloseStart(h) \/ (CloseEnd /\ h = Top.h)
    PROVE  \A g \in Handles : Leaves(g)
<1>0. NetShape /\ HandleShape /\ Suspended /\ stack \in Seq(Frames)
  BY DEF IInv, NetShape
<1>1. CASE CloseStart(h)
  <2>1. handle[h].state = "open"
    BY <1>1, MayCallFacts DEF CloseStart, MayClose
  <2>2. handle'[h].state = "open" /\ \A g \in Handles \ {h} : handle'[g] = handle[g]
    BY <1>0, <1>1, <2>1 DEF CloseStart, StoppedReading, HandleShape, Fields
  <2>3. \A g \in Handles \ {h} : watcher'[g] = watcher[g] /\ write_queue'[g] = write_queue[g]
    BY <1>0, <1>1, OneWatcher DEF CloseStart, apc_event_watcher_close, NetShape
  <2>4. ChangesOne(h)
    BY <2>1, <2>2, <2>3 DEF ChangesOne
  <2> QED
    BY <2>4, ChangesOneLeaves
<1>2. CASE CloseEnd /\ h = Top.h
  <2>1. stack # <<>> /\ Top.pc = "flush" /\ Resumable(1) /\ stack[1] = Top
    BY <1>0, <1>2, FrameFacts DEF CloseEnd, At, Suspended
  <2>2. handle[h].state = "open"
    BY <1>2, <2>1 DEF Resumable, Flushing
  <2>3. handle'[h] = Gone /\ \A g \in Handles \ {h} : handle'[g] = handle[g]
    BY <1>0, <1>2 DEF CloseEnd, Gone, HandleShape
  <2>4. \A g \in Handles \ {h} : watcher'[g] = watcher[g] /\ write_queue'[g] = write_queue[g]
    BY <1>0, <1>2 DEF CloseEnd, NetShape, ReactorTypeOK
  <2>5. ChangesOne(h)
    BY <2>2, <2>3, <2>4 DEF ChangesOne
  <2> QED
    BY <2>5, ChangesOneLeaves
<1> QED
  BY <1>1, <1>2

(* The steps of apc_loop_run. *)
LEMMA LoopLeaves ==
    ASSUME IInv, Zeroed, Poll \/ RunClosing
    PROVE  \A g \in Handles : Leaves(g)
<1>0. NetShape /\ HandleShape
  BY DEF IInv, NetShape
<1>1. CASE Poll
  <2>1. UNCHANGED <<handle, write_queue>>
    BY <1>1 DEF Poll, handleVars
  <2>2. ASSUME NEW g \in Handles, handle[g].state = "closing" PROVE watcher'[g] = watcher[g]
    BY <1>1, <2>2, GoneFacts DEF Poll, TellKernel
  <2> QED
    BY <2>1, <2>2 DEF Zeroed, Leaves
<1>2. CASE RunClosing
  <2> DEFINE h == Head(closing_queue)
  <2>1. UNCHANGED <<watcher, write_queue>> /\ handle' = [handle EXCEPT ![h] = NoHandleYet]
    BY <1>2 DEF RunClosing, reactorVars
  <2>2. \A g \in Handles : IF g = h THEN handle'[g] = NoHandleYet ELSE handle'[g] = handle[g]
    BY <1>0, <2>1 DEF HandleShape
  <2>3. NoHandleYet.state # "closing"
    BY DEF NoHandleYet
  <2> QED
    BY <1>2, <2>1, <2>2, <2>3 DEF Zeroed, Leaves
<1> QED
  BY <1>1, <1>2

LEMMA StepLeaves ==
    ASSUME IInv, Zeroed, Supported, [Next]_vars
    PROVE  (\A g \in Handles : Leaves(g)) /\ Zeroed'
<1>0. stack \in Seq(Frames)
  BY DEF IInv, NetShape
<1>1. \A g \in Handles : Leaves(g)
  <2>1. CASE UserStep
    BY <2>1, CallLeaves DEF UserStep
  <2>2. ASSUME NEW h \in Handles, CloseStart(h) PROVE \A g \in Handles : Leaves(g)
    BY <2>2, CloseLeaves
  <2>3. CASE CloseEnd
    <3>1. Top.h \in Handles
      BY <1>0, <2>3, FrameFacts DEF CloseEnd, At, Frames
    <3> QED
      BY <2>3, <3>1, CloseLeaves
  <2>4. CASE \/ AnswerFlushed \/ AnswerWritten \/ ServerStops \/ AcceptFails \/ ConnectionTaken
             \/ StillConnecting \/ ReadLoopEnds \/ ReadData \/ IoReturns \/ CallbackReturns
             \/ (\E f \in Fds : Dispatch(f)) \/ LoopCheck \/ UNCHANGED vars
    <3>1. UNCHANGED <<handle, watcher, write_queue>>
      BY <2>4 DEF AnswerFlushed, AnswerWritten, Answer, ServerStops, AcceptFails, ConnectionTaken,
         StillConnecting, ReadLoopEnds, ReadData, IoReturns, CallbackReturns, Dispatch,
         DropInterest, LoopCheck, vars, reactorVars, handleVars
    <3> QED
      BY <3>1, ChangesNoneLeaves
  <2>5. CASE \/ Accepts \/ ConnectionLeft \/ Connects \/ ReadEnds
             \/ NothingToWrite \/ TcpWrites \/ TcpWriteFails \/ UdpWrites
    <3>1. stack # <<>>
      BY <2>5 DEF Accepts, ConnectionLeft, Connects, ReadEnds, Reading, NothingToWrite, TcpWrites,
         TcpWriteFails, UdpWrites, WriteTurn, Writing, At
    <3> QED
      BY <2>5, <3>1, TopLeaves
  <2>6. CASE WritesServed
    BY <2>6, ServedLeaves
  <2>7. CASE Poll \/ RunClosing
    BY <2>7, LoopLeaves
  <2> QED
    BY <2>1, <2>2, <2>3, <2>4, <2>5, <2>6, <2>7 DEF Next
<1> QED
  BY <1>1 DEF Leaves, Zeroed

(* A closed handle is left alone: every function of the library that is     *)
(* suspended when a callback closes the handle it serves, and every later   *)
(* event of the batch, finds out by itself, for any nesting of callbacks    *)
(* and any number of handles (core.c, net.c).                               *)
THEOREM ClosedLeftAlone ==
    ASSUME Supported
    PROVE  Spec => ClosedUntouched
<1>1. Init => Zeroed
  BY DEF Init, NoHandleYet, Zeroed
<1>2. Spec => [](IInv /\ Zeroed)
  <2>1. IInv /\ Zeroed /\ [Next]_vars => IInv' /\ Zeroed'
    BY IInvStep, StepLeaves
  <2> QED
    BY <1>1, <2>1, IInvInit, PTL DEF Spec
<1>3. IInv /\ Zeroed /\ [Next]_vars =>
         [\A h \in Handles : handle[h].state = "closing" =>
             /\ handle'[h] = handle[h] \/ (RunClosing /\ h = Head(closing_queue))
             /\ watcher'[h] = watcher[h] /\ write_queue'[h] = write_queue[h]]_vars
  BY StepLeaves DEF Leaves
<1> QED
  BY <1>2, <1>3, PTL DEF Spec, ClosedUntouched
==============================================================================
