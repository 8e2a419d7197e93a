--------------------------------- MODULE Net ---------------------------------
(***************************************************************************)
(* tcp.c, udp.c, net.c and the i/o callbacks of core.c: TCP and UDP        *)
(* handles of one loop, over the reactor.                                  *)
(*                                                                         *)
(* The loop is one thread, but the user's callbacks run in the middle of   *)
(* the library's functions and may call it again, apc_close on the very    *)
(* handle included.  `stack` holds the library functions that are          *)
(* suspended or running, innermost first; a frame has                      *)
(*     pc   where its function is; "on_..." while it waits for a callback  *)
(*     h    the handle                                                     *)
(*     ev   the events of the watcher callback still to be served          *)
(*     q    core_write_callbacks' queue: the writes to be answered         *)
(* A step is the code between two callbacks.  The user calls the library   *)
(* from callbacks, and before the poll, where the callbacks of timers run  *)
(* and, in the first iteration, main has just run.                         *)
(*                                                                         *)
(* Abstracted: buffers are a number of units to write; whether a read      *)
(* fails or has data, and how much a write takes, is the kernel's choice.  *)
(***************************************************************************)
EXTENDS Reactor, Sequences, SequencesExt

CONSTANTS Reqs,
          Uses,             \* what users make of each handle's memory: a TCP
                            \* handle that listens ("server"), one that connects
                            \* or is accepted ("stream"), or a UDP one ("udp")
          Sizes,            \* bound: how many units a write may have
          Allows            \* what users do that the code does not support

ASSUME NetAssumption == /\ Uses \in [Handles -> SUBSET {"server", "stream", "udp"}]
                        /\ Sizes \subseteq Nat \ {0}
                        /\ Allows \subseteq {"call_in_close", "close_in_on_write",
                                             "stop_with_writes", "use_while_connecting",
                                             "leave_unaccepted"}

VARIABLES handle,           \* the fields of each handle besides its watcher
          write_queue,
          left,             \* of a write: the units not written
          active_requests, closing_queue,
          phase,            \* of apc_loop_run: "timers", "events", "end"
          batch,            \* what epoll_wait returned and is not dispatched yet
          stack

handleVars == <<handle, write_queue, left, active_requests>>
loopVars == <<phase, batch, closing_queue>>
vars == <<reactorVars, kernelVars, handleVars, loopVars, stack>>

NoEvents == [f \in Fds |-> {}]

(* Zeroed memory: no handle yet, or its closing callback has been called.   *)
NoHandleYet == [state |-> "free", use |-> "none", flags |-> {}, role |-> "none", reading |-> FALSE,
                connecting |-> FALSE, accepted |-> NoFd, size |-> 0]

Init == /\ ReactorInit
        /\ handle = [h \in Handles |-> NoHandleYet]
        /\ write_queue = [h \in Handles |-> <<>>]
        /\ left = [r \in Reqs |-> 0]
        /\ active_requests = 0
        /\ closing_queue = <<>>
        /\ phase = "timers" /\ batch = NoEvents /\ stack = <<>>

------------------------------------------------------------------------------
(* The stack. *)
Frame(pc, h, ev, q) == [pc |-> pc, h |-> h, ev |-> ev, q |-> q]
Top == Head(stack)
At(pc) == stack # <<>> /\ Top.pc = pc
Replace(f) == stack' = <<f>> \o Tail(stack)
Goto(pc) == Replace([Top EXCEPT !.pc = pc])
Return == stack' = Tail(stack)

CallbackPcs == {"on_connection", "on_refused", "on_connected", "on_read",
                "on_write", "on_flush", "on_closing"}
InUserCode == IF stack = <<>> THEN phase = "timers" ELSE Top.pc \in CallbackPcs

(* The frames of a handle. *)
InFrame(h, pc) == \E i \in DOMAIN stack : stack[i].h = h /\ stack[i].pc = pc

(* The writes of a handle that are not answered, in order: those the inner  *)
(* calls of core_write_callbacks hold come after those of the outer ones.   *)
Pending(h) ==
    LET from[i \in 0..Len(stack)] ==
            IF i = 0 THEN write_queue[h]
            ELSE IF stack[i].h = h THEN stack[i].q \o from[i - 1] ELSE from[i - 1]
    IN  from[Len(stack)]
InFlight == UNION {ToSet(Pending(h)) : h \in Handles}

(* apc_close is answering the writes of the handle. *)
BeingClosed(h) == InFrame(h, "on_flush") \/ InFrame(h, "flush")
MayCall(h) == /\ handle[h].state = "open"
              /\ BeingClosed(h) => "call_in_close" \in Allows

(* An i/o callback is answering the writes of the handle, and has more to   *)
(* answer when on_write returns.  core_write_callbacks then goes on with    *)
(* handle->loop, which apc_close sets to NULL: core_udp_write finishes      *)
(* several writes in a row, core_tcp_write one at a time.  To close in an   *)
(* on_write that is not the last is therefore left to Allows.               *)
Answering(h) == \E i \in DOMAIN stack :
    stack[i].h = h /\ stack[i].q # <<>> /\ stack[i].pc \notin {"flush", "on_flush"}
MayClose(h) == MayCall(h) /\ (Answering(h) => "close_in_on_write" \in Allows)

------------------------------------------------------------------------------
Tcp(h) == handle[h].use \in {"server", "stream"}
Udp(h) == handle[h].use = "udp"

(* Handle updates. *)
With(h, flags) == [handle[h] EXCEPT !.flags = @ \cup flags]

(* The flags after the events `gone` have been deregistered:               *)
(* apc_deregister_handle_ if the watcher waits for nothing else.           *)
FlagsWithout(h, gone) ==
    IF watcher[h].events \ gone = {} THEN handle[h].flags \ {"ACTIVE"} ELSE handle[h].flags

------------------------------------------------------------------------------
(* The user's calls.  apc_tcp_init, apc_udp_init. *)
apc_net_init(h) ==
    /\ handle[h].state = "free"
    /\ \E use \in Uses[h] :
          handle' = [handle EXCEPT ![h] = [NoHandleYet EXCEPT !.state = "open", !.use = use]]
    /\ watcher' = [watcher EXCEPT ![h] = NewWatcher]
    /\ UNCHANGED <<event_watchers, kernelVars, write_queue, left, active_requests>>

(* apc_tcp_bind, apc_udp_bind and apc_udp_connect, when the socket is made. *)
apc_bind(h) ==
    /\ handle[h].use \in {"server", "udp"}
    /\ MayCall(h) /\ FdOf(h) = NoFd /\ HasFreeFd
    /\ watcher' = [watcher EXCEPT ![h] = apc_event_watcher_init(FreeFd)]
    /\ open' = open \cup {FreeFd}
    /\ handle' = [handle EXCEPT ![h].role = IF Tcp(h) THEN "bound" ELSE "stream"]
    /\ UNCHANGED <<event_watchers, epoll, write_queue, left, active_requests>>

apc_tcp_connect(h) ==
    /\ handle[h].use = "stream"
    /\ MayCall(h) /\ FdOf(h) = NoFd /\ HasFreeFd
    /\ open' = open \cup {FreeFd}
    /\ RegisterAs(h, apc_event_watcher_init(FreeFd), {"OUT"})
    /\ handle' = [handle EXCEPT ![h] = [With(h, {"ACTIVE"}) EXCEPT
                                           !.role = "stream", !.connecting = TRUE]]
    /\ active_requests' = active_requests + 1
    /\ UNCHANGED <<epoll, write_queue, left>>

(* On a bound socket, or on one that listens or has stopped to. *)
apc_listen(h) ==
    /\ MayCall(h) /\ handle[h].role \in {"bound", "server"}
    /\ handle[h].accepted # NoFd => "leave_unaccepted" \in Allows
    /\ apc_event_watcher_register(h, {"IN"})
    /\ handle' = [handle EXCEPT ![h] = [With(h, {"ACTIVE", "READABLE"}) EXCEPT !.role = "server"]]
    /\ UNCHANGED <<kernelVars, write_queue, left, active_requests>>

(* The handle `c` is not registered: it keeps the loop going only once it  *)
(* reads or writes.                                                        *)
apc_accept(s, c) ==
    /\ MayCall(s) /\ handle[s].accepted # NoFd
    /\ InFrame(s, "on_connection") \/ "leave_unaccepted" \in Allows
    /\ "stream" \in Uses[c] /\ handle[c].state = "free"
    /\ RegisterAs(c, apc_event_watcher_init(handle[s].accepted), {"IN"})
    /\ handle' = [handle EXCEPT ![c] = [NoHandleYet EXCEPT !.state = "open",
                                                            !.use = "stream", !.role = "stream"],
                                ![s].accepted = NoFd]
    /\ UNCHANGED <<kernelVars, write_queue, left, active_requests>>

apc_reject(s) ==
    /\ MayCall(s) /\ handle[s].accepted # NoFd
    /\ InFrame(s, "on_connection") \/ "leave_unaccepted" \in Allows
    /\ CloseFds({handle[s].accepted})
    /\ handle' = [handle EXCEPT ![s].accepted = NoFd]
    /\ UNCHANGED <<reactorVars, write_queue, left, active_requests>>

(* net_start_read *)
apc_start_read(h) ==
    /\ MayCall(h) /\ handle[h].role = "stream"
    /\ handle' = [handle EXCEPT ![h] = [With(h, {"ACTIVE", "READABLE"}) EXCEPT !.reading = TRUE]]
    /\ apc_event_watcher_register(h, {"IN"})
    /\ UNCHANGED <<kernelVars, write_queue, left, active_requests>>

(* net_stop_read: POLLOUT, not POLLIN, is deregistered. *)
StoppedReading(h) == [handle[h] EXCEPT !.reading = FALSE,
                                       !.flags = FlagsWithout(h, {"OUT"}) \ {"READABLE"}]

apc_stop_read(h) ==
    /\ MayCall(h) /\ handle[h].role = "stream"
    /\ handle[h].connecting \/ write_queue[h] # <<>> => "stop_with_writes" \in Allows
    /\ handle' = [handle EXCEPT ![h] = StoppedReading(h)]
    /\ apc_event_watcher_deregister(h, {"OUT"})
    /\ UNCHANGED <<kernelVars, write_queue, left, active_requests>>

(* net_write and what follows it: a write made while the connect is under  *)
(* way is queued and nothing else.                                         *)
apc_write(h, r) ==
    /\ MayCall(h) /\ handle[h].role = "stream"
    /\ handle[h].connecting => "use_while_connecting" \in Allows
    /\ r \notin InFlight
    /\ write_queue' = [write_queue EXCEPT ![h] = Append(@, r)]
    /\ \E n \in Sizes :
          /\ left' = [left EXCEPT ![r] = n]
          /\ IF handle[h].connecting
             THEN /\ handle' = [handle EXCEPT ![h].size = @ + n]
                  /\ UNCHANGED <<reactorVars, active_requests>>
             ELSE /\ handle' = [handle EXCEPT ![h] = [With(h, {"ACTIVE", "WRITABLE"})
                                                         EXCEPT !.size = @ + n]]
                  /\ apc_event_watcher_register(h, {"OUT"})
                  /\ active_requests' = active_requests + 1
    /\ UNCHANGED kernelVars

UserCall(h) == \/ apc_net_init(h) \/ apc_bind(h) \/ apc_tcp_connect(h) \/ apc_listen(h)
               \/ apc_start_read(h) \/ apc_stop_read(h) \/ apc_reject(h)
               \/ \E c \in Handles : apc_accept(h, c)
               \/ \E r \in Reqs : apc_write(h, r)

UserStep == InUserCode /\ (\E h \in Handles : UserCall(h)) /\ UNCHANGED <<loopVars, stack>>

------------------------------------------------------------------------------
(* apc_close: apc_tcp_close (apc_udp_close) stops reading, takes the       *)
(* watcher from the reactor and hands the queued writes to                 *)
(* core_write_callbacks.  A handle whose memory is `closing` is left alone.*)
CloseStart(h) ==
    /\ InUserCode /\ MayClose(h)
    /\ handle[h].connecting => "use_while_connecting" \in Allows
    /\ handle[h].accepted # NoFd => InFrame(h, "on_connection") \/ "leave_unaccepted" \in Allows
    /\ handle' = [handle EXCEPT ![h] = IF "READABLE" \in @.flags THEN StoppedReading(h) ELSE @]
    /\ apc_event_watcher_close(h)
    /\ write_queue' = [write_queue EXCEPT ![h] = <<>>]
    /\ stack' = <<Frame("flush", h, {}, write_queue[h])>> \o stack
    /\ UNCHANGED <<left, active_requests, loopVars>>

(* Mutant: the watcher keeps the number of the descriptor. *)
CloseEnd_keeps_fd ==
    LET h == Top.h IN
    /\ At("flush") /\ Top.q = <<>>
    /\ CloseFds({FdOf(h), handle[h].accepted})
    /\ write_queue' = [write_queue EXCEPT ![h] = <<>>]
    /\ handle' = [handle EXCEPT ![h] = [NoHandleYet EXCEPT !.state = "closing"]]
    /\ Return
    /\ UNCHANGED <<reactorVars, left, active_requests, loopVars>>

(* The rest of it, after the writes have been answered: the descriptors    *)
(* are closed, the queues emptied, and apc_handle_close_ puts the handle   *)
(* on the closing queue if the user gave a closing callback.               *)
CloseEnd ==
    LET h == Top.h IN
    /\ At("flush") /\ Top.q = <<>>
    /\ CloseFds({FdOf(h), handle[h].accepted})
    /\ watcher' = [watcher EXCEPT ![h].fd = NoFd]
    /\ write_queue' = [write_queue EXCEPT ![h] = <<>>]
    /\ handle' = [handle EXCEPT ![h] = [NoHandleYet EXCEPT !.state = "closing"]]
    /\ \E notify \in BOOLEAN :
          closing_queue' = IF notify THEN Append(closing_queue, h) ELSE closing_queue
    /\ Return
    /\ UNCHANGED <<event_watchers, left, active_requests, phase, batch>>

(* Mutant: the writes flushed by apc_close stay counted. *)
Answer_flush_counted(pc, callback) ==
    /\ At(pc) /\ Top.q # <<>>
    /\ active_requests' = IF pc = "flush" THEN active_requests ELSE active_requests - 1
    /\ Replace(Frame(callback, Top.h, Top.ev, Tail(Top.q)))
    /\ left' = [left EXCEPT ![Head(Top.q)] = 0]
    /\ UNCHANGED <<reactorVars, kernelVars, handle, write_queue, loopVars>>

(* core_write_callbacks, from apc_close and from the i/o callbacks: the     *)
(* next write is deregistered and its callback called.                     *)
Answer(pc, callback) ==
    /\ At(pc) /\ Top.q # <<>>
    /\ active_requests' = active_requests - 1
    /\ Replace(Frame(callback, Top.h, Top.ev, Tail(Top.q)))
    /\ left' = [left EXCEPT ![Head(Top.q)] = 0]
    /\ UNCHANGED <<reactorVars, kernelVars, handle, write_queue, loopVars>>

AnswerFlushed == Answer("flush", "on_flush")
AnswerWritten == Answer("written", "on_write")

------------------------------------------------------------------------------
(* Mutant: EAGAIN does not end the loop. *)
ServerStops_only_closed ==
    /\ At("server") /\ FdOf(Top.h) = NoFd
    /\ Return
    /\ UNCHANGED <<reactorVars, kernelVars, handleVars, loopVars>>

(* fd_watcher_server: accept until there is nothing left to accept.  The    *)
(* kernel takes a descriptor before it looks for a connection: without a    *)
(* free one it never says that there is none.                               *)
ServerStops ==
    /\ At("server") /\ (FdOf(Top.h) = NoFd \/ HasFreeFd)
    /\ Return
    /\ UNCHANGED <<reactorVars, kernelVars, handleVars, loopVars>>

(* An aborted connection too, and a process without free descriptors.       *)
AcceptFails ==
    /\ At("server") /\ FdOf(Top.h) # NoFd
    /\ Goto("on_refused")
    /\ UNCHANGED <<reactorVars, kernelVars, handleVars, loopVars>>

Accepts ==
    /\ At("server") /\ FdOf(Top.h) # NoFd /\ HasFreeFd
    /\ open' = open \cup {FreeFd}
    /\ handle' = [handle EXCEPT ![Top.h].accepted = FreeFd]
    /\ Goto("on_connection")
    /\ UNCHANGED <<reactorVars, epoll, write_queue, left, active_requests, loopVars>>

(* After on_connection: a connection that was neither accepted nor rejected *)
(* ends the listening, and is closed; accepted_fd keeps its number.         *)
ConnectionTaken ==
    /\ At("on_connection") /\ handle[Top.h].accepted = NoFd
    /\ Goto("server")
    /\ UNCHANGED <<reactorVars, kernelVars, handleVars, loopVars>>

(* Mutant: the server goes on listening. *)
ConnectionLeft_listens ==
    /\ At("on_connection") /\ handle[Top.h].accepted # NoFd
    /\ CloseFds({handle[Top.h].accepted})
    /\ Return
    /\ UNCHANGED <<reactorVars, handleVars, loopVars>>

ConnectionLeft ==
    LET h == Top.h IN
    /\ At("on_connection") /\ handle[h].accepted # NoFd
    /\ apc_event_watcher_deregister(h, {"IN"})
    /\ handle' = [handle EXCEPT ![h].flags = FlagsWithout(h, {"IN"}) \ {"READABLE"}]
    /\ CloseFds({handle[h].accepted})
    /\ Return
    /\ UNCHANGED <<write_queue, left, active_requests, loopVars>>

------------------------------------------------------------------------------
(* core_tcp_connect.  Mutant: the request is deregistered first. *)
StillConnecting_deregisters ==
    /\ At("connect") /\ Return
    /\ active_requests' = active_requests - 1
    /\ UNCHANGED <<reactorVars, kernelVars, handle, write_queue, left, loopVars>>

(* Mutant: a connect that is not decided yet is not waited for. *)
StillConnecting_unwatched ==
    /\ At("connect") /\ Return
    /\ apc_event_watcher_deregister(Top.h, {"OUT"})
    /\ UNCHANGED <<kernelVars, handleVars, loopVars>>

StillConnecting ==
    /\ At("connect") /\ Return
    /\ UNCHANGED <<reactorVars, kernelVars, handleVars, loopVars>>

Connects ==
    LET h == Top.h IN
    /\ At("connect")
    /\ active_requests' = active_requests - 1
    /\ \/ /\ handle' = [handle EXCEPT ![h] = [With(h, {"READABLE", "WRITABLE"})
                                                  EXCEPT !.connecting = FALSE]]
          /\ UNCHANGED reactorVars
       \/ /\ handle' = [handle EXCEPT ![h].connecting = FALSE,
                 ![h].flags = FlagsWithout(h, {"OUT"}) \cup {"READABLE", "WRITABLE"}]
          /\ apc_event_watcher_deregister(h, {"OUT"})
    /\ Goto("on_connected")
    /\ UNCHANGED <<kernelVars, write_queue, left, loopVars>>

------------------------------------------------------------------------------
(* fd_watcher_tcp_io and fd_watcher_udp_io: first the reads. *)
Reads(h) == handle[h].reading /\ FdOf(h) # NoFd /\ "READABLE" \in handle[h].flags
Reading == At("io") /\ "IN" \in Top.ev

NoMoreReads == Top.ev \ {"IN"}

ReadLoopEnds ==
    /\ Reading /\ ~Reads(Top.h)
    /\ Replace([Top EXCEPT !.ev = NoMoreReads])
    /\ UNCHANGED <<reactorVars, kernelVars, handleVars, loopVars>>

(* on_read with a buffer that is full, after which the loop goes on, or     *)
(* with less, with no buffer, with APC_EWOULDBLOCK or, for UDP, an error.   *)
ReadData ==
    /\ Reading /\ Reads(Top.h)
    /\ \E ev \in {Top.ev, NoMoreReads} : Replace([Top EXCEPT !.pc = "on_read", !.ev = ev])
    /\ UNCHANGED <<reactorVars, kernelVars, handleVars, loopVars>>

(* on_read with APC_EFDREAD or APC_EOF: a TCP handle reads no more. *)
ReadEnds ==
    LET h == Top.h IN
    /\ Reading /\ Reads(h) /\ Tcp(h)
    /\ apc_event_watcher_deregister(h, {"IN"})
    /\ \E gone \in {{"READABLE"}, {}} :
          handle' = [handle EXCEPT ![h].flags = FlagsWithout(h, {"IN"}) \ gone]
    /\ Replace([Top EXCEPT !.pc = "on_read", !.ev = NoMoreReads])
    /\ UNCHANGED <<kernelVars, write_queue, left, active_requests, loopVars>>

(* Then the writes. *)
Writing == At("io") /\ "IN" \notin Top.ev
WriteTurn == Writing /\ "OUT" \in Top.ev /\ FdOf(Top.h) # NoFd

IoReturns ==
    /\ Writing /\ ~WriteTurn /\ Return
    /\ UNCHANGED <<reactorVars, kernelVars, handleVars, loopVars>>

CanWrite(h) == write_queue[h] # <<>> /\ "WRITABLE" \in handle[h].flags

(* Mutant: the finished writes are put in front of those before them. *)
Written_reversed(h, n) ==
    /\ write_queue' = [write_queue EXCEPT ![h] = SubSeq(@, n + 1, Len(@))]
    /\ Replace([Top EXCEPT !.pc = "written", !.q = Reverse(SubSeq(write_queue[h], 1, n))])

(* The first `n` queued writes go to core_write_callbacks. *)
Written(h, n) ==
    /\ write_queue' = [write_queue EXCEPT ![h] = SubSeq(@, n + 1, Len(@))]
    /\ Replace([Top EXCEPT !.pc = "written", !.q = SubSeq(write_queue[h], 1, n)])

NothingToWrite ==
    /\ WriteTurn /\ ~CanWrite(Top.h)
    /\ Written(Top.h, 0)
    /\ UNCHANGED <<reactorVars, kernelVars, handle, left, active_requests, loopVars>>

(* core_tcp_write: the kernel takes `n` units of the first write; with      *)
(* n = 0 it takes none for now (EAGAIN).                                    *)
TcpWrites ==
    LET h == Top.h  r == Head(write_queue[h]) IN
    /\ WriteTurn /\ CanWrite(h) /\ Tcp(h)
    /\ \E n \in 0..left[r] :
          /\ left' = [left EXCEPT ![r] = @ - n]
          /\ handle' = [handle EXCEPT ![h].size = @ - n]
          /\ Written(h, IF n = left[r] THEN 1 ELSE 0)
    /\ UNCHANGED <<reactorVars, kernelVars, active_requests, loopVars>>

(* Mutant: core_advance_write_queue_error is not called. *)
TcpWriteFails_keeps_size ==
    LET h == Top.h IN
    /\ WriteTurn /\ CanWrite(h) /\ Tcp(h)
    /\ left' = [left EXCEPT ![Head(write_queue[h])] = 0]
    /\ handle' = [handle EXCEPT ![h].flags = FlagsWithout(h, {"OUT"}) \ {"WRITABLE"}]
    /\ apc_event_watcher_deregister(h, {"OUT"})
    /\ Written(h, 1)
    /\ UNCHANGED <<kernelVars, active_requests, loopVars>>

(* An error: the write is answered with APC_EFDWRITE, and the handle no     *)
(* longer asks to be told when it can write.                                *)
TcpWriteFails ==
    LET h == Top.h  r == Head(write_queue[h]) IN
    /\ WriteTurn /\ CanWrite(h) /\ Tcp(h)
    /\ left' = [left EXCEPT ![r] = 0]
    /\ handle' = [handle EXCEPT ![h].size = @ - left[r],
                                ![h].flags = FlagsWithout(h, {"OUT"}) \ {"WRITABLE"}]
    /\ apc_event_watcher_deregister(h, {"OUT"})
    /\ Written(h, 1)
    /\ UNCHANGED <<kernelVars, active_requests, loopVars>>

(* core_udp_write: as many datagrams as the kernel takes, or has errors for.*)
Units(rs) ==
    LET sum[i \in 0..Len(rs)] == IF i = 0 THEN 0 ELSE sum[i - 1] + left[rs[i]]
    IN  sum[Len(rs)]

UdpWrites ==
    LET h == Top.h IN
    /\ WriteTurn /\ CanWrite(h) /\ Udp(h)
    /\ \E n \in 0..Len(write_queue[h]) :
          LET sent == SubSeq(write_queue[h], 1, n) IN
          /\ Written(h, n)
          /\ left' = [r \in Reqs |-> IF r \in ToSet(sent) THEN 0 ELSE left[r]]
          /\ handle' = [handle EXCEPT ![h].size = @ - Units(sent)]
    /\ UNCHANGED <<reactorVars, kernelVars, active_requests, loopVars>>

(* Mutant: POLLOUT is given up although writes are left. *)
WritesServed_always ==
    LET h == Top.h IN
    /\ At("written") /\ Top.q = <<>>
    /\ apc_event_watcher_deregister(h, {"OUT"})
    /\ handle' = [handle EXCEPT ![h].flags = FlagsWithout(h, {"OUT"})]
    /\ Return
    /\ UNCHANGED <<kernelVars, write_queue, left, active_requests, loopVars>>

(* After the write callbacks: with nothing left to write the handle stops   *)
(* waiting for POLLOUT.                                                     *)
WritesServed ==
    LET h == Top.h IN
    /\ At("written") /\ Top.q = <<>>
    /\ IF write_queue[h] # <<>>
       THEN UNCHANGED <<reactorVars, handle>>
       ELSE /\ apc_event_watcher_deregister(h, {"OUT"})
            /\ handle' = [handle EXCEPT ![h].flags = FlagsWithout(h, {"OUT"})]
    /\ Return
    /\ UNCHANGED <<kernelVars, write_queue, left, active_requests, loopVars>>

------------------------------------------------------------------------------
CallbackReturns ==
    /\ \/ At("on_refused") /\ Goto("server")
       \/ At("on_connected") /\ Return
       \/ At("on_read") /\ Goto("io")
       \/ At("on_write") /\ Goto("written")
       \/ At("on_flush") /\ Goto("flush")
       \/ At("on_closing") /\ Return
    /\ UNCHANGED <<reactorVars, kernelVars, handleVars, loopVars>>

------------------------------------------------------------------------------
(* apc_loop_run. *)
AtLoop(p) == phase = p /\ stack = <<>>

apc_loop_active_ == \/ \E h \in Handles : "ACTIVE" \in handle[h].flags
                    \/ active_requests > 0
                    \/ closing_queue # <<>>

(* apc_reactor_poll up to the dispatch.  It may find nothing: timers, the   *)
(* wakeup pipe and signals end the wait as well.  A listening socket        *)
(* reports connections and nothing else.                                    *)
Poll ==
    /\ AtLoop("timers")
    /\ TellKernel
    /\ LET never == [f \in Fds |-> IF \E h \in Handles : FdOf(h) = f /\ handle[h].role = "server"
                                   THEN {"OUT", "ERR"} ELSE {}]
       IN  batch' \in Reports(never)
    /\ phase' = "events"
    /\ UNCHANGED <<handleVars, closing_queue, stack>>

(* The events of one descriptor go to the watcher that has it now. *)
EventPc(h) == IF handle[h].role = "server" THEN "server"
              ELSE IF handle[h].connecting THEN "connect" ELSE "io"

Dispatch(f) ==
    LET h == event_watchers[f] IN
    /\ AtLoop("events") /\ batch[f] # {}
    /\ batch' = [batch EXCEPT ![f] = {}]
    /\ IF h = NoHandle THEN DropInterest(f) /\ UNCHANGED stack
       ELSE /\ stack' = IF Wanted(h, batch[f]) = {} THEN stack
                        ELSE <<Frame(EventPc(h), h, Wanted(h, batch[f]), <<>>)>>
            /\ UNCHANGED <<reactorVars, kernelVars>>
    /\ UNCHANGED <<handleVars, phase, closing_queue>>

(* Mutant: run_closing leaves the last handle in the queue. *)
RunClosing_not_last ==
    LET h == Head(closing_queue) IN
    /\ AtLoop("events") /\ batch = NoEvents /\ Len(closing_queue) > 1
    /\ closing_queue' = Tail(closing_queue)
    /\ handle' = [handle EXCEPT ![h] = NoHandleYet]
    /\ stack' = <<Frame("on_closing", h, {}, <<>>)>>
    /\ UNCHANGED <<reactorVars, kernelVars, write_queue, left, active_requests, phase, batch>>

(* run_closing, when the batch is dispatched. *)
RunClosing ==
    LET h == Head(closing_queue) IN
    /\ AtLoop("events") /\ batch = NoEvents /\ closing_queue # <<>>
    /\ closing_queue' = Tail(closing_queue)
    /\ handle' = [handle EXCEPT ![h] = NoHandleYet]
    /\ stack' = <<Frame("on_closing", h, {}, <<>>)>>
    /\ UNCHANGED <<reactorVars, kernelVars, write_queue, left, active_requests, phase, batch>>

LoopCheck ==
    /\ AtLoop("events") /\ batch = NoEvents /\ closing_queue = <<>>
    /\ phase' = IF apc_loop_active_ THEN "timers" ELSE "end"
    /\ UNCHANGED <<reactorVars, kernelVars, handleVars, batch, closing_queue, stack>>

Next == \/ UserStep \/ \E h \in Handles : CloseStart(h)
        \/ CloseEnd \/ AnswerFlushed \/ AnswerWritten
        \/ ServerStops \/ AcceptFails \/ Accepts \/ ConnectionTaken \/ ConnectionLeft
        \/ StillConnecting \/ Connects
        \/ ReadLoopEnds \/ ReadData \/ ReadEnds
        \/ IoReturns \/ NothingToWrite \/ TcpWrites \/ TcpWriteFails \/ UdpWrites
        \/ WritesServed \/ CallbackReturns
        \/ Poll \/ (\E f \in Fds : Dispatch(f)) \/ RunClosing \/ LoopCheck

Spec == Init /\ [][Next]_vars

(* What the library does with no help from the user or the kernel; what the *)
(* kernel has to answer (accept, connect, read, write) is left out.         *)
LibraryStep == \/ CloseEnd \/ AnswerFlushed \/ AnswerWritten
               \/ ReadLoopEnds \/ IoReturns \/ NothingToWrite \/ WritesServed
               \/ (\E f \in Fds : Dispatch(f)) \/ RunClosing \/ LoopCheck

(* One callback of the `d` suspended ones returns. *)
Resumes(d) == Len(stack) = d /\ (CallbackReturns \/ ConnectionTaken \/ ConnectionLeft)

(* The kernel takes some of the first writes of `h`, or refuses them. *)
TakesWrites(h) == /\ At("io") /\ Top.h = h
                  /\ TcpWrites \/ TcpWriteFails \/ UdpWrites
                  /\ handle'[h].size < handle[h].size

(* The loop's thread runs, callbacks return in the end, however often they  *)
(* call the library, and so do those of the timers before the poll.  The    *)
(* kernel answers what it is asked again and again: a descriptor that waits *)
(* to write is reported writable, data is taken or refused, a connect is    *)
(* decided, nobody sends or connects faster than on_read and on_connection  *)
(* take it.                                                                 *)
FairSpec ==
    /\ Spec
    /\ WF_vars(LibraryStep)
    /\ \A d \in 1..(Cardinality(Handles) + 1) : SF_vars(Resumes(d))
    /\ SF_vars(Poll)
    /\ \A f \in Fds : SF_vars(Poll /\ "OUT" \in batch'[f])
    /\ \A h \in Handles : /\ SF_vars(TakesWrites(h))
                          /\ SF_vars(Connects /\ Top.h = h)
                          /\ SF_vars(ServerStops /\ Top.h = h)
                          /\ SF_vars((ReadData \/ ReadEnds) /\ Top.h = h
                                        /\ Head(stack').ev # Top.ev)
------------------------------------------------------------------------------
(* Types: flags, roles and descriptors as the code uses them, frames of the *)
(* functions that call back, and request counts that never go below zero    *)
(* (the assertion of apc_deregister_request_).                              *)
Frames == [pc : CallbackPcs \cup {"io", "server", "connect", "flush", "written"},
           h : Handles, ev : SUBSET (PollEvents \cup {"ERR"}), q : Seq(Reqs)]

TypeOK ==
    /\ ReactorTypeOK
    /\ handle \in [Handles -> [state : {"free", "open", "closing"},
                               use : {"none", "server", "stream", "udp"},
                               flags : SUBSET {"ACTIVE", "READABLE", "WRITABLE"},
                               role : {"none", "bound", "stream", "server"},
                               reading : BOOLEAN, connecting : BOOLEAN,
                               accepted : Fds \cup {NoFd}, size : Nat]]
    /\ write_queue \in [Handles -> Seq(Reqs)]
    /\ left \in [Reqs -> Nat]
    /\ active_requests \in Nat
    /\ closing_queue \in Seq(Handles)
    /\ phase \in {"timers", "events", "end"}
    /\ batch \in [Fds -> SUBSET (PollEvents \cup {"ERR"})]
    /\ stack \in Seq(Frames)

(* active_requests counts the writes not yet called back and the connects   *)
(* not yet decided: with one too many apc_loop_run never returns, with one  *)
(* too few it returns, or an assertion fails, while a write is under way.   *)
Connecting == {h \in Handles : handle[h].connecting}
WritesCounted ==
    active_requests = Cardinality(Connecting) + Cardinality(InFlight)

(* write_queue_size is what the queued writes have left, through partial    *)
(* writes, failures and the callbacks that write again.                     *)
SizeExact == \A h \in Handles :
    handle[h].state = "open" /\ ~BeingClosed(h) => handle[h].size = Units(write_queue[h])

(* A handle that connects, or has writes it can make, waits for POLLOUT and *)
(* keeps the loop going; otherwise the callback would never come.           *)
PendingWatched == \A h \in Handles :
    /\ handle[h].state = "open" /\ ~BeingClosed(h)
    /\ handle[h].connecting \/ CanWrite(h)
    => Watches(h, "OUT") /\ "ACTIVE" \in handle[h].flags

(* When core_write_callbacks or apc_close goes on after a callback, the     *)
(* handle still belongs to the loop: handle->loop, which they use, is NULL  *)
(* once apc_handle_close_ has run.  It holds only for users that close no   *)
(* handle where Allows has to name it ("call_in_close",                     *)
(* "close_in_on_write"), and by that alone; the run net_reclose shows what  *)
(* the code does with the others.                                           *)
ResumesInLoop ==
    At("flush") \/ (At("written") /\ Top.q # <<>>) => handle[Top.h].state = "open"

(* fd_watcher_server accepts a connection when the one before it has been   *)
(* accepted, rejected or closed with the listening: its two assertions that *)
(* accepted_fd is -1, without which a descriptor would be lost.             *)
AcceptsOneByOne ==
    At("server") /\ FdOf(Top.h) # NoFd => handle[Top.h].accepted = NoFd

(* The first assertion of fd_watcher_server: it is called for connections.  *)
CalledForConnections == At("server") => "IN" \in Top.ev

(* No two handles, and no handle and a fresh connection, have one           *)
(* descriptor; a descriptor in use is open; the reactor finds under it the  *)
(* handle that has it, and the kernel is told only of watchers it can find  *)
(* (else epoll_ctl fails and the process aborts).                           *)
DescriptorsOwned ==
    /\ \A h \in Handles : FdOf(h) # NoFd =>
          /\ FdOf(h) \in open
          /\ \A g \in Handles \ {h} : FdOf(g) # FdOf(h)
    /\ At("on_connection") /\ handle[Top.h].accepted # NoFd =>
          /\ handle[Top.h].accepted \in open
          /\ \A g \in Handles : FdOf(g) # handle[Top.h].accepted
    /\ \A f \in Fds : event_watchers[f] # NoHandle =>
          FdOf(event_watchers[f]) = f /\ watcher[event_watchers[f]].events # {}
    /\ \A h \in Handles : LET w == watcher[h] IN
          /\ w.queued => w.fd # NoFd /\ w.events # {}
          /\ w.registered => epoll[w.fd] # {}

(* The library calls a callback of a handle, other than its closing         *)
(* callback, only while the handle is open.                                 *)
CallsBack == /\ stack' # <<>> /\ Head(stack').pc \in CallbackPcs \ {"on_closing"}
             /\ stack # <<>> /\ Len(stack') = Len(stack) /\ Top.pc # Head(stack').pc
SilentOnceClosed == [][CallsBack => handle[Head(stack').h].state = "open"]_vars

(* Whatever is suspended when a callback closes its own handle or another,  *)
(* or comes to it later - the loops of accept and of read, the end of a     *)
(* connect, fd_watcher_*_io after the last write callback, the rest of the  *)
(* batch - changes nothing of the closed handle, its watcher or its queue:  *)
(* it must notice by itself that the descriptor is gone.  run_closing       *)
(* alone takes the handle.                                                  *)
ClosedUntouched == [][\A h \in Handles : handle[h].state = "closing" =>
    /\ handle'[h] = handle[h] \/ (RunClosing /\ h = Head(closing_queue))
    /\ watcher'[h] = watcher[h] /\ write_queue'[h] = write_queue[h]]_vars

(* Writes that wait behind one that failed: the handle does not ask to      *)
(* write again until the user writes or closes it.                          *)
LeftBehind(r) == \E h \in Handles : /\ r \in ToSet(write_queue[h])
                                    /\ "WRITABLE" \notin handle[h].flags

(* A server that is told of connections and has no descriptor to accept     *)
(* with: fd_watcher_server calls on_connection with an error again and      *)
(* again, until one of these callbacks closes something.                    *)
OutOfFds == At("server") /\ ~HasFreeFd

(* Liveness: every write is called back, although the handle gives POLLOUT  *)
(* up and takes it again, reads go first, and callbacks write more.         *)
WritesAnswered == \A r \in Reqs :
    r \in InFlight ~> r \notin InFlight \/ LeftBehind(r) \/ OutOfFds

(* Liveness: a connect is decided, and a closing callback is called.        *)
ConnectsDecided == \A h \in Handles :
    handle[h].connecting ~> ~handle[h].connecting \/ OutOfFds
ClosingDelivered == \A h \in Handles :
    h \in ToSet(closing_queue) ~> InFrame(h, "on_closing") \/ OutOfFds

(* Liveness: the callback of a watcher gives the thread back to the loop.   *)
WatchersReturn == stack # <<>> ~> stack = <<>> \/ OutOfFds

(* Liveness: a loop whose user calls nothing any more returns when no       *)
(* handle waits to read or to accept and no write is left behind.           *)
Finishing == /\ \A h \in Handles : ~Watches(h, "IN")
             /\ \A r \in Reqs : ~LeftBehind(r)
LoopReturns == <>[][~UserStep /\ \A h \in Handles : ~CloseStart(h)]_vars /\ <>[]Finishing
                   => <>(phase = "end" \/ OutOfFds)

(* Writes are called back in order, each once: see WriteService.            *)
Service == INSTANCE WriteService WITH pending <- [h \in Handles |-> Pending(h)]
ImplementsWriteService == Service!Spec
==============================================================================
