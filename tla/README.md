# libapc in TLA+

libapc is an event loop in C: timers, TCP and UDP handles on top of epoll, and a
thread pool for blocking work and files. This directory specifies its control: what
every call and every callback does to the loop's queues, counters, flags and
descriptors, and in which order. `PROJECT.json` lists the runs and, for every
definition that models code, the lines it models. Paths below are relative to the
repository's `src/` directory (`core.c` is `src/core.c`) unless they are longer.

To check a run, `tlc -config <cfg> <module>`; to check the proofs,
`tlapm` on `Lemmas.tla`, `WorkLoop_proofs.tla`, `TimerHeap_proofs.tla`,
`TimerLoop_proofs.tla`, `FileOps_proofs.tla`, `Net_proofs.tla`,
`NetWrites_proofs.tla` and `NetHandles_proofs.tla`.

## 1. The system

| component | state | operations | uses | properties that make it correct |
|---|---|---|---|---|
| thread pool, `common/threadpool.c` | one queue `wq`, one mutex, one condition variable, `idle_threads`, the worker threads, the pill `exit_sig` | `tpool_add_work`, `tpool_start`, `tpool_cleanup`, the workers' `thread_routine` | posts to a loop's `work_queue` and its wakeup pipe | no request is lost or run twice; no worker sleeps on work; teardown ends, and only when nothing is in flight |
| work requests, `apc.c`, `wakeup_io` in `core.c` | `work_queue` under `workmtx`, the wakeup pipe, `active_requests` | `apc_add_work`, delivery of `done` | pool, reactor | finished work always wakes the loop; each `done` is called once |
| run loop, `apc.c` | `now`, `active_handles`, `active_requests`, `closing_queue` | `apc_loop_run`: `run_timers`, `get_timeout`, `apc_reactor_poll`, `run_closing` | everything | returns exactly when nothing is active; goes to sleep for no longer than the first timer has left, and not at all while something is to be closed |
| closing, `apc.c`, `internal.h` | flags, `closing_queue` | `apc_close`, `apc_handle_close_`, `run_closing` | each kind of handle | after `apc_close` nothing of the handle is called but its closing callback, once |
| timers, `timer/timer.c` | per timer `end`, `duration`, `restart`, `id`, `cb`, flags | start, stop, restart, close | heap, loop | started timers fire; a timer is counted exactly while it is in the heap |
| timer heap, `common/heap.c` | nodes with `parent`, `left`, `right` pointers and a count | insert, remove, peek | compared by `timer_cmp` | stays a complete ordered tree; is a priority queue |
| files, `file/fs.c` | per file `fd`, `oflags`, `path`, `stat`, `work_queue`, `active_work` | open, open a temporary file, link, stat, read, write, close, `file_after_op` | work requests | the operations of a file run one at a time and in order; all are called back; every open descriptor is in one handle |
| reactor, `reactor/reactor.c` | watchers, table from descriptor to watcher, queue of changed watchers, epoll set | register, deregister, close, poll | kernel, watcher callbacks | an event reaches the handle that has the descriptor; the wait exceeds the timeout only after stale events |
| TCP and UDP, `network/`, `core.c` | per handle descriptor, flags, write queue, connect request, accepted descriptor | connect, listen, accept, reject, read start and stop, write, close | reactor, loop | each write is called back once and in order; what can be written is watched for; descriptors have one owner |
| name lookup, `network/net.c` | none of its own | `apc_getaddrinfo` | one work request | that of work requests |
| wrappers, allocator, error strings, addresses | none to speak of | system calls, formatting | | not modelled |

How they meet: user code runs in `main` and in callbacks, always on the loop's
thread. Four worker threads take requests from the pool's queue; a finished request
goes to the loop's `work_queue` and a byte into the pipe, and `wakeup_io`, a watcher
callback, calls its `done`. Files are users of this path. Timers and closing
callbacks run in the loop itself; sockets are served from the reactor's dispatch. The
counters `active_handles` and `active_requests` decide when all of it ends.

What is hard about it:

* **threads**: the pool's signals are sent only if somebody is idle, one condition
  variable serves the workers and the thread that waits for them, and a request is
  handed over in two steps (queue, then byte);
* **re-entrancy**: a callback may call anything, in the middle of `run_timers`, of a
  read loop, of the answers to writes, and of `apc_close` itself;
* **order**: queues per file and per handle over threads and partial writes;
* **stale state**: `loop->now`, the batch of epoll events, descriptor numbers that
  are used again, requests that the user frees in their callback;
* **waiting**: signals, stale events and the retries of `apc_reactor_poll`;
* **ending**: counters that are kept in many places and decide whether the loop
  returns.

`PROJECT.json` lists these as hazards, each with its line and its properties.

## 2. The modules

| module | models | state in the code |
|---|---|---|
| `ThreadPool` | `threadpool.c`, one action per critical section or call outside it | `wq`, `idle_threads`, `mutex`, who is blocked (`cond`), where each worker is (`pc`) and with what (`cur`) |
| `WorkLoop` (extends `ThreadPool`) | `apc_add_work`, `apc_loop_run`, `wakeup_io`, the workers' hand-over | `work_queue`, `pipe`, `batch` (the local queue of `wakeup_io`), the two counters, `main` (the loop thread's program counter) |
| `WorkService` | abstract: requests start in order, run on at most N threads, finish in any order, are delivered in the order they finished | implemented by `WorkLoop` |
| `Lemmas` | lemmas about sequences, sets and least numbers that the modules of proofs share | |
| `WorkLoop_proofs`, `TimerHeap_proofs`, `TimerLoop_proofs`, `FileOps_proofs` | theorems about `WorkLoop`, `TimerHeap`, `TimerLoop`, `FileOps` | |
| `Net_proofs`, `NetWrites_proofs`, `NetHandles_proofs` | theorems about `Net`: descriptors and callbacks; the unanswered writes; types, sizes and accepted connections. Each module extends the one before | |
| `TimerHeap` | `heap.c` on its pointers, a sift loop as a recursive function of its rounds | `head`, `nr_nodes`, and `left`, `right`, `parent` of every node |
| `PriorityQueue` | abstract: a set with a first element | implemented by `TimerHeap` |
| `Timers` | `timer.c`, the counting macros, `apc_close` for timers | flags, `heap` as an ordered set, `due` (= `end - now`), ids by rank |
| `TimerLoop` (extends `Timers`) | `run_timers`, `get_timeout`, the waiting of `apc_reactor_poll`, `run_closing`, and users who call anything anywhere | `main`, `timeout`, `slept`, `waited`, `tries` of one poll |
| `FileOpen` | `fs.c`: initialisation, opening, temporary files, links, stat, closing, over a file system reduced to which paths have a file | `fd`, `oflags`, `path`, `stat` of each file, the open descriptors; `asked`, the flags of the last call that opens |
| `FileOps` (extends `FileOpen`, over an instance of `WorkService`) | `fs.c`: the queue of a file, `file_after_op`, closing | `work_queue`, `active_work`, flags, counters, the request whose callback runs |
| `FileService` | abstract: a FIFO per file | implemented by `FileOps` |
| `Reactor` | watchers, table, registration, kernel interest, dispatch by number | `watcher`, `event_watchers`, and the kernel's `open` and `epoll` |
| `Net` (extends `Reactor`) | `tcp.c`, `udp.c`, `net.c`, the i/o callbacks of `core.c`, closing, the loop around them | handle fields, `write_queue`, `left` (units not written), counters, `batch`, and `stack` |
| `WriteService` | abstract: the writes of a handle are answered in order, each once | implemented by `Net` |
| `MC*` | constants, orders and symmetry for TLC | |

The composition is by refinement where the parts are large: `WorkLoop` is shown to
implement `WorkService`, and `FileOps` is built on `WorkService` and not on threads.
In the same way `TimerHeap` implements `PriorityQueue`, and `Timers` uses an ordered
set.

Some correspondences that are not obvious:

* **Callbacks in the middle of C functions.** In `Net` a step is the code between two
  callbacks. Frames of `stack` are suspended library functions: the read loop (`io`,
  `on_read`), the answers to writes (`written`, `on_write`), the same from
  `apc_close` (`flush`, `on_flush`), `server`, `connect`, and the closing callback.
  While the innermost frame waits for a callback, any call of the API may be made on
  any handle.
* **`write_done_queue`** is emptied in the same uninterrupted code that fills it, so
  it has no variable: its content goes straight to the frame of
  `core_write_callbacks` (`q`).
* **`active_handles`** in `Net` is the number of handles with `HANDLE_ACTIVE`; the
  macros change both together. In `Timers` and `FileOps` it is a counter, and that
  it agrees is checked.
* **Time** is relative to `loop->now` in `TimerLoop`; `lag` is how far it has gone
  since the loop read it. A `lag` of `MaxDuration` makes every timer due, so that it
  stands for all longer ones. A timer is measured from `loop->now`, as in
  `timer.c:28`: one that is started after a long wait can be due early by as much.
  The README of the library promises a unit, not a precision, so this is not
  stated as a property.
* **Timer ids** are kept as ranks among the started timers, which is all `timer_cmp`
  asks of them.

Definitions named `X_something` next to `X`, with the comment "Mutant", are `X` with a
plausible bug. Each property of a passing run has one that TLC finds violating it.

## 3. What the runs show

| run | instance | distinct states | shows |
|---|---|---|---|
| `work_safety` | 3 workers, 3 requests, any wake order, spurious wakeups, `pthread_create` may fail | 32 thousand | `RequestConservation`, `NoLostWakeup`, `WorkConserving`, `IdleCount`, `QuiescentTeardown` |
| `work_live` | 2 workers, 3 requests, longest waiter first | 103 thousand | `ImplementsService`, its fairness, `WorkDelivered`, `LoopReturns`, `TeardownProgress` |
| `work_hang` | 3 workers, 1 request, any wake order | stops | **violates** `TeardownProgress` |
| `work_handback` | 2 workers, 2 requests | stops | **violates** `HandedBackUntouched` |
| `heap` | 7 nodes | 592 | `HeapShape`, `HeapOrder`, `ImplementsQueue` |
| `timers` | 2 timers, durations 0, 1 and 3, sleeps capped at 2 | 144 thousand | `HandlesCounted`, `ClosedTimersSilent`, `SleepBounded`, `DueTimersFire`, `ClosingDelivered`, `TimersReturn`, `LoopReturns` |
| `file_order` | 2 files with 3 and 1 requests, 2 workers, 2 descriptors, 1 path | 149 thousand | `OneAtATime`, `Counted`, `FileUntouched`, `DescriptorsOwned`, `ImplementsFileService`, `OpsCalledBack`, `FilesComeToRest` |
| `file_close` | as `file_order`, files closed while in use | stops | **violates** `FileUntouched` |
| `file_reopen` | as `file_order`, files opened again after a failed call | stops | **violates** `OpenedAsAsked` |
| `net` | a server or UDP socket, a stream that connects or is accepted, 2 writes of 2 units, 2 descriptors | 701 thousand | `WritesCounted`, `SizeExact`, `AcceptsOneByOne`, `DescriptorsOwned`, `PendingWatched`, `SilentOnceClosed`, `ClosedUntouched`, `ImplementsWriteService` |
| `net_live` | one memory that is a server, a stream and a UDP socket in turn, 2 writes | 3 thousand | `WritesAnswered`, `ConnectsDecided`, `ClosingDelivered`, `WatchersReturn`, `LoopReturns` |
| `net_reclose` | one TCP stream, closed in its own flushed write | stops | **violates** `ResumesInLoop` |

`TypeOK` of `WorkLoop`, `TimerLoop`, `FileOps` and `Net` is a theorem (section 6) and is
not repeated in a run; `HeapShape` begins with the type of the heap. The configurations of
`Net` and `TimerLoop` do not check deadlock, because there a loop really ends; in
`WorkLoop` a loop that has returned stutters, so that a deadlock of the threads is
found, except in `MCWorkLoop_any.cfg` and `MCWorkLoop_hang.cfg`, whose setting lets the
loop's thread really block itself.

### The disagreements

* `work_hang`: `tpool_cleanup` waits on the condition variable of the workers
  (`threadpool.c:112`) and takes the one signal that a leaving worker sends
  (`threadpool.c:51`). With the wake order POSIX allows, a worker sleeps on and
  `pthread_join` never returns; the wait on the condition variable itself always ends,
  in any wake order (theorem `CleanupIsWoken`). With a queue-ordered condition variable
  the hang cannot happen, which is what `work_live` checks on its instance and under
  that assumption.
* `work_handback`: a worker uses `req->loop` (`threadpool.c:66`) after it has published
  the request; another worker's byte can let the loop run the `done` callback first,
  in which the user may free the request, as the examples free theirs
  (`../examples/tcpecho/client.c:39`).
* `file_close`: `apc_file_close` does not wait for the operation that is with the pool.
  After the closing callback, in which users are told to free the handle, the worker
  and the loop still use it.
* `file_reopen`: `apc_file_open` adds its flags to those that a failed call left in
  `file->oflags` (`fs.c:21-49`). A file that could not be created with `APC_OPEN_W` and
  `APC_OPEN_CREATE`, and is then opened with `APC_OPEN_R`, is refused while it
  exists; if somebody removed it in the meantime, it is created and cannot be read.
* `net_reclose`: `apc_close` calls the callbacks of queued writes before it marks the
  handle as closing. A callback that closes its handle when it gets an error, as the
  echo server's does, closes it a second time inside the first call, and the first
  goes on with `handle->loop` NULL.

### Known limits of what users may do

The constant `Allows` of `Net` names things that the code lets users do and does not
survive. The passing runs allow none of them, `net_reclose` allows `call_in_close`.
With each of the others added to a passing run TLC finds the violation named here, so
these are limits of the code and not of its users; `close_in_on_write` above all is
ordinary use:

| in `Allows` | what breaks |
|---|---|
| `call_in_close` | a handle is used while `apc_close` calls its write callbacks: `ResumesInLoop`, `ImplementsWriteService` |
| `close_in_on_write` | a handle is closed in an `on_write` while `core_write_callbacks` has more answers of it in hand, as it has when UDP sends several datagrams in a row (`core.c:398-417`): the next answer is deregistered from a `handle->loop` that is NULL (`core.c:310`), and called after the close: `ResumesInLoop`, `SilentOnceClosed`, `ImplementsWriteService` |
| `stop_with_writes` | `net_stop_read` deregisters POLLOUT instead of POLLIN (`net.c:262`): queued writes are no longer watched for, `PendingWatched` |
| `use_while_connecting` | a write during the connect is not registered but deregistered, and closing then drops the connect request: `WritesCounted` |
| `leave_unaccepted` | a server is used again after it closed a connection that nobody accepted: `accepted_fd` still has the closed number, `AcceptsOneByOne` and `DescriptorsOwned` |

`Allows` of `FileOpen` and `FileOps` is of the same kind: with `close_busy` a file is
closed while it has operations (`file_close`; queued ones are lost as well, which
`Counted` shows), with `open_again` a file is opened after a call that failed
(`file_reopen`). Neither is forbidden by the documentation.

A flag that the library's README lists, `APC_OPEN_TMP`, has no effect in `file_open`;
`apc_file_open_tmp` does what it describes.

## 4. Bounds, and why they are enough

* Threads and requests: the pool's races need a worker that waits, one that works and
  one that is about to look at the queue; three of each give all combinations. The
  theorems hold for any number.
* `ReadLen = 2`, `PipeCap = 3` stand for 128 and 64 KiB: the drain loop meets full
  reads, short reads and an empty pipe, and the pipe can be full.
* Seven heap nodes: three full levels, so that a removal can sift both ways and the
  last node can lie in the other half of the tree. All orders of the keys arise from
  the orders of insertion and removal.
* Two timers, durations 0, 1 and 3: ties, timers due at once, restarts that come before, with
  and after the other, and callbacks that stop, restart or close the other timer or
  their own. `PollTries = 3` stands for the 32 retries of one poll: it is enough for two
  retries that sleep, and for one that is the last. `MaxWait = 2` stands for the cap
  on one sleep, below the longest duration, so that the loop goes back to sleep, and
  long enough for a signal in the middle of a sleep. The safety properties are theorems for any number of timers, any durations, retries and cap.
* `Capacity = 2` workers and a file with three requests: two queued behind one, and
  the other file's work beside it. Two descriptors and one path: a path that is taken
  and one that is missing, and numbers that are used again. Two sets of flags, one
  that must find the file and one that must not. The theorems hold for any number of
  each.
* Two descriptors in `Net`: numbers are used again, and the process runs out of them
  when it accepts. Two units per write: a write can be accepted in part. Two writes:
  one is answered while the other waits. In `net` one memory is a server or a UDP
  socket, as its user chooses at each initialisation, and the other a stream that
  connects or is accepted; each may be used and closed in the callbacks of either. The
  users of `net` are not bounded in the number of calls; handles and write requests
  are used again. What two handles cannot show is an old event of a batch that reaches
  a third handle with the same descriptor number: the hazard at `reactor.c:364`. With a
  server, a stream and a UDP socket on two descriptors (`MCNet_stale.cfg`, which is no
  run of `PROJECT.json`) TLC finds `CalledForConnections`, the assertion at `core.c:95`,
  violated: one poll reports an error for the stream and one for the UDP socket; the
  stream's callback closes the UDP socket and starts the server, which gets its number;
  and the UDP socket's error reaches the server. What section 6 proves of `Net` holds
  for any number of handles, whatever reaches them.
* `net_live` has one handle, which keeps the graph for liveness small; it is all three
  kinds in turn, and a connection it accepts has no handle to take it, so that it is
  rejected or left. Starvation of one handle by another is excluded by `FairSpec`
  rather than shown: see section 5.
* Symmetry is used only in runs without liveness, over requests and workers, which the specifications treat alike.

## 5. Fairness

* `WorkLoop`: weak fairness of each worker and of the loop's thread. Threads are
  scheduled, and work functions, callbacks and reads return. Nothing is assumed of
  users, of spurious wakeups or of which waiter a signal wakes; `LoopReturns` is
  conditional on the user having stopped.
* `TimerLoop`: weak fairness of the loop and of time. Signals, events and users get
  none.
* `FileOps`: weak fairness of what the work service promises (`ServiceKeepsGoing` is
  checked of `WorkLoop`), of the callbacks and of the loop.
* `Net`: weak fairness of what the library does by itself (`LibraryStep`), and strong
  fairness of the answers it has to get. Callbacks return, at each depth of nesting,
  however often they call the library first. The kernel reports a descriptor writable
  that waits for it, again and again; it takes data or refuses it; it decides a
  connect; it has, from time to time, no more connections to accept, and less data
  than the buffer holds. The last two are what the loops of `fd_watcher_server` and
  `core_tcp_read` rest on, which have no bound of their own. Nothing is assumed of
  peers that stay silent: no property says that a read ends.

  Two conditions are part of the properties of `net_live` because without them the
  code does not have them. `OutOfFds`: a server that cannot accept for want of a
  descriptor calls `on_connection` with an error without end. `LeftBehind`: writes
  queued behind one that failed wait until the user writes again or closes.

Conditions in liveness properties that name users (`DueTimersFire`) are there because
the code really loses the property without them: `run_closing` and `run_timers` go on
as long as callbacks give them work. `ZeroTimer` is one of them: a timer with restart 1
and duration 0 is due again at once, and `run_timers` does not return.

## 6. What is proved

The safety invariants, action properties and refinements that the passing runs check are
proved for every value of the constants, from the named assumptions on them, but for two:
`TeardownProgress`, which needs a condition variable that POSIX does not promise, and
`FileUntouched`, which only users could break whom the theorems leave out. For files and
sockets the theorems name, as a hypothesis, the calls that users must not make (`Patient`,
`Supported`): section 3 says what happens otherwise.

### The pool and the loop: `WorkLoop_proofs`

For every set of workers and requests and every pipe size; the assumptions are
`PoolAssumption` and `PipeAssumption`, which are what the code has: finite sets, at
least one worker.

| theorem | states |
|---|---|
| `TypeCorrect` | `Spec => []TypeOK` |
| `IdleCountInvariant` | `Spec => []IdleCount` |
| `Conservation` | `Spec => []RequestConservation` |
| `TeardownQuiescent` | `Spec => []QuiescentTeardown` |
| `WakeupNeverLost` | `Spec => []NoLostWakeup` |
| `WorkIsConserved` | `Spec => []WorkConserving` |
| `CleanupIsWoken` | `Spec => []CleanupWaitSound` |
| `ServiceImplemented` | `Spec => ImplementsService` |
| `ControlInvariant` | the control layer below |

The inductive invariant is built in layers, each proved with the ones before it as
facts that always hold.

1. `Control`: types without the bounds of the counters, and which control values occur
   together. Blocked workers are at their wait; workers that work or notify hold a
   request; no worker exists before `tpool_start`, all do after it unless it failed;
   the pill is in the queue exactly during teardown; the batch is empty outside
   `wakeup_io`.
2. `IdleCount` needs `Control` for the workers that a signal moves, and is what
   bounds the counter.
3. `RequestConservation` needs both. A request moves between `wq`, a worker, `work_queue`
   and the batch, and each move must keep the four disjoint and free of repetition
   (lemmas `AppendFacts`, `TailFacts`); the counter follows by cardinality.
4. `QuiescentTeardown` follows the decision of `apc_loop_active_` through teardown:
   nothing is in flight, so nothing can be submitted any more.

`TypeOK` is the conjunction of the layers' types with the bounds that layers 2 and 3
give. `NoLostWakeup`, `WorkConserving` and `CleanupWaitSound` are inductive relative
to the layers. `CleanupWaitSound` is what is left of `TeardownProgress` without an
assumption on the wake order: while `tpool_cleanup` waits on the condition variable, a
worker that has not left is awake. It starts so because the count in line 111 is short
of a worker that is not idle, and a worker that leaves then always finds somebody
to wake, the loop's thread or another worker. The refinement maps the pool's queue without the pill, the requests in
workers' hands, and the batch with `work_queue`; `RoomToStart` is the lemma that a
worker which takes a request leaves at most N running.

### The timers: `TimerLoop_proofs`

For any number of timers, any finite set of durations, any number of retries of one
poll and any cap on a sleep (`TimerAssumption`, `PollAssumption`).

| theorem | states |
|---|---|
| `TypeCorrect` | `Spec => []TypeOK` |
| `CountsAgree` | `Spec => []HandlesCounted` |
| `ClosedSilent` | `Spec => []ClosedTimersSilent` |
| `SleepIsBounded` | `Spec => []SleepBounded` |
| `Inductive` | `Spec => []IInv` |

`IInv` is `Timed /\ Paced`. `Timed` is about the timers, whichever callback they are
called from: types, a duration for every timer that can be restarted, ids that are the
ranks 0, 1, ... of the started timers (`Ranked`), the counts, and the silence of closed
timers. The ranks are what makes the head of the heap exist and be unique (`HeadFacts`),
and `EnterRanked` and `LeaveRanked` say that starting and stopping keep them. `Paced` is
about the loop: a timer is late only while `run_timers` is at work. `SleepBounded` is not
inductive without it: a late timer at the head would make the timeout negative.

### The timer heap: `TimerHeap_proofs`

For any set of nodes and any order on them; `HeapAssumption` says that the order is strict
and total, which `timer_cmp` makes it: by `end`, then by `id`, and `apc_timer_start` gives
each start an id of its own.

| theorem | states |
|---|---|
| `HeapStaysComplete` | `Spec => []HeapShape` |
| `HeapStaysOrdered` | `Spec => []HeapOrder` |
| `HeapImplementsQueue` | `Spec => ImplementsQueue` |

The proofs go through an array. `Laid(h, a, n)` says that node `a[k]` is in slot `k` and
that every pointer of it leads where the number says: left to `2k`, right to `2k + 1`, up
to `k \div 2`. One lemma per operation shows that what the C code does to five or six
pointers is a simple operation on the array: `SwapLaid` (two slots exchange their nodes),
`AttachLaid`, `CutLaid` and `TakePlaceLaid`. `SlotLaid` says that the path of bits ends
in slot `k`, and `ReachedLaid` that the nodes reached from the head are those of the array;
both are by induction on the number of the slot (`SlotInduction`).

The order is argued on the array alone. While a node sifts up, all is in order but for it
and its parent, and its children come after its parent (`AlmostUp`); while it sifts down,
all but for it and its neighbours (`AlmostDown`). `heap_remove` puts the last node
anywhere, so it starts in `AlmostDown`, which `heap_heapify` turns to `AlmostUp`, and
`heap_decrease` to `Sorted`: the proof needs both loops, in this order. That the loops end is
part of it: `Up` and `Down` count the rounds, after each of which the node is nearer to the
root or farther from it, so that `nr_nodes` rounds, which is what the model runs, are enough.
The invariant `IInv` is that the heap is laid out, in order, as an array of its members.

### The files: `FileOps_proofs`

For any number of files, paths, descriptors, operations and workers (`OpenAssumption`,
`FileAssumption`), and users who do not close a file while it has operations under way:
the hypothesis `Patient` of each theorem, `"close_busy" \notin Allows`, without which
`file_close` shows `FileUntouched` to be wrong. Opening again after a failure is
allowed. `FileUntouched` itself is checked (`file_order`) and refuted (`file_close`), and
no theorem is stated about it.

| theorem | states |
|---|---|
| `TypeCorrect` | `Spec => []TypeOK` |
| `OneOwner` | `Spec => []OneAtATime` |
| `CountsAgree` | `Spec => []Counted` |
| `DescriptorsKept` | `Spec => []DescriptorsOwned` |
| `FileServiceImplemented` | `Spec => ImplementsFileService` |
| `Inductive` | `Spec => []IInv` |

`IInv` is `TypeOK /\ Descriptors /\ Handles /\ Places /\ Flow`. `Descriptors`: an open
descriptor is in one handle. `Handles`: a file that is not open has no descriptor, no
queue and no flag, and an open one is active exactly while `active_work` is set.
`Places`: an operation is in one place, once - the service's queue, a worker, the
finished ones, or its file's queue - and `active_requests` counts them. `Flow` is the heart
of it: of each file at most one operation is with the service or in its callback, there is
one while `active_work` is set, and its file is open, or at least not freed. The refinement
maps a file's operation in the service followed by its queue to the queue of
`FileService`; that the first part is a set of at most one element is `Flow` again.

### The sockets: `Net_proofs`

For any number of handles, descriptors, writes and sizes (`ReactorAssumption`,
`NetAssumption`), and users who do none of the things that section 3 lists: the hypothesis
`Supported` of each theorem, `Allows = {}`.

| theorem | states |
|---|---|
| `DescriptorsKept` | `Spec => []DescriptorsOwned` |
| `PendingIsWatched` | `Spec => []PendingWatched` |
| `SilentIfClosed` | `Spec => SilentOnceClosed` |
| `ClosedLeftAlone` | `Spec => ClosedUntouched` |

`IInv` has seven parts. `NetShape` is as much of the types as the proofs need. `Watchers`
ties the watchers, the reactor's table and the kernel's interest together in both
directions: `DescriptorsOwned` alone is not inductive, because it does not say that a
watcher with events is in the table, and so what a deregistration removes. `Connections`
is about descriptors that are not in a handle yet: while `on_connection` runs, and while
other handles are closed in it. `Sockets` says what the state of a handle implies of its
descriptor and its writes; that a descriptor means an open handle is what `SilentIfClosed`
rests on, since each loop of the i/o callbacks asks for `watcher.fd` before it goes on.
`ClosingQueued`: a handle is in the closing queue once, so `run_closing` frees no memory in
use. `Suspended` says what each suspended function relies on: only `apc_close` is suspended
below others, each time for another handle, and nobody closes that handle or answers its
writes in the meantime. Every call keeps this for a reason that depends only on what it
leaves alone (`Call`), and so does every step that serves a handle (`Step`), because then
no other function is suspended; the beginning and end of `apc_close` need proofs of their
own (`CloseStartKeeps`, `CloseEndKeeps`).

`ClosedLeftAlone` is argued step by step: of a handle that is not open, the descriptor,
the queue and the flags are as closing leaves them (`Gone`), so that each test the
suspended loops make of them fails (`Zeroed`), and a step that changes a handle
changes only the one it serves or is asked for (`ChangesOne`).

The theorems hold for three handles and more, where an event of an old batch can reach
another owner of the descriptor: such an event is wrong for its receiver, but it never
reaches a closed handle or a descriptor that is not the handle's.

### The writes of the sockets: `NetWrites_proofs`

Under the same hypothesis `Supported`.

| theorem | states |
|---|---|
| `RequestsCounted` | `Spec => []WritesCounted` |
| `WritesInOrder` | `Spec => ImplementsWriteService` |

The unanswered writes of a handle are spread over its `write_queue` and the queues that
suspended calls of `core_write_callbacks` hold, and `Pending` collects them by recursion
over the stack. The first lemmas make it usable: what it is of a stack with one frame more
(`PendingPush`), that the handle's own queue comes last (`PendingQueueLast`), and that
frames without writes add nothing (`PendingNothing`). With them each step is one of three
(`EveryWriteStep`): it leaves every `Pending(h)` as it is, it appends one write to one of
them, or it answers the first write of one (`AnswerStep`). That is a step of `WriteService`
or a stutter, provided that the write that is answered is the first of all that are
pending: this is where `Suspended` of `Net_proofs` is needed, since an outer call that held
writes of the same handle would have to be served before the inner one. The count follows
by cardinality, with `WInv`: no write is pending twice, and the count is exact.

### The handles: `NetHandles_proofs`

| theorem | states |
|---|---|
| `SizesAreExact` | `Spec => []SizeExact` |
| `TypesKept` | `Spec => []TypeOK` |
| `OneConnectionAtATime` | `Spec => []AcceptsOneByOne` |

`SizeExact` needs that no write is in two places (`WInv`): what a step takes from a write's
rest is then taken from one sum. The lemmas about `Units` say how a sum splits and that it
depends on its own writes only. That sizes and counts are not negative, the part of `TypeOK`
that a type checker would not see, follows from `SizesAreExact` and `RequestsCounted`.
`AcceptsOneByOne` is not inductive: what keeps `accepted_fd` free is that a server which
still has the number of a connection has stopped to listen, waits for no event at all
(`ServerIdle`), and so is not called before its user has closed it.

### How the recursive definitions are treated

`Pending` and `Units` are recursive functions over positions, `Slot` one over slots, and the
sift loops of the heap over rounds. The
prover cannot instantiate the induction theorems of the library, which take an operator,
but the same argument works with a set: `UpTo` in `Lemmas` says that a set of numbers that
has 0 and with each number below n the next one has all up to n, and it follows from the
axiom that a non-empty set of naturals has a least element. `Recursion` gives the existence
of a function with a given first value and step, and the lemmas named `...Exists` and
`...Unique` tie the definition to it. Where the values are heaps, the set they are taken
from is that of the heaps some number of rounds can make (`DecreaseSorts`, `HeapifySifts`).

### What is only model-checked

Liveness and its fairness, which the prover cannot treat; `TeardownProgress` and
`FileUntouched`, each on its instance and with the assumption that its run names (`FifoCond`,
users who do not close a file in use), since the code has neither without it. `CleanupWaitSound`
is the reverse: it is proved, and no run lists it.

## 7. Not modelled

* The kqueue and Solaris branches of the reactor, which repeat the logic of the epoll
  branch over other system calls and are not built on Linux.
* `fd.c`, `apc_strerror`, the allocator hooks and address conversion, which have no state
  or only format, and `heap_dequeue_head`, which nothing calls.
* `apc_getaddrinfo` beyond the request it makes: one block of memory is allocated before
  and freed after it.
* File operations without a callback: one system call on the caller's thread. File
  contents, offsets and permissions.
* The contents of buffers and which of several buffers of a write is in progress.
* Two loops in one process, which share the pool's static variables.
* Arithmetic near `LONG_MAX` in `get_timeout`; starting a timer that is started.
* The examples. Those for UDP and timers call `apc_close` with one argument, which the
  present API does not have, so they are no evidence of how it is used; the TCP echo
  server and client are.

## 8. Plan

Done: the pool and the loop, the timers, the files and the sockets over the reactor, with
safety, refinement and liveness checked, and safety and refinement proved but for the two
properties section 6 names; the heap, with its shape, its order and its refinement checked
and proved.

1. Extend `Net`: the state of a connect in the kernel; two handles under `FairSpec`; a
   write's several buffers (`core_advance_write_queue`) as an operator checked against
   a reference; the wakeup watcher as one of the watchers.
2. Compose: one loop with timers, closing and the work service, whose timeouts come
   from `TimerLoop` and whose events come from `Reactor`.
3. Files: closing while operations are queued, with what is lost named, and the
   operations without a callback next to the queued ones.
4. Proofs: for each extension of 1 to 3, its invariants and its refinement, in the module of
   proofs of its component.
