------------------------------- MODULE FileOps -------------------------------
(***************************************************************************)
(* file/fs.c: reads and writes with a callback, on several files, over     *)
(* the work service (module WorkService, which the thread pool and the     *)
(* loop implement: see WorkLoop).  A file has at most one operation in the *)
(* service; the others wait in its work_queue, and file_after_op, the      *)
(* `done` function of every operation, sends the next one.                 *)
(*                                                                         *)
(* A request stands for one call of apc_file_pread or apc_file_pwrite at a *)
(* time; which of the two, its buffers, its offset and its result make no  *)
(* difference to the queue.  An operation without a callback is done by    *)
(* the caller at once and changes nothing of the handle: it has no action. *)
(*                                                                         *)
(* The user acts between two callbacks of the loop (in the callback of     *)
(* some other handle) and in the operations' own callbacks.                *)
(***************************************************************************)
EXTENDS FileOpen, Sequences, SequencesExt

CONSTANTS Reqs,
          FileOf,           \* req->file: the file a request is used on
          Capacity,         \* worker threads
          NoReq

ASSUME FileAssumption == /\ FileOf \in [Reqs -> Files]
                         /\ Capacity \in Nat \ {0}
                         /\ NoReq \notin Reqs

VARIABLES pending, running, finished,   \* the work service
          work_queue, active_work,
          active,           \* the files with HANDLE_ACTIVE
          closing_queue,
          active_requests, active_handles,
          cur               \* the request whose callback runs, or NoReq

workVars == <<pending, running, finished>>
vars == <<workVars, openVars, work_queue, active_work, active, closing_queue,
          active_requests, active_handles, cur>>

Work == INSTANCE WorkService

Queued == UNION {ToSet(work_queue[f]) : f \in Files}
InFlight == Work!Outstanding \cup Queued
Closing == ToSet(closing_queue)

Init == /\ Work!Init
        /\ OpenInit
        /\ work_queue = [f \in Files |-> <<>>]
        /\ active_work = [f \in Files |-> 0]
        /\ active = {} /\ closing_queue = <<>>
        /\ active_requests = 0 /\ active_handles = 0
        /\ cur = NoReq

------------------------------------------------------------------------------
(* apc_register_handle_ and apc_deregister_handle_. *)
Register(f) ==
    /\ active' = active \cup {f}
    /\ active_handles' = IF f \in active THEN active_handles ELSE active_handles + 1

Deregister(f) ==
    /\ active' = active \ {f}
    /\ active_handles' = IF f \in active THEN active_handles - 1 ELSE active_handles

(* The calls of FileOpen; apc_file_init empties the queue, too. *)
Open == /\ OpenStep
        /\ LET new == {f \in Files : state[f] = "gone" /\ state'[f] = "open"} IN
           /\ work_queue' = [f \in Files |-> IF f \in new THEN <<>> ELSE work_queue[f]]
           /\ active_work' = [f \in Files |-> IF f \in new THEN 0 ELSE active_work[f]]
        /\ UNCHANGED <<workVars, active, closing_queue, active_requests,
                       active_handles, cur>>

(* Mutant: every operation goes to the pool at once. *)
apc_file_op_at_once(r) ==
    LET f == FileOf[r] IN
    /\ IsOpen(f) /\ r \notin InFlight
    /\ Register(f)
    /\ active_requests' = active_requests + 1
    /\ active_work' = [active_work EXCEPT ![f] = 1]
    /\ Work!Submit(r)
    /\ UNCHANGED <<openVars, work_queue, closing_queue, cur>>

(* apc_file_pread and apc_file_pwrite with a callback. *)
apc_file_op(r) ==
    LET f == FileOf[r] IN
    /\ IsOpen(f) /\ r \notin InFlight
    /\ Register(f)
    /\ active_requests' = active_requests + 1
    /\ active_work' = [active_work EXCEPT ![f] = 1]
    /\ IF active_work[f] = 0
       THEN Work!Submit(r) /\ UNCHANGED work_queue
       ELSE /\ work_queue' = [work_queue EXCEPT ![f] = Append(@, r)]
            /\ UNCHANGED workVars
    /\ UNCHANGED <<openVars, closing_queue, cur>>

(* The file has nothing under way but the callback that is running. *)
Idle(f) == /\ work_queue[f] = <<>>
           /\ active_work[f] = 1 => cur # NoReq /\ FileOf[cur] = f

(* Mutant: the closing callback runs inside apc_close. *)
apc_close_calls_back(f) ==
    /\ state[f] = "open" /\ ("close_busy" \in Allows \/ Idle(f))
    /\ state' = [state EXCEPT ![f] = "gone"]
    /\ apc_file_close(f)
    /\ work_queue' = [work_queue EXCEPT ![f] = <<>>]
    /\ Deregister(f)
    /\ UNCHANGED <<workVars, active_work, active_requests, closing_queue, cur>>

(* apc_close of a file, with a closing callback.  The operations that wait *)
(* are taken out of the queue; their done field is still NULL, so that     *)
(* file_flush_work_queue calls nothing, and active_requests keeps them.    *)
apc_close(f) ==
    /\ state[f] = "open" /\ ("close_busy" \in Allows \/ Idle(f))
    /\ state' = [state EXCEPT ![f] = "closing"]
    /\ apc_file_close(f)
    /\ work_queue' = [work_queue EXCEPT ![f] = <<>>]
    /\ Deregister(f)
    /\ closing_queue' = Append(closing_queue, f)
    /\ UNCHANGED <<workVars, active_work, active_requests, cur>>

(* A worker takes a request and runs file_read or file_write on it. *)
Worker == /\ Work!Start \/ \E r \in Reqs : Work!Finish(r)
          /\ UNCHANGED <<openVars, work_queue, active_work, active, closing_queue,
                         active_requests, active_handles, cur>>

(* wakeup_io calls file_after_op, and that the user's callback. *)
CallBack == /\ cur = NoReq
            /\ Work!Deliver
            /\ cur' = Head(finished)
            /\ active_requests' = active_requests - 1
            /\ UNCHANGED <<openVars, work_queue, active_work, active, closing_queue,
                           active_handles>>

(* Mutant: the operation issued last goes first. *)
NextOp_last(f) ==
    /\ Work!Submit(Last(work_queue[f]))
    /\ work_queue' = [work_queue EXCEPT ![f] = Front(@)]

(* The next operation of f leaves the file's queue for the pool's; its     *)
(* request is deregistered and registered again.                           *)
NextOp(f) == /\ Work!Submit(Head(work_queue[f]))
             /\ work_queue' = [work_queue EXCEPT ![f] = Tail(@)]

(* Mutant: the handle stays registered. *)
file_after_op_registered ==
    /\ cur # NoReq /\ cur' = NoReq
    /\ LET f == FileOf[cur] IN
       IF work_queue[f] # <<>>
       THEN NextOp(f) /\ UNCHANGED <<active_work, active, active_handles>>
       ELSE /\ active_work' = [active_work EXCEPT ![f] = 0]
            /\ UNCHANGED <<workVars, work_queue, active, active_handles>>
    /\ UNCHANGED <<openVars, closing_queue, active_requests>>

(* Mutant: the handle is deregistered after every operation. *)
file_after_op_deregisters ==
    /\ cur # NoReq /\ cur' = NoReq
    /\ LET f == FileOf[cur] IN
       /\ Deregister(f)
       /\ IF work_queue[f] # <<>> THEN NextOp(f) /\ UNCHANGED active_work
          ELSE /\ active_work' = [active_work EXCEPT ![f] = 0]
               /\ UNCHANGED <<workVars, work_queue>>
    /\ UNCHANGED <<openVars, closing_queue, active_requests>>

(* The callback returns to file_after_op, which sends the next operation   *)
(* or lets the handle rest.                                                *)
file_after_op ==
    /\ cur # NoReq /\ cur' = NoReq
    /\ LET f == FileOf[cur] IN
       IF work_queue[f] # <<>>
       THEN NextOp(f) /\ UNCHANGED <<active_work, active, active_handles>>
       ELSE /\ active_work' = [active_work EXCEPT ![f] = 0]
            /\ Deregister(f)
            /\ UNCHANGED <<workVars, work_queue>>
    /\ UNCHANGED <<openVars, closing_queue, active_requests>>

(* run_closing calls the closing callback, which frees the handle. *)
RunClosing == /\ cur = NoReq /\ closing_queue # <<>>
              /\ closing_queue' = Tail(closing_queue)
              /\ state' = [state EXCEPT ![Head(closing_queue)] = "gone"]
              /\ UNCHANGED <<file, exists, open, workVars, work_queue, active_work,
                             active, active_requests, active_handles, cur>>

User == Open \/ (\E f \in Files : apc_close(f)) \/ (\E r \in Reqs : apc_file_op(r))

Next == User \/ Worker \/ CallBack \/ file_after_op \/ RunClosing

Spec == Init /\ [][Next]_vars

(* The work service does its part (WorkLoop: ServiceKeepsGoing), callbacks *)
(* return and the loop goes on; users are free.                            *)
FairSpec == /\ Spec
            /\ WF_vars(Work!Start /\ Worker)
            /\ \A r \in Reqs : WF_vars(Work!Finish(r) /\ Worker)
            /\ WF_vars(CallBack) /\ WF_vars(file_after_op) /\ WF_vars(RunClosing)

------------------------------------------------------------------------------
(* The requests a worker or the loop is using, and those of one file. *)
InUse == Work!Outstanding \cup (IF cur = NoReq THEN {} ELSE {cur})
InService(f) == {r \in InUse : FileOf[r] = f}

(* Type invariant. *)
TypeOK == /\ OpenTypeOK
          /\ pending \in Seq(Reqs) /\ running \subseteq Reqs /\ finished \in Seq(Reqs)
          /\ work_queue \in [Files -> Seq(Reqs)]
          /\ active_work \in [Files -> {0, 1}]
          /\ active \subseteq Files /\ closing_queue \in Seq(Files)
          /\ active_requests \in Nat /\ active_handles \in Nat
          /\ cur \in Reqs \cup {NoReq}

(* Four workers serve the pool's queue, and yet no two operations of one   *)
(* file are under way at once: the file's offset and the user's buffers    *)
(* have one owner.  active_work says whether there is one, and without one *)
(* nothing waits.                                                          *)
OneAtATime ==
    \A f \in Files : /\ Cardinality(InService(f)) <= 1
                     /\ state[f] = "open" =>
                            (active_work[f] = 1 <=> InService(f) # {})
                     /\ active_work[f] = 0 => work_queue[f] = <<>>

(* The loop is kept active for exactly the operations and the files that   *)
(* are under way, although a queued operation is counted when it is        *)
(* issued, and not counted twice when it is sent to the pool.              *)
Counted ==
    /\ active_requests = Cardinality(InFlight)
    /\ active_handles = Cardinality(active)
    /\ \A f \in Files : state[f] = "open" => (f \in active <=> active_work[f] = 1)

(* README.md says that a handle's memory should be freed in its closing    *)
(* callback: from then on neither a worker (op->file->fd) nor the loop     *)
(* (file_after_op) uses the file.                                          *)
FileUntouched ==
    \A r \in InUse : state[FileOf[r]] # "gone"

(* Each descriptor that is open belongs to one file, and the operations     *)
(* that are with the pool find the descriptor of their file open: none is   *)
(* leaked by a call that fails, none is used after it may be another's.     *)
DescriptorsOwned ==
    /\ open = {file[f].fd : f \in Files} \ {NoFd}
    /\ \A f, g \in Files : f # g /\ file[f].fd = file[g].fd => file[f].fd = NoFd
    /\ \A r \in Work!Outstanding : IsOpen(FileOf[r])

Promise == INSTANCE FileService
    WITH todo <- [f \in Files |->
                     SetToSeq({r \in Work!Outstanding : FileOf[r] = f}) \o work_queue[f]]

(* The operations of a file are called back in the order they were issued. *)
ImplementsFileService == Promise!Spec

(* Liveness: every operation is called back. *)
OpsCalledBack == \A r \in Reqs : r \in InFlight ~> cur = r

(* Liveness: when the user stops issuing operations, nothing of the files  *)
(* keeps the loop active.                                                  *)
FilesComeToRest ==
    <>[][\A r \in Reqs : ~apc_file_op(r)]_vars
        => <>[](active_handles = 0 /\ active_requests = 0)
==============================================================================
