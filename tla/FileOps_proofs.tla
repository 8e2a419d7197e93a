---------------------------- MODULE FileOps_proofs ----------------------------
(***************************************************************************)
(* Proofs about FileOps, for every number of files, requests, descriptors  *)
(* and workers, of users who close a file only when its operations are     *)
(* through (README.md, "Disagreements", says what happens otherwise).      *)
(*                                                                         *)
(* The inductive invariant has four parts: TypeOK; Handles, which ties the *)
(* state of a file to the closing queue, its descriptor and its flag;      *)
(* Places, which says that a request is in one place at a time; and Flow,  *)
(* which says that a file has one operation in use if active_work is set,  *)
(* and none otherwise.                                                     *)
(***************************************************************************)
EXTENDS FileOps, Lemmas, TLAPS, FiniteSetTheorems

Out == Work!Outstanding

Descriptors ==
    /\ \A f \in Files : file[f].fd # NoFd => file[f].fd \in open
    /\ \A d \in open : d # NoFd /\ \E f \in Files : file[f].fd = d
    /\ \A f, g \in Files : f # g /\ file[f].fd = file[g].fd => file[f].fd = NoFd

Handles ==
    /\ \A f \in Files : state[f] = "closing" <=> f \in Closing
    /\ IsInjective(closing_queue)
    /\ \A f \in Files : state[f] # "open"
          => file[f].fd = NoFd /\ f \notin active /\ work_queue[f] = <<>>
    /\ \A f \in Files : state[f] = "open"
          => /\ f \in active <=> active_work[f] = 1
             /\ active_work[f] = 1 => file[f].fd # NoFd
    /\ IsFiniteSet(active) /\ active_handles = Cardinality(active)

Places ==
    /\ IsInjective(pending) /\ IsInjective(finished)
    /\ ToSet(pending) \cap running = {}
    /\ ToSet(pending) \cap ToSet(finished) = {}
    /\ running \cap ToSet(finished) = {}
    /\ cur \notin Out
    /\ \A f \in Files :
          /\ IsInjective(work_queue[f])
          /\ \A r \in ToSet(work_queue[f]) : FileOf[r] = f /\ r \notin Out
    /\ IsFiniteSet(InFlight) /\ active_requests = Cardinality(InFlight)

Flow ==
    /\ \A r, s \in InUse : FileOf[r] = FileOf[s] => r = s
    /\ \A r \in InUse : active_work[FileOf[r]] = 1
    /\ \A r \in Out : state[FileOf[r]] = "open"
    /\ cur # NoReq => state[FileOf[cur]] # "gone"
    /\ \A f \in Files : state[f] = "open" /\ active_work[f] = 1
          => \E r \in InUse : FileOf[r] = f
    /\ \A f \in Files : active_work[f] = 0 => work_queue[f] = <<>>

IInv == TypeOK /\ Descriptors /\ Handles /\ Places /\ Flow

-----------------------------------------------------------------------------
LEMMA IInvInit == Init => IInv
<1> SUFFICES ASSUME Init PROVE IInv
  OBVIOUS
<1> USE DEF Init, OpenInit, Work!Init
<1>1. ToSet(<<>>) = {} /\ IsInjective(<<>>) /\ IsFiniteSet({}) /\ Cardinality({}) = 0
  BY EmptyFacts, FS_EmptySet
<1>2. NoReq \notin Reqs /\ FileOf \in [Reqs -> Files]
  BY FileAssumption
<1>3. Out = {} /\ Queued = {} /\ Closing = {} /\ InFlight = {} /\ InUse = {}
  <2>1. Work!Outstanding = {}
    <3>1. ToSet(pending) = {} /\ running = {} /\ ToSet(finished) = {}
      BY <1>1
    <3> QED
      BY <3>1 DEF Work!Outstanding, Work!ToSet, ToSet
  <2>2. \A f \in Files : ToSet(work_queue[f]) = {}
    BY <1>1
  <2>3. Queued = {}
    BY <2>2 DEF Queued
  <2> QED
    BY <1>1, <2>1, <2>3 DEF Out, Closing, InFlight, InUse
<1>4. TypeOK
  <2>1. OpenTypeOK
    BY DEF OpenTypeOK, NewFile
  <2> QED
    BY <2>1 DEF TypeOK
<1>5. Descriptors
  BY DEF Descriptors, NewFile
<1>6. Handles
  BY <1>1, <1>3 DEF Handles, NewFile
<1>7. Places
  BY <1>1, <1>3 DEF Places
<1>8. Flow
  BY <1>3 DEF Flow
<1> QED
  BY <1>4, <1>5, <1>6, <1>7, <1>8 DEF IInv

-----------------------------------------------------------------------------
(* The calls of FileOpen. *)

(* The descriptor a call that opens gets is nobody's. *)
LEMMA FreeFdFacts ==
    ASSUME open \subseteq Fds, HasFreeFd
    PROVE  FreeFd \in Fds \ open /\ FreeFd # NoFd
<1>1. Fds \ open \subseteq Nat /\ Fds \ open # {}
  BY OpenAssumption DEF HasFreeFd
<1>2. FreeFd \in Fds \ open
  BY <1>1, MinIn DEF FreeFd
<1> QED
  BY <1>2, OpenAssumption DEF NoFd

LEMMA OFlagsType ==
    ASSUME NEW flags
    PROVE  OFlags(flags) \subseteq {"O_WRONLY", "O_RDWR", "O_TRUNC", "O_CREAT", "O_EXCL",
                                    "O_APPEND", "O_TMPFILE"}
BY DEF OFlags

FileType == [fd : Fds \cup {NoFd},
             oflags : SUBSET {"O_WRONLY", "O_RDWR", "O_TRUNC", "O_CREAT", "O_EXCL",
                              "O_APPEND", "O_TMPFILE"},
             path : Paths \cup {NoPath, TmpPath}, stat : BOOLEAN,
             asked : SUBSET {"R", "W", "RW", "CREATE", "APPEND", "TRUNC"}]

(* What a call of FileOpen changes: perhaps the state of a file that had   *)
(* no handle, perhaps its record, perhaps it opens a free descriptor.      *)
LEMMA OpenStepFacts ==
    ASSUME TypeOK, Descriptors, Handles, OpenStep
    PROVE  /\ OpenTypeOK' /\ Descriptors'
           /\ \A f \in Files : \/ state'[f] = state[f]
                               \/ state[f] = "gone" /\ state'[f] = "open"
           /\ \A f \in Files : file'[f].fd = file[f].fd \/ file[f].fd = NoFd
           /\ \A f \in Files : state'[f] # "open" => file'[f].fd = file[f].fd
<1> USE DEF TypeOK, OpenTypeOK
<1>a. file \in [Files -> FileType]
  BY DEF FileType
<1>1. ASSUME NEW f \in Files, state[f] \in {"gone", "open"}, NEW new \in FileType,
             file' = [file EXCEPT ![f] = new],
             state' = [state EXCEPT ![f] = "open"], exists' \subseteq Paths,
             \/ new.fd = file[f].fd /\ UNCHANGED open
             \/ /\ HasFreeFd /\ file[f].fd = NoFd
                /\ new.fd = FreeFd /\ open' = open \cup {FreeFd}
      PROVE  /\ OpenTypeOK' /\ Descriptors'
             /\ \A g \in Files : \/ state'[g] = state[g]
                                 \/ state[g] = "gone" /\ state'[g] = "open"
             /\ \A g \in Files : file'[g].fd = file[g].fd \/ file[g].fd = NoFd
             /\ \A g \in Files : state'[g] # "open" => file'[g].fd = file[g].fd
  <2>1. /\ \A g \in Files : g # f => file'[g] = file[g] /\ state'[g] = state[g]
        /\ file'[f] = new /\ state'[f] = "open"
        /\ file' \in [Files -> FileType]
    BY <1>1, <1>a
  <2>2. HasFreeFd => FreeFd \in Fds \ open /\ FreeFd # NoFd
    BY FreeFdFacts
  <2>3. OpenTypeOK'
    BY <1>1, <2>1, <2>2 DEF FileType
  <2>4. Descriptors'
    <3>1. CASE new.fd = file[f].fd /\ UNCHANGED open
      <4>1. \A g \in Files : file'[g].fd = file[g].fd
        BY <2>1, <3>1
      <4> QED
        BY <3>1, <4>1 DEF Descriptors
    <3>2. CASE HasFreeFd /\ file[f].fd = NoFd /\ new.fd = FreeFd /\ open' = open \cup {FreeFd}
      <4>1. \A g \in Files : file[g].fd # FreeFd
        BY <2>2, <3>2 DEF Descriptors
      <4>2. \A g \in Files : file'[g].fd = IF g = f THEN FreeFd ELSE file[g].fd
        BY <2>1, <3>2
      <4>3. \A g, h \in Files : g # h /\ file'[g].fd = file'[h].fd => file'[g].fd = NoFd
        BY <4>1, <4>2 DEF Descriptors
      <4>4. /\ \A g \in Files : file'[g].fd # NoFd => file'[g].fd \in open'
            /\ \A d \in open' : d # NoFd /\ \E g \in Files : file'[g].fd = d
        <5>1. ASSUME NEW d \in open' PROVE d # NoFd /\ \E g \in Files : file'[g].fd = d
          <6>1. CASE d = FreeFd
            BY <2>2, <3>2, <4>2, <6>1
          <6>2. CASE d \in open
            <7>1. PICK g \in Files : file[g].fd = d /\ d # NoFd
              BY <6>2 DEF Descriptors
            <7> QED
              BY <3>2, <4>2, <7>1
          <6> QED
            BY <3>2, <5>1, <6>1, <6>2
        <5>2. ASSUME NEW g \in Files, file'[g].fd # NoFd PROVE file'[g].fd \in open'
          BY <3>2, <4>2, <5>2 DEF Descriptors
        <5> QED
          BY <5>1, <5>2
      <4> QED
        BY <4>3, <4>4 DEF Descriptors
    <3> QED
      BY <1>1, <3>1, <3>2
  <2> QED
    BY <1>1, <2>1, <2>3, <2>4
<1>2. ASSUME NEW f \in Files, apc_file_init(f)
      PROVE  \E new \in FileType :
                /\ state[f] \in {"gone", "open"} /\ file' = [file EXCEPT ![f] = new]
                /\ state' = [state EXCEPT ![f] = "open"] /\ exists' \subseteq Paths
                /\ new.fd = file[f].fd /\ UNCHANGED open
  <2>1. NewFile \in FileType /\ NewFile.fd = NoFd
    BY DEF NewFile, FileType
  <2>2. file[f].fd = NoFd
    BY <1>2 DEF Handles, apc_file_init
  <2> QED
    BY <1>2, <2>1, <2>2 DEF apc_file_init
<1>3. ASSUME NEW f \in Files, NEW p \in Paths, NEW flags \in Opens, apc_file_open(f, p, flags)
      PROVE  \E new \in FileType :
                /\ state[f] \in {"gone", "open"} /\ file' = [file EXCEPT ![f] = new]
                /\ state' = [state EXCEPT ![f] = "open"] /\ exists' \subseteq Paths
                /\ \/ new.fd = file[f].fd /\ UNCHANGED open
                   \/ /\ HasFreeFd /\ file[f].fd = NoFd
                      /\ new.fd = FreeFd /\ open' = open \cup {FreeFd}
  <2> DEFINE oflags == file[f].oflags \cup OFlags(flags)
  <2> DEFINE tried == [file[f] EXCEPT !.oflags = oflags, !.asked = flags]
  <2>1. flags \subseteq {"R", "W", "RW", "CREATE", "APPEND", "TRUNC"}
    BY OpenAssumption
  <2>2. file[f] \in FileType
    BY <1>a
  <2>3. oflags \subseteq {"O_WRONLY", "O_RDWR", "O_TRUNC", "O_CREAT", "O_EXCL",
                          "O_APPEND", "O_TMPFILE"}
    BY <2>2, OFlagsType DEF FileType
  <2>4. tried \in FileType /\ tried.fd = file[f].fd
    <3> HIDE DEF oflags
    <3> QED
      BY <2>1, <2>2, <2>3 DEF FileType
  <2>5. state[f] = "open" /\ file[f].fd = NoFd /\ state' = [state EXCEPT ![f] = "open"]
    BY <1>3 DEF apc_file_open, MayOpen
  <2>6. CASE file' = [file EXCEPT ![f] = tried] /\ UNCHANGED <<exists, open>>
    BY <2>4, <2>5, <2>6
  <2>7. CASE /\ HasFreeFd
             /\ \E path \in {p, NoPath} :
                   file' = [file EXCEPT ![f] = [tried EXCEPT !.fd = FreeFd, !.path = path]]
             /\ open' = open \cup {FreeFd}
             /\ exists' = exists \cup {p}
    <3>1. PICK path \in {p, NoPath} :
             file' = [file EXCEPT ![f] = [tried EXCEPT !.fd = FreeFd, !.path = path]]
      BY <2>7
    <3> DEFINE new == [tried EXCEPT !.fd = FreeFd, !.path = path]
    <3>2. FreeFd \in Fds
      BY <2>7, FreeFdFacts
    <3>3. new \in FileType /\ new.fd = FreeFd
      <4> HIDE DEF tried
      <4> QED
        BY <2>4, <3>2 DEF FileType
    <3> QED
      BY <2>5, <2>7, <3>1, <3>3
  <2> QED
    BY <1>3, <2>6, <2>7 DEF apc_file_open
<1>4. ASSUME NEW f \in Files, apc_file_open_tmp(f)
      PROVE  \E new \in FileType :
                /\ state[f] \in {"gone", "open"} /\ file' = [file EXCEPT ![f] = new]
                /\ state' = [state EXCEPT ![f] = "open"] /\ exists' \subseteq Paths
                /\ \/ new.fd = file[f].fd /\ UNCHANGED open
                   \/ /\ HasFreeFd /\ file[f].fd = NoFd
                      /\ new.fd = FreeFd /\ open' = open \cup {FreeFd}
  <2> DEFINE tried == [file[f] EXCEPT !.oflags = @ \cup {"O_TMPFILE", "O_RDWR"},
                                      !.asked = {"RW"}]
  <2>1. file[f] \in FileType
    BY <1>a
  <2>2. tried \in FileType /\ tried.fd = file[f].fd
    BY <2>1 DEF FileType
  <2>3. state[f] = "open" /\ file[f].fd = NoFd /\ state' = [state EXCEPT ![f] = "open"]
        /\ exists' \subseteq Paths
    BY <1>4 DEF apc_file_open_tmp, MayOpen
  <2>4. CASE file' = [file EXCEPT ![f] = tried] /\ UNCHANGED open
    BY <2>2, <2>3, <2>4
  <2>5. CASE /\ HasFreeFd
             /\ \E path \in {NoPath, TmpPath} :
                   file' = [file EXCEPT ![f] = [tried EXCEPT !.fd = FreeFd, !.path = path]]
             /\ open' = open \cup {FreeFd}
    <3>1. PICK path \in {NoPath, TmpPath} :
             file' = [file EXCEPT ![f] = [tried EXCEPT !.fd = FreeFd, !.path = path]]
      BY <2>5
    <3> DEFINE new == [tried EXCEPT !.fd = FreeFd, !.path = path]
    <3>2. FreeFd \in Fds
      BY <2>5, FreeFdFacts
    <3>3. new \in FileType /\ new.fd = FreeFd
      <4> HIDE DEF tried
      <4> QED
        BY <2>2, <3>2 DEF FileType
    <3> QED
      BY <2>3, <2>5, <3>1, <3>3
  <2> QED
    BY <1>4, <2>4, <2>5 DEF apc_file_open_tmp
<1>5. ASSUME NEW f \in Files, apc_file_stat(f)
      PROVE  \E new \in FileType :
                /\ state[f] \in {"gone", "open"} /\ file' = [file EXCEPT ![f] = new]
                /\ state' = [state EXCEPT ![f] = "open"] /\ exists' \subseteq Paths
                /\ new.fd = file[f].fd /\ UNCHANGED open
  <2> DEFINE new == [file[f] EXCEPT !.stat = TRUE]
  <2>1. new \in FileType /\ new.fd = file[f].fd
    <3>1. file[f] \in FileType
      BY <1>a
    <3> QED
      BY <3>1 DEF FileType
  <2>2. file' = [file EXCEPT ![f] = new]
    BY <1>5, <1>a DEF apc_file_stat
  <2>3. /\ state[f] = "open" /\ state' = [state EXCEPT ![f] = "open"]
        /\ exists' \subseteq Paths /\ UNCHANGED open
    BY <1>5 DEF apc_file_stat
  <2> HIDE DEF new
  <2> QED
    BY <2>1, <2>2, <2>3
<1>6. ASSUME UNCHANGED <<state, file, open>>, exists' \subseteq Paths
      PROVE  /\ OpenTypeOK' /\ Descriptors'
             /\ \A f \in Files : state'[f] = state[f] /\ file'[f].fd = file[f].fd
  BY <1>6 DEF Descriptors
<1>7. CASE \E f \in Files : apc_file_init(f) \/ apc_file_open_tmp(f) \/ apc_file_stat(f)
  BY <1>1, <1>2, <1>4, <1>5, <1>7
<1>8. CASE \E f \in Files, p \in Paths, flags \in Opens : apc_file_open(f, p, flags)
  BY <1>1, <1>3, <1>8
<1>9. CASE \E f \in Files, p \in Paths : apc_file_link_tmp(f, p)
  BY <1>6, <1>9 DEF apc_file_link_tmp
<1>10. CASE \E p \in Paths : Unlink(p)
  BY <1>6, <1>10 DEF Unlink
<1> QED
  BY <1>7, <1>8, <1>9, <1>10 DEF OpenStep
-----------------------------------------------------------------------------
(* The sets the invariant speaks of. *)
LEMMA OutFacts ==
    /\ Out = ToSet(pending) \cup running \cup ToSet(finished)
    /\ Out' = ToSet(pending') \cup running' \cup ToSet(finished')
BY DEF Out, Work!Outstanding, Work!ToSet, ToSet

LEMMA InUseFacts ==
    /\ InUse = Out \cup (IF cur = NoReq THEN {} ELSE {cur})
    /\ InUse' = Out' \cup (IF cur' = NoReq THEN {} ELSE {cur'})
    /\ InFlight = Out \cup Queued
    /\ InFlight' = Out' \cup Queued'
BY DEF InUse, InFlight, Out

LEMMA QueuedFacts ==
    /\ \A x : x \in Queued <=> \E f \in Files : x \in ToSet(work_queue[f])
    /\ \A x : x \in Queued' <=> \E f \in Files : x \in ToSet(work_queue'[f])
BY DEF Queued

(* Everything that is in use is a request, and not NoReq. *)
LEMMA InUseRequests ==
    ASSUME TypeOK
    PROVE  /\ InUse \subseteq Reqs /\ InFlight \subseteq Reqs /\ NoReq \notin Reqs
           /\ \A r \in Reqs : FileOf[r] \in Files
<1>1. ToSet(pending) \subseteq Reqs /\ ToSet(finished) \subseteq Reqs
  BY DEF TypeOK, ToSet
<1>2. \A f \in Files : ToSet(work_queue[f]) \subseteq Reqs
  BY DEF TypeOK, ToSet
<1>3. Out \subseteq Reqs /\ Queued \subseteq Reqs
  BY <1>1, <1>2, OutFacts, QueuedFacts DEF TypeOK
<1> QED
  BY <1>3, InUseFacts, FileAssumption DEF TypeOK

(* A set with one element less. *)
LEMMA CountDown ==
    ASSUME NEW S, IsFiniteSet(S), NEW x
    PROVE  /\ IsFiniteSet(S \ {x})
           /\ Cardinality(S \ {x}) = IF x \in S THEN Cardinality(S) - 1 ELSE Cardinality(S)
           /\ Cardinality(S \ {x}) \in Nat
<1>1. IsFiniteSet(S \ {x})
  BY FS_RemoveElement
<1> QED
  BY <1>1, FS_RemoveElement, FS_CardinalityType

-----------------------------------------------------------------------------
LEMMA OpenKeeps == ASSUME IInv, Open PROVE IInv'
<1> USE DEF IInv
<1> DEFINE new == {f \in Files : state[f] = "gone" /\ state'[f] = "open"}
<1>1. /\ OpenTypeOK' /\ Descriptors'
      /\ \A f \in Files : state'[f] = state[f] \/ f \in new
      /\ \A f \in Files : file'[f].fd = file[f].fd \/ file[f].fd = NoFd
      /\ \A f \in Files : state'[f] # "open" => file'[f].fd = file[f].fd
  BY OpenStepFacts DEF Open
<1>2. /\ work_queue' = [f \in Files |-> IF f \in new THEN <<>> ELSE work_queue[f]]
      /\ active_work' = [f \in Files |-> IF f \in new THEN 0 ELSE active_work[f]]
      /\ UNCHANGED <<pending, running, finished, active, closing_queue,
                     active_requests, active_handles, cur>>
  BY DEF Open, workVars
<1>3. \A f \in new : f \in Files /\ state[f] = "gone" /\ state'[f] = "open"
                     /\ work_queue[f] = <<>> /\ f \notin active
  BY DEF Handles
<1> HIDE DEF new
<1>4. work_queue' = work_queue
  BY <1>2, <1>3 DEF TypeOK
<1>5. UNCHANGED <<Out, InUse, InFlight, Queued, Closing>>
  BY <1>2, <1>4, OutFacts, InUseFacts DEF Queued, Closing
<1>6. TypeOK'
  BY <1>1, <1>2, <1>4 DEF TypeOK
<1>7. Handles'
  <2>1. \A f \in Files : state'[f] = "closing" <=> f \in Closing'
    BY <1>1, <1>3, <1>5 DEF Handles
  <2>2. \A f \in Files : state'[f] # "open"
           => file'[f].fd = NoFd /\ f \notin active' /\ work_queue'[f] = <<>>
    BY <1>1, <1>2, <1>3, <1>4 DEF Handles
  <2>3. \A f \in Files : active_work'[f] = IF f \in new THEN 0 ELSE active_work[f]
    BY <1>2
  <2>4. ASSUME NEW f \in Files, state'[f] = "open"
        PROVE  /\ f \in active' <=> active_work'[f] = 1
               /\ active_work'[f] = 1 => file'[f].fd # NoFd
    <3>1. CASE f \in new
      BY <1>2, <1>3, <2>3, <3>1
    <3>2. CASE f \notin new
      BY <1>1, <1>2, <2>3, <2>4, <3>2 DEF Handles
    <3> QED
      BY <3>1, <3>2
  <2> QED
    BY <1>2, <2>1, <2>2, <2>4 DEF Handles
<1>8. Places'
  BY <1>2, <1>4, <1>5 DEF Places
<1>9. Flow'
  <2>1. \A r \in InUse : FileOf[r] \in Files /\ FileOf[r] \notin new
    BY <1>3, InUseRequests, InUseFacts DEF Flow
  <2>2. \A r \in Out : r \in InUse
    BY InUseFacts
  <2>3. cur # NoReq => cur \in InUse
    BY InUseFacts
  <2>4. \A f \in Files : active_work'[f] = IF f \in new THEN 0 ELSE active_work[f]
    BY <1>2
  <2>5. \A r \in InUse' : active_work'[FileOf[r]] = 1 /\ state'[FileOf[r]] = state[FileOf[r]]
    BY <1>1, <1>5, <2>1, <2>4 DEF Flow
  <2>6. \A f \in Files : state'[f] = "open" /\ active_work'[f] = 1
           => \E r \in InUse' : FileOf[r] = f
    BY <1>1, <1>5, <2>4 DEF Flow
  <2>7. \A f \in Files : active_work'[f] = 0 => work_queue'[f] = <<>>
    BY <1>3, <1>4, <2>4 DEF Flow
  <2> QED
    BY <1>2, <1>5, <2>2, <2>3, <2>5, <2>6, <2>7 DEF Flow
<1> QED
  BY <1>1, <1>6, <1>7, <1>8, <1>9

LEMMA OpKeeps == ASSUME IInv, NEW r \in Reqs, apc_file_op(r) PROVE IInv'
<1> USE DEF IInv
<1> DEFINE f == FileOf[r]
<1>1. f \in Files /\ state[f] = "open" /\ file[f].fd # NoFd /\ r \notin InFlight
  BY InUseRequests DEF apc_file_op, IsOpen
<1>2. /\ active' = active \cup {f}
      /\ active_handles' = IF f \in active THEN active_handles ELSE active_handles + 1
      /\ active_requests' = active_requests + 1
      /\ active_work' = [active_work EXCEPT ![f] = 1]
      /\ UNCHANGED <<state, file, exists, open, closing_queue, cur>>
  BY DEF apc_file_op, Register, openVars
<1>3. \/ /\ active_work[f] = 0 /\ pending' = Append(pending, r)
         /\ UNCHANGED <<running, finished, work_queue>>
      \/ /\ active_work[f] = 1
         /\ work_queue' = [work_queue EXCEPT ![f] = Append(@, r)]
         /\ UNCHANGED <<pending, running, finished>>
  BY <1>1 DEF apc_file_op, Work!Submit, workVars, TypeOK
<1>4. r \notin Out /\ r \notin Queued /\ cur \notin Out
  BY <1>1, InUseFacts DEF Places
<1> HIDE DEF f
<1>5. Descriptors'
  BY <1>2 DEF Descriptors
<1>6. /\ IsFiniteSet(active') /\ active_handles' = Cardinality(active') /\ active_handles' \in Nat
      /\ active' \subseteq Files
  BY <1>1, <1>2, FS_AddElement, FS_CardinalityType DEF Handles, TypeOK
<1>7. CASE /\ active_work[f] = 0 /\ pending' = Append(pending, r)
           /\ UNCHANGED <<running, finished, work_queue>>
  <2>1. /\ pending' \in Seq(Reqs) /\ ToSet(pending') = ToSet(pending) \cup {r}
        /\ IsInjective(pending')
    BY <1>4, <1>7, AppendFacts, OutFacts DEF Places, TypeOK
  <2>2. Out' = Out \cup {r} /\ Queued' = Queued
    BY <1>7, <2>1, OutFacts DEF Queued
  <2>3. InFlight' = InFlight \cup {r} /\ InUse' = InUse \cup {r}
    BY <1>2, <2>2, InUseFacts
  <2>4. IsFiniteSet(InFlight') /\ active_requests' = Cardinality(InFlight')
        /\ active_requests' \in Nat
    BY <1>1, <1>2, <2>3, FS_AddElement, FS_CardinalityType DEF Places
  <2>5. TypeOK'
    BY <1>1, <1>2, <1>6, <1>7, <2>1, <2>4 DEF TypeOK, OpenTypeOK
  <2>6. Handles'
    BY <1>1, <1>2, <1>6, <1>7 DEF Handles, Closing, TypeOK
  <2>7. Places'
    <3>1. \A g \in Files : \A s \in ToSet(work_queue[g]) : s # r
      BY <1>4, QueuedFacts
    <3>2. r # cur
      BY <1>7, InUseFacts, InUseRequests DEF Flow, f
    <3>3. r \notin running /\ r \notin ToSet(finished)
      BY <1>4, OutFacts
    <3>4. \A g \in Files : \A s \in ToSet(work_queue'[g]) : FileOf[s] = g /\ s \notin Out'
      BY <1>7, <2>2, <3>1 DEF Places
    <3>5. \A g \in Files : IsInjective(work_queue'[g])
      BY <1>7 DEF Places
    <3>6. cur' \notin Out'
      BY <1>2, <1>4, <2>2, <3>2
    <3> QED
      BY <1>7, <2>1, <2>4, <3>3, <3>4, <3>5, <3>6 DEF Places
  <2>8. Flow'
    <3>1. \A s \in InUse : FileOf[s] # f
      BY <1>7 DEF Flow
    <3>2. work_queue'[f] = <<>> /\ \A g \in Files : active_work'[g] = 0 => active_work[g] = 0
      BY <1>1, <1>2, <1>7 DEF Flow, TypeOK
    <3>3. \A s, u \in InUse' : FileOf[s] = FileOf[u] => s = u
      BY <2>3, <3>1 DEF Flow, f
    <3>4. \A s \in InUse' : active_work'[FileOf[s]] = 1
      BY <1>1, <1>2, <2>3, InUseRequests DEF Flow, f, TypeOK
    <3>5. \A s \in Out' : state'[FileOf[s]] = "open"
      BY <1>1, <1>2, <2>2 DEF Flow, f
    <3>6. \A g \in Files : state'[g] = "open" /\ active_work'[g] = 1
             => \E s \in InUse' : FileOf[s] = g
      BY <1>1, <1>2, <2>3 DEF Flow, f, TypeOK
    <3>7. \A g \in Files : active_work'[g] = 0 => work_queue'[g] = <<>>
      BY <1>7, <3>2 DEF Flow
    <3> QED
      BY <1>2, <3>3, <3>4, <3>5, <3>6, <3>7 DEF Flow
  <2> QED
    BY <1>5, <2>5, <2>6, <2>7, <2>8
<1>8. CASE /\ active_work[f] = 1
           /\ work_queue' = [work_queue EXCEPT ![f] = Append(@, r)]
           /\ UNCHANGED <<pending, running, finished>>
  <2>1. /\ work_queue' \in [Files -> Seq(Reqs)]
        /\ \A g \in Files : g # f => work_queue'[g] = work_queue[g]
        /\ ToSet(work_queue'[f]) = ToSet(work_queue[f]) \cup {r}
        /\ IsInjective(work_queue'[f])
    <3>1. work_queue[f] \in Seq(Reqs) /\ work_queue'[f] = Append(work_queue[f], r)
      BY <1>1, <1>8 DEF TypeOK
    <3>2. r \notin ToSet(work_queue[f])
      BY <1>1, <1>4, QueuedFacts
    <3>3. /\ Append(work_queue[f], r) \in Seq(Reqs)
          /\ ToSet(Append(work_queue[f], r)) = ToSet(work_queue[f]) \cup {r}
          /\ IsInjective(Append(work_queue[f], r))
      BY <1>1, <3>1, <3>2, AppendFacts DEF Places
    <3> QED
      BY <1>1, <1>8, <3>1, <3>3 DEF TypeOK
  <2>2. Out' = Out /\ \A x : x \in Queued' <=> x \in Queued \/ x = r
    BY <1>1, <1>8, <2>1, OutFacts, QueuedFacts
  <2>3. InFlight' = InFlight \cup {r} /\ InUse' = InUse
    BY <1>2, <2>2, InUseFacts
  <2>4. IsFiniteSet(InFlight') /\ active_requests' = Cardinality(InFlight')
        /\ active_requests' \in Nat
    BY <1>1, <1>2, <2>3, FS_AddElement, FS_CardinalityType DEF Places
  <2>5. active_work' = active_work
    BY <1>2, <1>8 DEF TypeOK
  <2>6. TypeOK'
    BY <1>1, <1>2, <1>6, <1>8, <2>1, <2>4, <2>5 DEF TypeOK, OpenTypeOK
  <2>7. Handles'
    BY <1>1, <1>2, <1>6, <1>8, <2>1, <2>5 DEF Handles, Closing
  <2>8. Places'
    BY <1>1, <1>2, <1>4, <1>8, <2>1, <2>2, <2>4, OutFacts DEF Places, f
  <2>9. Flow'
    BY <1>1, <1>2, <1>8, <2>1, <2>2, <2>3, <2>5 DEF Flow
  <2> QED
    BY <1>5, <2>6, <2>7, <2>8, <2>9
<1> QED
  BY <1>3, <1>7, <1>8

LEMMA CloseKeeps ==
    ASSUME IInv, "close_busy" \notin Allows, NEW f \in Files, apc_close(f)
    PROVE  IInv'
<1> USE DEF IInv
<1>1. /\ state[f] = "open" /\ Idle(f)
      /\ state' = [state EXCEPT ![f] = "closing"]
      /\ file' = [file EXCEPT ![f] = NewFile] /\ open' = open \ {file[f].fd}
      /\ closing_queue' = Append(closing_queue, f)
      /\ active' = active \ {f}
      /\ active_handles' = IF f \in active THEN active_handles - 1 ELSE active_handles
      /\ UNCHANGED <<exists, pending, running, finished, active_work, active_requests, cur>>
  BY DEF apc_close, apc_file_close, Deregister, workVars
<1>2. work_queue' = work_queue
  BY <1>1 DEF apc_close, Idle, TypeOK
<1>3. \A r \in Out : FileOf[r] # f
  <2> SUFFICES ASSUME NEW r \in Out, FileOf[r] = f PROVE FALSE
    OBVIOUS
  <2>1. r \in InUse /\ cur \notin Out
    BY InUseFacts DEF Places
  <2>2. active_work[f] = 1
    BY <2>1 DEF Flow
  <2>3. cur # NoReq /\ FileOf[cur] = f
    BY <1>1, <2>2 DEF Idle
  <2>4. cur \in InUse
    BY <2>3, InUseFacts
  <2> QED
    BY <2>1, <2>3, <2>4 DEF Flow
<1>4. NewFile.fd = NoFd /\ NewFile \in FileType
  BY DEF NewFile, FileType
<1>5. /\ \A g \in Files : g # f => file'[g] = file[g] /\ state'[g] = state[g]
      /\ file'[f] = NewFile /\ state'[f] = "closing"
      /\ file' \in [Files -> FileType]
      /\ state' \in [Files -> {"open", "closing", "gone"}]
  BY <1>1, <1>4 DEF TypeOK, OpenTypeOK, FileType
<1>6. UNCHANGED <<Out, Queued, InUse, InFlight>>
  BY <1>1, <1>2, OutFacts, InUseFacts DEF Queued
<1>7. /\ closing_queue' \in Seq(Files) /\ Closing' = Closing \cup {f}
      /\ IsInjective(closing_queue')
  BY <1>1, AppendFacts DEF Handles, Closing, TypeOK
<1>8. /\ active' \subseteq Files /\ IsFiniteSet(active')
      /\ active_handles' = Cardinality(active') /\ active_handles' \in Nat
  <2>1. IsFiniteSet(active) /\ active_handles = Cardinality(active) /\ active \subseteq Files
    BY DEF Handles, TypeOK
  <2>2. /\ IsFiniteSet(active \ {f}) /\ Cardinality(active \ {f}) \in Nat
        /\ Cardinality(active \ {f})
              = IF f \in active THEN Cardinality(active) - 1 ELSE Cardinality(active)
    BY <2>1, CountDown
  <2> QED
    BY <1>1, <2>1, <2>2
<1>9. TypeOK'
  BY <1>1, <1>2, <1>5, <1>7, <1>8 DEF TypeOK, OpenTypeOK, FileType
<1>10. Descriptors'
  <2>1. \A g \in Files : file'[g].fd = IF g = f THEN NoFd ELSE file[g].fd
    BY <1>4, <1>5
  <2> QED
    BY <1>1, <2>1 DEF Descriptors
<1>11. Handles'
  <2>1. work_queue[f] = <<>>
    BY <1>1 DEF Idle
  <2>2. \A g \in Files : state'[g] # "open"
           => file'[g].fd = NoFd /\ g \notin active' /\ work_queue'[g] = <<>>
    BY <1>1, <1>2, <1>4, <1>5, <2>1 DEF Handles
  <2>3. \A g \in Files : state'[g] = "open"
          => /\ g \in active' <=> active_work'[g] = 1
             /\ active_work'[g] = 1 => file'[g].fd # NoFd
    BY <1>1, <1>5 DEF Handles
  <2>4. \A g \in Files : state'[g] = "closing" <=> g \in Closing'
    BY <1>5, <1>7 DEF Handles
  <2> QED
    BY <1>7, <1>8, <2>2, <2>3, <2>4 DEF Handles
<1>12. Places'
  BY <1>1, <1>2, <1>6 DEF Places
<1>13. Flow'
  BY <1>1, <1>2, <1>3, <1>5, <1>6 DEF Flow
<1> QED
  BY <1>9, <1>10, <1>11, <1>12, <1>13

LEMMA WorkerKeeps == ASSUME IInv, Worker PROVE IInv'
<1> USE DEF IInv
<1>1. UNCHANGED <<state, file, exists, open, work_queue, active_work, active,
                  closing_queue, active_requests, active_handles, cur>>
  BY DEF Worker, openVars
<1>2. /\ pending' \in Seq(Reqs) /\ running' \subseteq Reqs /\ finished' \in Seq(Reqs)
      /\ Out' = Out
      /\ IsInjective(pending') /\ IsInjective(finished')
      /\ ToSet(pending') \cap running' = {}
      /\ ToSet(pending') \cap ToSet(finished') = {}
      /\ running' \cap ToSet(finished') = {}
  <2>1. CASE Work!Start
    <3>1. /\ pending # <<>> /\ running' = running \cup {Head(pending)}
          /\ pending' = Tail(pending) /\ finished' = finished
      BY <2>1 DEF Work!Start
    <3>2. /\ pending' \in Seq(Reqs) /\ Head(pending) \in Reqs
          /\ ToSet(pending) = ToSet(pending') \cup {Head(pending)}
          /\ IsInjective(pending') /\ Head(pending) \notin ToSet(pending')
      BY <3>1, TailFacts DEF Places, TypeOK
    <3>3. Out' = Out
      BY <3>1, <3>2, OutFacts
    <3> QED
      BY <3>1, <3>2, <3>3 DEF Places, TypeOK
  <2>2. ASSUME NEW r \in Reqs, Work!Finish(r)
        PROVE  /\ pending' \in Seq(Reqs) /\ running' \subseteq Reqs /\ finished' \in Seq(Reqs)
               /\ Out' = Out
               /\ IsInjective(pending') /\ IsInjective(finished')
               /\ ToSet(pending') \cap running' = {}
               /\ ToSet(pending') \cap ToSet(finished') = {}
               /\ running' \cap ToSet(finished') = {}
    <3>1. /\ r \in running /\ running' = running \ {r}
          /\ finished' = Append(finished, r) /\ pending' = pending
      BY <2>2 DEF Work!Finish
    <3>2. /\ finished' \in Seq(Reqs) /\ ToSet(finished') = ToSet(finished) \cup {r}
          /\ IsInjective(finished')
      BY <3>1, AppendFacts DEF Places, TypeOK
    <3>3. Out' = Out
      BY <3>1, <3>2, OutFacts
    <3> QED
      BY <3>1, <3>2, <3>3 DEF Places, TypeOK
  <2> QED
    BY <2>1, <2>2 DEF Worker
<1>3. UNCHANGED <<Queued, InUse, InFlight, Closing>>
  BY <1>1, <1>2, InUseFacts DEF Queued, Closing
<1>4. TypeOK'
  BY <1>1, <1>2 DEF TypeOK, OpenTypeOK
<1>5. Descriptors' /\ Handles'
  BY <1>1, <1>3 DEF Descriptors, Handles
<1>6. Places'
  BY <1>1, <1>2, <1>3 DEF Places
<1>7. Flow'
  BY <1>1, <1>2, <1>3 DEF Flow
<1> QED
  BY <1>4, <1>5, <1>6, <1>7

LEMMA CallBackKeeps == ASSUME IInv, CallBack PROVE IInv'
<1> USE DEF IInv
<1> DEFINE r == Head(finished)
<1>1. /\ cur = NoReq /\ cur' = r /\ finished # <<>> /\ finished' = Tail(finished)
      /\ active_requests' = active_requests - 1
      /\ UNCHANGED <<pending, running, state, file, exists, open, work_queue,
                     active_work, active, closing_queue, active_handles>>
  BY DEF CallBack, Work!Deliver, openVars
<1>2. /\ finished' \in Seq(Reqs) /\ r \in Reqs
      /\ ToSet(finished) = ToSet(finished') \cup {r}
      /\ IsInjective(finished') /\ r \notin ToSet(finished')
  BY <1>1, TailFacts DEF Places, TypeOK
<1> HIDE DEF r
<1>3. /\ Out = Out' \cup {r} /\ r \notin Out' /\ Queued' = Queued /\ Closing' = Closing
  BY <1>1, <1>2, OutFacts DEF Places, Queued, Closing
<1>4. InUse' = InUse
  BY <1>1, <1>2, <1>3, InUseFacts, FileAssumption
<1>5. r \notin Queued
  BY <1>3, QueuedFacts DEF Places
<1>6. InFlight' = InFlight \ {r} /\ r \in InFlight
  BY <1>3, <1>5, InUseFacts
<1>7. /\ IsFiniteSet(InFlight') /\ active_requests' = Cardinality(InFlight')
      /\ active_requests' \in Nat
  BY <1>1, <1>6, CountDown DEF Places
<1>8. TypeOK'
  BY <1>1, <1>2, <1>7 DEF TypeOK, OpenTypeOK
<1>9. Descriptors' /\ Handles'
  BY <1>1, <1>3 DEF Descriptors, Handles
<1>10. Places'
  BY <1>1, <1>2, <1>3, <1>7 DEF Places
<1>11. Flow'
  BY <1>1, <1>3, <1>4 DEF Flow
<1> QED
  BY <1>8, <1>9, <1>10, <1>11

LEMMA AfterOpKeeps == ASSUME IInv, file_after_op PROVE IInv'
<1> USE DEF IInv
<1> DEFINE f == FileOf[cur]
<1>1. /\ cur # NoReq /\ cur' = NoReq /\ cur \in Reqs /\ f \in Files /\ cur \in InUse
      /\ UNCHANGED <<state, file, exists, open, closing_queue, active_requests>>
  BY FileAssumption, InUseFacts DEF file_after_op, openVars, TypeOK
<1>2. \/ /\ work_queue[f] # <<>>
         /\ pending' = Append(pending, Head(work_queue[f]))
         /\ work_queue' = [work_queue EXCEPT ![f] = Tail(@)]
         /\ UNCHANGED <<running, finished, active_work, active, active_handles>>
      \/ /\ work_queue[f] = <<>>
         /\ active_work' = [active_work EXCEPT ![f] = 0]
         /\ active' = active \ {f}
         /\ active_handles' = IF f \in active THEN active_handles - 1 ELSE active_handles
         /\ UNCHANGED <<pending, running, finished, work_queue>>
  BY DEF file_after_op, NextOp, Work!Submit, Deregister, workVars
<1>3. \A s \in Out : FileOf[s] # f /\ s \in InUse /\ s # cur
  BY <1>1, InUseFacts DEF Flow, Places
<1>4. Closing' = Closing /\ Descriptors'
  BY <1>1 DEF Closing, Descriptors
<1> HIDE DEF f
<1>5. CASE /\ work_queue[f] # <<>>
           /\ pending' = Append(pending, Head(work_queue[f]))
           /\ work_queue' = [work_queue EXCEPT ![f] = Tail(@)]
           /\ UNCHANGED <<running, finished, active_work, active, active_handles>>
  <2> DEFINE r == Head(work_queue[f])
  <2>1. /\ work_queue[f] \in Seq(Reqs) /\ work_queue'[f] = Tail(work_queue[f])
        /\ \A g \in Files : g # f => work_queue'[g] = work_queue[g]
    BY <1>1, <1>5 DEF TypeOK
  <2>2. /\ work_queue'[f] \in Seq(Reqs) /\ r \in Reqs
        /\ ToSet(work_queue[f]) = ToSet(work_queue'[f]) \cup {r}
        /\ IsInjective(work_queue'[f]) /\ r \notin ToSet(work_queue'[f])
    BY <1>1, <1>5, <2>1, TailFacts DEF Places
  <2>3. FileOf[r] = f /\ r \notin Out /\ r \in Queued /\ state[f] = "open"
        /\ active_work[f] = 1
    <3>1. r \in ToSet(work_queue[f])
      BY <2>2
    <3>2. state[f] = "open" /\ active_work[f] = 1
      BY <1>1, <1>5 DEF Handles, Flow, f
    <3> QED
      BY <1>1, <3>1, <3>2, QueuedFacts DEF Places
  <2>4. pending' = Append(pending, r)
    BY <1>5
  <2> HIDE DEF r
  <2>5. /\ pending' \in Seq(Reqs) /\ ToSet(pending') = ToSet(pending) \cup {r}
        /\ IsInjective(pending')
    BY <2>2, <2>3, <2>4, AppendFacts, OutFacts DEF Places, TypeOK
  <2>6. Out' = Out \cup {r}
    BY <1>5, <2>5, OutFacts
  <2>7. \A g \in Files : g # f => r \notin ToSet(work_queue[g])
    BY <2>3 DEF Places
  <2>8. \A x : x \in Queued <=> x \in Queued' \/ x = r
    BY <1>1, <2>1, <2>2, <2>3, QueuedFacts
  <2>9. InFlight' = InFlight
    BY <2>6, <2>8, InUseFacts
  <2>10. InUse' = Out \cup {r}
    BY <1>1, <2>6, InUseFacts
  <2>11. TypeOK'
    <3>1. work_queue' \in [Files -> Seq(Reqs)]
      BY <1>5, <2>1, <2>2 DEF TypeOK
    <3> QED
      BY <1>1, <1>5, <2>5, <3>1 DEF TypeOK, OpenTypeOK
  <2>12. Handles'
    <3>1. \A g \in Files : state'[g] # "open" => work_queue'[g] = <<>>
      BY <1>1, <2>1, <2>3 DEF Handles
    <3> QED
      BY <1>1, <1>4, <1>5, <3>1 DEF Handles
  <2>13. Places'
    <3>1. r \notin running /\ r \notin ToSet(finished)
      BY <2>3, OutFacts
    <3>2. \A g \in Files : \A s \in ToSet(work_queue'[g]) : FileOf[s] = g /\ s \notin Out'
      BY <2>1, <2>2, <2>6, <2>7 DEF Places
    <3>3. \A g \in Files : IsInjective(work_queue'[g])
      BY <2>1, <2>2 DEF Places
    <3>4. cur' \notin Out'
      BY <1>1, <2>2, <2>6, OutFacts, InUseFacts, InUseRequests
    <3> QED
      BY <1>1, <1>5, <2>5, <2>9, <3>1, <3>2, <3>3, <3>4 DEF Places
  <2>14. Flow'
    <3>1. \A s, u \in InUse' : FileOf[s] = FileOf[u] => s = u
      BY <1>3, <2>3, <2>10 DEF Flow
    <3>2. \A s \in InUse' : active_work'[FileOf[s]] = 1 /\ state'[FileOf[s]] = "open"
      BY <1>1, <1>3, <1>5, <2>3, <2>10 DEF Flow
    <3>3. \A g \in Files : state'[g] = "open" /\ active_work'[g] = 1
             => \E s \in InUse' : FileOf[s] = g
      <4> SUFFICES ASSUME NEW g \in Files, state'[g] = "open", active_work'[g] = 1
                   PROVE  \E s \in InUse' : FileOf[s] = g
        OBVIOUS
      <4>1. CASE g = f
        BY <2>3, <2>10, <4>1
      <4>2. CASE g # f
        <5>1. PICK s \in InUse : FileOf[s] = g
          BY <1>1, <1>5 DEF Flow
        <5>2. s \in Out
          BY <4>2, <5>1, InUseFacts DEF f
        <5> QED
          BY <2>10, <5>1, <5>2
      <4> QED
        BY <4>1, <4>2
    <3>4. \A g \in Files : active_work'[g] = 0 => work_queue'[g] = <<>>
      BY <1>5, <2>1, <2>3 DEF Flow
    <3> QED
      BY <1>1, <2>6, <2>10, <3>1, <3>2, <3>3, <3>4 DEF Flow
  <2> QED
    BY <1>4, <2>11, <2>12, <2>13, <2>14
<1>6. CASE /\ work_queue[f] = <<>>
           /\ active_work' = [active_work EXCEPT ![f] = 0]
           /\ active' = active \ {f}
           /\ active_handles' = IF f \in active THEN active_handles - 1 ELSE active_handles
           /\ UNCHANGED <<pending, running, finished, work_queue>>
  <2>1. Out' = Out /\ Queued' = Queued /\ InUse' = Out /\ InFlight' = InFlight
    BY <1>1, <1>6, OutFacts, InUseFacts DEF Queued
  <2>2. \A g \in Files : active_work'[g] = IF g = f THEN 0 ELSE active_work[g]
    BY <1>6 DEF TypeOK
  <2>3. /\ active' \subseteq Files /\ IsFiniteSet(active')
        /\ active_handles' = Cardinality(active') /\ active_handles' \in Nat
    <3>1. IsFiniteSet(active) /\ active_handles = Cardinality(active) /\ active \subseteq Files
      BY DEF Handles, TypeOK
    <3>2. /\ IsFiniteSet(active \ {f}) /\ Cardinality(active \ {f}) \in Nat
          /\ Cardinality(active \ {f})
                = IF f \in active THEN Cardinality(active) - 1 ELSE Cardinality(active)
      BY <3>1, CountDown
    <3> QED
      BY <1>6, <3>1, <3>2
  <2>4. TypeOK'
    BY <1>1, <1>6, <2>3 DEF TypeOK, OpenTypeOK
  <2>5. Handles'
    BY <1>1, <1>4, <1>6, <2>2, <2>3 DEF Handles
  <2>6. Places'
    <3>1. NoReq \notin Out
      BY InUseFacts, InUseRequests
    <3> QED
      BY <1>1, <1>6, <2>1, <3>1 DEF Places
  <2>7. Flow'
    <3>1. \A s \in Out : FileOf[s] \in Files
      BY InUseFacts, InUseRequests
    <3>2. \A g \in Files : state'[g] = "open" /\ active_work'[g] = 1
             => \E s \in InUse' : FileOf[s] = g
      <4> SUFFICES ASSUME NEW g \in Files, state'[g] = "open", active_work'[g] = 1
                   PROVE  \E s \in InUse' : FileOf[s] = g
        OBVIOUS
      <4>1. g # f /\ state[g] = "open" /\ active_work[g] = 1
        BY <1>1, <2>2
      <4>2. PICK s \in InUse : FileOf[s] = g
        BY <4>1 DEF Flow
      <4>3. s \in Out
        BY <4>1, <4>2, InUseFacts DEF f
      <4> QED
        BY <2>1, <4>2, <4>3
    <3>3. \A s \in InUse' : active_work'[FileOf[s]] = 1 /\ state'[FileOf[s]] = "open"
      BY <1>1, <1>3, <2>1, <2>2, <3>1 DEF Flow
    <3>4. \A s, u \in InUse' : FileOf[s] = FileOf[u] => s = u
      BY <1>3, <2>1 DEF Flow
    <3>5. \A g \in Files : active_work'[g] = 0 => work_queue'[g] = <<>>
      BY <1>6, <2>2 DEF Flow
    <3> QED
      BY <1>1, <2>1, <3>2, <3>3, <3>4, <3>5 DEF Flow
  <2> QED
    BY <1>4, <2>4, <2>5, <2>6, <2>7
<1> QED
  BY <1>2, <1>5, <1>6

LEMMA ClosingKeeps == ASSUME IInv, RunClosing PROVE IInv'
<1> USE DEF IInv
<1> DEFINE f == Head(closing_queue)
<1>1. /\ cur = NoReq /\ closing_queue # <<>> /\ closing_queue' = Tail(closing_queue)
      /\ state' = [state EXCEPT ![f] = "gone"]
      /\ UNCHANGED <<file, exists, open, pending, running, finished, work_queue,
                     active_work, active, active_requests, active_handles, cur>>
  BY DEF RunClosing, workVars
<1>2. /\ closing_queue' \in Seq(Files) /\ f \in Files
      /\ Closing = Closing' \cup {f}
      /\ IsInjective(closing_queue') /\ f \notin Closing'
  BY <1>1, TailFacts DEF Handles, Closing, TypeOK
<1> HIDE DEF f
<1>3. state[f] = "closing"
  BY <1>2 DEF Handles
<1>4. \A g \in Files : state'[g] = IF g = f THEN "gone" ELSE state[g]
  BY <1>1 DEF TypeOK, OpenTypeOK
<1>5. UNCHANGED <<Out, Queued, InUse, InFlight>>
  BY <1>1, OutFacts, InUseFacts DEF Queued
<1>6. TypeOK'
  BY <1>1, <1>2 DEF TypeOK, OpenTypeOK
<1>7. Descriptors'
  BY <1>1 DEF Descriptors
<1>8. Handles'
  <2>1. \A g \in Files : state'[g] = "closing" <=> g \in Closing'
    BY <1>2, <1>4 DEF Handles
  <2> QED
    BY <1>1, <1>2, <1>3, <1>4, <2>1 DEF Handles
<1>9. Places'
  BY <1>1, <1>5 DEF Places
<1>10. Flow'
  <2>1. \A r \in Out : FileOf[r] # f /\ FileOf[r] \in Files
    BY <1>3, InUseFacts, InUseRequests DEF Flow
  <2> QED
    BY <1>1, <1>3, <1>4, <1>5, <2>1 DEF Flow
<1> QED
  BY <1>6, <1>7, <1>8, <1>9, <1>10

LEMMA IInvStep ==
    ASSUME "close_busy" \notin Allows, IInv, [Next]_vars
    PROVE  IInv'
<1>1. CASE Open
  BY <1>1, OpenKeeps
<1>2. CASE \E f \in Files : apc_close(f)
  BY <1>2, CloseKeeps
<1>3. CASE \E r \in Reqs : apc_file_op(r)
  BY <1>3, OpKeeps
<1>4. CASE Worker
  BY <1>4, WorkerKeeps
<1>5. CASE CallBack
  BY <1>5, CallBackKeeps
<1>6. CASE file_after_op
  BY <1>6, AfterOpKeeps
<1>7. CASE RunClosing
  BY <1>7, ClosingKeeps
<1>8. CASE UNCHANGED vars
  <2>1. UNCHANGED <<Out, Queued, InUse, InFlight, Closing>>
    BY <1>8, OutFacts, InUseFacts DEF vars, workVars, Queued, Closing
  <2>2. TypeOK' /\ Descriptors'
    BY <1>8 DEF vars, workVars, openVars, IInv, TypeOK, OpenTypeOK, Descriptors
  <2>3. Handles' /\ Places'
    BY <1>8, <2>1 DEF vars, workVars, openVars, IInv, Handles, Places
  <2>4. Flow'
    BY <1>8, <2>1 DEF vars, workVars, openVars, IInv, Flow
  <2> QED
    BY <2>2, <2>3, <2>4 DEF IInv
<1> QED
  BY <1>1, <1>2, <1>3, <1>4, <1>5, <1>6, <1>7, <1>8 DEF Next, User

-----------------------------------------------------------------------------
(* What the invariant says of the operations of one file. *)
Under(f) == {r \in Out : FileOf[r] = f}

LEMMA UnderFacts ==
    ASSUME IInv, NEW f \in Files
    PROVE  Under(f) = {} \/ \E r \in Reqs : Under(f) = {r} /\ FileOf[r] = f
<1>1. \A r \in Under(f) : r \in InUse /\ r \in Reqs /\ FileOf[r] = f
  BY InUseFacts, InUseRequests DEF Under, IInv
<1>2. \A r, s \in Under(f) : r = s
  BY <1>1 DEF IInv, Flow
<1> QED
  BY <1>1, <1>2

LEMMA OneAtATimeHolds == IInv => OneAtATime
<1> SUFFICES ASSUME IInv, NEW f \in Files
             PROVE  /\ Cardinality(InService(f)) <= 1
                    /\ state[f] = "open" => (active_work[f] = 1 <=> InService(f) # {})
                    /\ active_work[f] = 0 => work_queue[f] = <<>>
  BY DEF OneAtATime
<1> USE DEF IInv
<1>1. \A r, s \in InService(f) : r = s
  BY DEF InService, Flow
<1>2. Cardinality(InService(f)) <= 1
  <2>1. CASE InService(f) = {}
    BY <2>1, FS_EmptySet
  <2>2. CASE InService(f) # {}
    <3> DEFINE S == InService(f)
    <3>1. PICK r \in S : S = {r}
      BY <1>1, <2>2
    <3> HIDE DEF S
    <3>2. Cardinality(S) = 1
      BY <3>1, FS_Singleton
    <3> QED
      BY <3>2 DEF S
  <2> QED
    BY <2>1, <2>2
<1>3. state[f] = "open" => (active_work[f] = 1 <=> InService(f) # {})
  BY DEF InService, Flow
<1> QED
  BY <1>2, <1>3 DEF Flow

LEMMA DescriptorsHold == IInv => DescriptorsOwned
<1> SUFFICES ASSUME IInv PROVE DescriptorsOwned
  OBVIOUS
<1> USE DEF IInv
<1>1. open = {file[f].fd : f \in Files} \ {NoFd}
  BY DEF Descriptors
<1>2. ASSUME NEW r \in Work!Outstanding PROVE IsOpen(FileOf[r])
  <2>1. r \in Out /\ r \in InUse /\ FileOf[r] \in Files
    BY InUseFacts, InUseRequests DEF Out
  <2> QED
    BY <2>1 DEF Flow, Handles, IsOpen
<1> QED
  BY <1>1, <1>2 DEF Descriptors, DescriptorsOwned

-----------------------------------------------------------------------------
(* The refinement: the operations of a file that are not finished, in the  *)
(* order they were issued.                                                 *)
Todo == [f \in Files |-> SetToSeq(Under(f)) \o work_queue[f]]

LEMMA TodoFacts ==
    ASSUME IInv, NEW f \in Files
    PROVE  /\ Under(f) = {} => Todo[f] = work_queue[f]
           /\ \A r \in Reqs : Under(f) = {r} => Todo[f] = <<r>> \o work_queue[f]
           /\ Todo[f] \in Seq(Reqs)
           /\ ToSet(Todo[f]) = Under(f) \cup ToSet(work_queue[f])
<1> DEFINE q == work_queue[f]
<1>1. q \in Seq(Reqs)
  BY DEF IInv, TypeOK
<1>2. Todo[f] = SetToSeq(Under(f)) \o q
  BY DEF Todo
<1> HIDE DEF q
<1>3. CASE Under(f) = {}
  <2>1. Todo[f] = <<>> \o q
    BY <1>2, <1>3, SetToSeqFacts
  <2>2. Todo[f] = q
    BY <1>1, <2>1
  <2> QED
    BY <1>1, <1>3, <2>2 DEF q
<1>4. ASSUME NEW r \in Reqs, Under(f) = {r}
      PROVE  /\ Todo[f] = <<r>> \o q /\ Todo[f] \in Seq(Reqs)
             /\ ToSet(Todo[f]) = Under(f) \cup ToSet(q)
  <2>1. Todo[f] = <<r>> \o q
    BY <1>2, <1>4, SetToSeqFacts
  <2>2. <<r>> \o q \in Seq(Reqs)
    BY <1>1
  <2>3. ToSet(<<r>> \o q) = ToSet(q) \cup {r}
    BY <1>1, ConsToSet
  <2> QED
    BY <1>4, <2>1, <2>2, <2>3
<1> QED
  BY <1>3, <1>4, UnderFacts DEF q

LEMMA TodoSame ==
    ASSUME UNCHANGED <<Out, work_queue>>
    PROVE  Todo' = Todo
BY DEF Todo, Under

LEMMA IssueStep ==
    ASSUME IInv, IInv', NEW r \in Reqs, apc_file_op(r)
    PROVE  /\ r \notin ToSet(Todo[FileOf[r]])
           /\ Todo' = [Todo EXCEPT ![FileOf[r]] = Append(@, r)]
<1> DEFINE f == FileOf[r]
<1>1. /\ f \in Files /\ r \notin Out /\ r \notin Queued
  BY InUseRequests, InUseFacts DEF apc_file_op, IInv
<1>2. \/ /\ active_work[f] = 0 /\ pending' = Append(pending, r)
         /\ UNCHANGED <<running, finished, work_queue>>
      \/ /\ active_work[f] = 1
         /\ work_queue' = [work_queue EXCEPT ![f] = Append(@, r)]
         /\ UNCHANGED <<pending, running, finished>>
  BY <1>1 DEF apc_file_op, Work!Submit, workVars, IInv, TypeOK
<1>3. pending \in Seq(Reqs) /\ work_queue \in [Files -> Seq(Reqs)] /\ f = FileOf[r]
  BY DEF IInv, TypeOK
<1>4. r \notin ToSet(work_queue[f]) /\ r \notin Under(f)
  BY <1>1, QueuedFacts DEF Under
<1> HIDE DEF f
<1>5. r \notin ToSet(Todo[f])
  BY <1>1, <1>4, TodoFacts
<1>6. CASE /\ active_work[f] = 0 /\ pending' = Append(pending, r)
           /\ UNCHANGED <<running, finished, work_queue>>
  <2>1. Out' = Out \cup {r}
    BY <1>3, <1>6, AppendFacts, OutFacts
  <2>2. Under(f) = {} /\ work_queue[f] = <<>>
    BY <1>1, <1>6, InUseFacts DEF IInv, Flow, Under
  <2>3. \A g \in Files : Under(g)' = IF g = f THEN {r} ELSE Under(g)
    BY <1>3, <2>1, <2>2 DEF Under
  <2>4. \A g \in Files : Todo'[g] = SetToSeq(Under(g)') \o work_queue'[g]
    BY DEF Todo
  <2>5. Todo'[f] = <<r>>
    <3>1. Todo'[f] = SetToSeq({r}) \o <<>>
      BY <1>1, <1>6, <2>2, <2>3, <2>4
    <3>2. Todo'[f] = <<r>> \o <<>>
      BY <3>1, SetToSeqFacts
    <3> QED
      BY <3>2
  <2>6. Todo[f] = <<>>
    BY <1>1, <2>2, TodoFacts
  <2>7. \A g \in Files : g # f => Todo'[g] = Todo[g]
    BY <1>6, <2>3, <2>4 DEF Todo
  <2>8. Todo' = [Todo EXCEPT ![f] = Append(@, r)]
    <3>1. Todo'[f] = Append(Todo[f], r)
      BY <2>5, <2>6
    <3> QED
      BY <1>1, <2>7, <3>1 DEF Todo
  <2> QED
    BY <1>3, <1>5, <2>8
<1>7. CASE /\ active_work[f] = 1
           /\ work_queue' = [work_queue EXCEPT ![f] = Append(@, r)]
           /\ UNCHANGED <<pending, running, finished>>
  <2>1. Out' = Out /\ \A g \in Files : Under(g)' = Under(g)
    BY <1>7, OutFacts DEF Under
  <2> DEFINE q == work_queue[f]
  <2>2. work_queue'[f] = Append(q, r) /\ q \in Seq(Reqs)
    BY <1>1, <1>3, <1>7
  <2>3. \A g \in Files : Todo'[g] = SetToSeq(Under(g)) \o work_queue'[g]
    BY <2>1 DEF Todo
  <2>4. Todo'[f] = Append(Todo[f], r)
    <3> HIDE DEF q
    <3>1. CASE Under(f) = {}
      <4>1. Todo'[f] = <<>> \o Append(q, r)
        BY <1>1, <2>2, <2>3, <3>1, SetToSeqFacts
      <4>2. Todo[f] = q
        BY <1>1, <3>1, TodoFacts DEF q
      <4> QED
        BY <2>2, <4>1, <4>2
    <3>2. ASSUME NEW s \in Reqs, Under(f) = {s} PROVE Todo'[f] = Append(Todo[f], r)
      <4>1. Todo'[f] = <<s>> \o Append(q, r)
        BY <1>1, <2>2, <2>3, <3>2, SetToSeqFacts
      <4>2. Todo[f] = <<s>> \o q
        BY <1>1, <3>2, TodoFacts DEF q
      <4> QED
        BY <2>2, <4>1, <4>2, ConsFacts
    <3> QED
      BY <1>1, <3>1, <3>2, UnderFacts
  <2>5. \A g \in Files : g # f => Todo'[g] = Todo[g]
    BY <1>3, <1>7, <2>3 DEF Todo
  <2>6. Todo' = [Todo EXCEPT ![f] = Append(@, r)]
    BY <1>1, <2>4, <2>5 DEF Todo
  <2> QED
    BY <1>3, <1>5, <2>6
<1> QED
  BY <1>2, <1>6, <1>7

LEMMA CallBackStep ==
    ASSUME IInv, IInv', CallBack
    PROVE  \E f \in Files : Todo[f] # <<>> /\ Todo' = [Todo EXCEPT ![f] = Tail(@)]
<1> DEFINE r == Head(finished)
<1> DEFINE f == FileOf[r]
<1>1. /\ finished # <<>> /\ finished' = Tail(finished)
      /\ UNCHANGED <<pending, running, work_queue>>
  BY DEF CallBack, Work!Deliver
<1>2. /\ r \in Reqs
      /\ ToSet(finished) = ToSet(finished') \cup {r} /\ r \notin ToSet(finished')
  BY <1>1, TailFacts DEF IInv, Places, TypeOK
<1>3. f \in Files /\ f = FileOf[r]
  BY <1>2, FileAssumption
<1> HIDE DEF r, f
<1>4. Out = Out' \cup {r} /\ r \notin Out'
  BY <1>1, <1>2, OutFacts DEF IInv, Places
<1>5. Under(f) = {r}
  BY <1>3, <1>4, UnderFacts DEF Under
<1>6. \A g \in Files : Under(g)' = IF g = f THEN {} ELSE Under(g)
  BY <1>3, <1>4, <1>5 DEF Under
<1> DEFINE q == work_queue[f]
<1>7. q \in Seq(Reqs) /\ work_queue'[f] = q
  BY <1>1, <1>3 DEF IInv, TypeOK
<1>8. \A g \in Files : Todo'[g] = SetToSeq(Under(g)') \o work_queue'[g]
  BY DEF Todo
<1>9. Todo[f] = <<r>> \o q
  BY <1>2, <1>3, <1>5, TodoFacts
<1> HIDE DEF q
<1>10. Todo'[f] = q
  <2>1. Todo'[f] = SetToSeq({}) \o q
    BY <1>3, <1>6, <1>7, <1>8
  <2>2. Todo'[f] = <<>> \o q
    BY <2>1, SetToSeqFacts
  <2> QED
    BY <1>7, <2>2
<1>11. Todo[f] # <<>> /\ Tail(Todo[f]) = q
  BY <1>2, <1>7, <1>9, ConsFacts
<1>12. \A g \in Files : g # f => Todo'[g] = Todo[g]
  BY <1>1, <1>6, <1>8 DEF Todo
<1>13. Todo' = [Todo EXCEPT ![f] = Tail(@)]
  BY <1>3, <1>10, <1>11, <1>12 DEF Todo
<1> QED
  BY <1>3, <1>11, <1>13

LEMMA AfterOpStep ==
    ASSUME IInv, IInv', file_after_op
    PROVE  Todo' = Todo
<1> DEFINE f == FileOf[cur]
<1>1. f \in Files /\ cur \in InUse /\ f = FileOf[cur]
  BY FileAssumption, InUseFacts DEF file_after_op, IInv, TypeOK
<1>2. \/ /\ work_queue[f] # <<>>
         /\ pending' = Append(pending, Head(work_queue[f]))
         /\ work_queue' = [work_queue EXCEPT ![f] = Tail(@)]
         /\ UNCHANGED <<running, finished>>
      \/ UNCHANGED <<pending, running, finished, work_queue>>
  BY DEF file_after_op, NextOp, Work!Submit, workVars
<1> HIDE DEF f
<1>3. CASE UNCHANGED <<pending, running, finished, work_queue>>
  BY <1>3, OutFacts, TodoSame
<1>4. CASE /\ work_queue[f] # <<>>
           /\ pending' = Append(pending, Head(work_queue[f]))
           /\ work_queue' = [work_queue EXCEPT ![f] = Tail(@)]
           /\ UNCHANGED <<running, finished>>
  <2> DEFINE q == work_queue[f]
  <2> DEFINE r == Head(q)
  <2>1. q \in Seq(Reqs) /\ q # <<>> /\ work_queue'[f] = Tail(q) /\ pending' = Append(pending, r)
    BY <1>1, <1>4 DEF IInv, TypeOK
  <2>2. r \in Reqs /\ r \in ToSet(q)
    BY <2>1, TailFacts
  <2>3. FileOf[r] = f
    BY <1>1, <2>2 DEF IInv, Places
  <2>4. Under(f) = {}
    BY <1>1, InUseFacts DEF IInv, Flow, Places, Under
  <2> HIDE DEF r
  <2>5. Out' = Out \cup {r}
    BY <1>4, <2>1, <2>2, AppendFacts, OutFacts DEF IInv, TypeOK
  <2>6. \A g \in Files : Under(g)' = IF g = f THEN {r} ELSE Under(g)
    BY <2>3, <2>4, <2>5 DEF Under
  <2>7. \A g \in Files : Todo'[g] = SetToSeq(Under(g)') \o work_queue'[g]
    BY DEF Todo
  <2>8. Todo[f] = q
    BY <1>1, <2>4, TodoFacts
  <2> HIDE DEF q
  <2>9. Todo'[f] = <<r>> \o Tail(q)
    BY <1>1, <2>1, <2>6, <2>7, SetToSeqFacts
  <2>10. <<r>> \o Tail(q) = q
    BY <2>1, <2>2, ConsFacts DEF r
  <2>11. \A g \in Files : g # f => Todo'[g] = Todo[g]
    BY <1>4, <2>6, <2>7 DEF IInv, TypeOK, Todo
  <2>12. \A g \in Files : Todo'[g] = Todo[g]
    BY <2>8, <2>9, <2>10, <2>11
  <2> QED
    BY <2>12 DEF Todo
<1> QED
  BY <1>2, <1>3, <1>4

LEMMA ServiceStep ==
    ASSUME "close_busy" \notin Allows, IInv, IInv', [Next]_vars
    PROVE  [Promise!Next]_(Promise!vars)
<1>1. ASSUME Todo' = Todo PROVE [Promise!Next]_(Promise!vars)
  BY <1>1 DEF Promise!vars, Todo, Under, Out
<1>2. CASE Open
  <2>1. \A f \in Files : state[f] = "gone" => work_queue[f] = <<>>
    BY DEF IInv, Handles
  <2>2. work_queue' = work_queue
    BY <1>2, <2>1 DEF Open, IInv, TypeOK
  <2>3. Out' = Out
    BY <1>2, OutFacts DEF Open, workVars
  <2> QED
    BY <1>1, <2>2, <2>3, TodoSame
<1>3. ASSUME NEW f \in Files, apc_close(f) PROVE [Promise!Next]_(Promise!vars)
  <2>1. work_queue' = work_queue
    BY <1>3 DEF apc_close, Idle, IInv, TypeOK
  <2>2. Out' = Out
    BY <1>3, OutFacts DEF apc_close, workVars
  <2> QED
    BY <1>1, <2>1, <2>2, TodoSame
<1>4. ASSUME NEW r \in Reqs, apc_file_op(r) PROVE Promise!Next
  <2>1. Promise!Issue(r)
    <3>1. /\ r \notin ToSet(Todo[FileOf[r]])
          /\ Todo' = [Todo EXCEPT ![FileOf[r]] = Append(@, r)]
      BY <1>4, IssueStep
    <3> QED
      BY <3>1 DEF Promise!Issue, Promise!ToSet, ToSet, Todo, Under, Out
  <2> QED
    BY <2>1 DEF Promise!Next
<1>5. CASE Worker
  <2>1. UNCHANGED work_queue
    BY <1>5 DEF Worker
  <2>2. Out' = Out
    <3>1. CASE Work!Start
      <4>1. /\ pending # <<>> /\ running' = running \cup {Head(pending)}
            /\ pending' = Tail(pending) /\ finished' = finished
        BY <3>1 DEF Work!Start
      <4>2. ToSet(pending) = ToSet(pending') \cup {Head(pending)}
        BY <4>1, TailFacts DEF IInv, TypeOK
      <4> QED
        BY <4>1, <4>2, OutFacts
    <3>2. ASSUME NEW r \in Reqs, Work!Finish(r) PROVE Out' = Out
      <4>1. /\ r \in running /\ running' = running \ {r}
            /\ finished' = Append(finished, r) /\ pending' = pending
        BY <3>2 DEF Work!Finish
      <4>2. ToSet(finished') = ToSet(finished) \cup {r}
        BY <4>1, AppendFacts DEF IInv, TypeOK
      <4> QED
        BY <4>1, <4>2, OutFacts
    <3> QED
      BY <1>5, <3>1, <3>2 DEF Worker
  <2> QED
    BY <1>1, <2>1, <2>2, TodoSame
<1>6. CASE CallBack
  <2>1. PICK f \in Files : Todo[f] # <<>> /\ Todo' = [Todo EXCEPT ![f] = Tail(@)]
    BY <1>6, CallBackStep
  <2>2. Promise!CallBack(f)
    BY <2>1 DEF Promise!CallBack, Todo, Under, Out
  <2> QED
    BY <2>2 DEF Promise!Next
<1>7. CASE file_after_op
  BY <1>1, <1>7, AfterOpStep
<1>8. CASE RunClosing \/ UNCHANGED vars
  <2>1. UNCHANGED <<pending, running, finished, work_queue>>
    BY <1>8 DEF RunClosing, vars, workVars
  <2> QED
    BY <1>1, <2>1, OutFacts, TodoSame
<1> QED
  BY <1>2, <1>3, <1>4, <1>5, <1>6, <1>7, <1>8 DEF Next, User

-----------------------------------------------------------------------------
(* Users who let the operations of a file come to an end before they close *)
(* it, or close it in the callback of the last one.                        *)
Patient == "close_busy" \notin Allows

THEOREM Inductive == ASSUME Patient PROVE Spec => []IInv
<1>1. IInv /\ [Next]_vars => IInv'
  BY IInvStep DEF Patient
<1> QED
  BY <1>1, IInvInit, PTL DEF Spec

(* The variables have their types, for every number of files and requests. *)
THEOREM TypeCorrect == ASSUME Patient PROVE Spec => []TypeOK
<1>1. IInv => TypeOK
  BY DEF IInv
<1> QED
  BY <1>1, Inductive, PTL

(* No two operations of a file are with the pool at once, and active_work  *)
(* says whether there is one (fs.c, file_after_op).                        *)
THEOREM OneOwner == ASSUME Patient PROVE Spec => []OneAtATime
BY OneAtATimeHolds, Inductive, PTL

(* active_requests and active_handles count what is under way, each once.  *)
THEOREM CountsAgree == ASSUME Patient PROVE Spec => []Counted
<1>1. IInv => Counted
  BY DEF IInv, Counted, Places, Handles
<1> QED
  BY <1>1, Inductive, PTL

(* Every open descriptor has one file, and an operation that is with the   *)
(* pool finds it open (fs.c, apc_file_open, apc_file_close).               *)
THEOREM DescriptorsKept == ASSUME Patient PROVE Spec => []DescriptorsOwned
BY DescriptorsHold, Inductive, PTL

(* The operations of a file are called back in the order they were issued, *)
(* each once.                                                              *)
THEOREM FileServiceImplemented == ASSUME Patient PROVE Spec => ImplementsFileService
<1>1. Init => Promise!Init
  <2> SUFFICES ASSUME Init PROVE Promise!Init
    OBVIOUS
  <2>1. Out = {} /\ \A f \in Files : work_queue[f] = <<>>
    BY OutFacts, EmptyFacts DEF Init, Work!Init
  <2>2. \A f \in Files : SetToSeq(Under(f)) \o work_queue[f] = <<>>
    BY <2>1, SetToSeqFacts DEF Under
  <2>3. Todo = [f \in Files |-> <<>>]
    BY <2>2 DEF Todo
  <2> QED
    BY <2>3 DEF Promise!Init, Todo, Under, Out
<1>2. IInv /\ IInv' /\ [Next]_vars => [Promise!Next]_(Promise!vars)
  BY ServiceStep DEF Patient
<1> QED
  BY <1>1, <1>2, Inductive, PTL DEF Spec, ImplementsFileService, Promise!Spec
=============================================================================
