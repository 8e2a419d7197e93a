------------------------------- MODULE FileOpen -------------------------------
(***************************************************************************)
(* file/fs.c: opening, linking, stat and closing of files.  These calls    *)
(* run on the caller's thread and end before they return; what is hard is  *)
(* what a failed call leaves in the handle for the next one.               *)
(*                                                                         *)
(* The file system is external: which paths have a file, and whether an    *)
(* open that could succeed does.  Contents and offsets are left out.       *)
(***************************************************************************)
EXTENDS Integers, FiniteSets, FiniteSetsExt

CONSTANTS Files,            \* the memory of file handles
          Paths,            \* paths of regular files, and others'
          Fds,              \* the descriptors files may get
          Opens,            \* the sets of flags users pass to apc_file_open
          Allows            \* what users do that the code does not support

ASSUME OpenAssumption ==
    /\ Fds \subseteq Nat \ {0} /\ IsFiniteSet(Fds)
    /\ \A flags \in Opens :
          /\ flags \subseteq {"R", "W", "RW", "CREATE", "APPEND", "TRUNC"}
          /\ flags \cap {"R", "W", "RW"} # {}
          /\ flags \cap {"CREATE", "TRUNC"} # {} => flags \cap {"W", "RW"} # {}
    /\ Allows \subseteq {"close_busy", "open_again"}

VARIABLES state,            \* of a file's memory: "gone" (no handle, or its
                            \* closing callback was called), "open" (initialised)
                            \* or "closing" (apc_close was called)
          file,             \* fd, oflags, path and stat of each file; asked: the
                            \* flags of the last call that opens
          exists,           \* the paths that have a file
          open              \* the descriptors that are open

openVars == <<state, file, exists, open>>

NoFd == -1
NoPath == "NULL"
TmpPath == "apc-tmp-XXXXXX"         \* mkostemp's file, unlinked at once

NewFile == [fd |-> NoFd, oflags |-> {}, path |-> NoPath, stat |-> FALSE, asked |-> {}]

OpenInit == /\ state = [f \in Files |-> "gone"]
            /\ file = [f \in Files |-> NewFile]
            /\ exists \in SUBSET Paths
            /\ open = {}

IsOpen(f) == state[f] = "open" /\ file[f].fd # NoFd

HasFreeFd == open # Fds
FreeFd == Min(Fds \ open)

------------------------------------------------------------------------------
apc_file_init(f) == /\ state[f] = "gone"
                    /\ state' = [state EXCEPT ![f] = "open"]
                    /\ file' = [file EXCEPT ![f] = NewFile]
                    /\ UNCHANGED <<exists, open>>

(* The oflags file_open adds for the user's flags. *)
OFlags(flags) ==
    (IF "R" \in flags THEN {} ELSE IF "W" \in flags THEN {"O_WRONLY"} ELSE {"O_RDWR"})
    \cup (IF "TRUNC" \in flags THEN {"O_TRUNC"} ELSE {})
    \cup (IF "CREATE" \in flags THEN {"O_CREAT", "O_EXCL", "O_TRUNC"} ELSE {})
    \cup (IF "APPEND" \in flags THEN {"O_APPEND"} ELSE {})

(* open(2) for a regular file: the cases in which it cannot succeed. *)
Refused(p, oflags) == \/ "O_TMPFILE" \in oflags
                      \/ p \in exists /\ "O_EXCL" \in oflags
                      \/ p \notin exists /\ "O_CREAT" \notin oflags

(* A call that opens: the file was initialised, or another call failed on it *)
(* before.                                                                  *)
MayOpen(f) == /\ state[f] = "open" /\ file[f].fd = NoFd
              /\ file[f].oflags # {} => "open_again" \in Allows

(* Mutant: without memory for the path, the descriptor is forgotten. *)
apc_file_open_forgets(f, p, flags) ==
    LET oflags == file[f].oflags \cup OFlags(flags)
        tried == [file[f] EXCEPT !.oflags = oflags, !.asked = flags]
    IN
    /\ MayOpen(f) /\ HasFreeFd /\ ~Refused(p, oflags)
    /\ \/ file' = [file EXCEPT ![f] = [tried EXCEPT !.fd = FreeFd, !.path = p]]
       \/ file' = [file EXCEPT ![f] = tried]
    /\ open' = open \cup {FreeFd} /\ exists' = exists \cup {p}
    /\ UNCHANGED state

(* apc_file_open.  The oflags stay in the handle when it fails; when there  *)
(* is no memory for the path it fails although the file is open.            *)
apc_file_open(f, p, flags) ==
    LET oflags == file[f].oflags \cup OFlags(flags)
        tried == [file[f] EXCEPT !.oflags = oflags, !.asked = flags]
    IN
    /\ MayOpen(f)
    /\ UNCHANGED state
    /\ \/ /\ file' = [file EXCEPT ![f] = tried]
          /\ UNCHANGED <<exists, open>>
       \/ /\ HasFreeFd /\ ~Refused(p, oflags)
          /\ \E path \in {p, NoPath} :
                file' = [file EXCEPT ![f] = [tried EXCEPT !.fd = FreeFd, !.path = path]]
          /\ open' = open \cup {FreeFd}
          /\ exists' = exists \cup {p}

(* apc_file_open_tmp: with O_TMPFILE there is no path; a file system that   *)
(* does not have it makes the call fall back on mkostemp.                   *)
apc_file_open_tmp(f) ==
    LET tried == [file[f] EXCEPT !.oflags = @ \cup {"O_TMPFILE", "O_RDWR"}, !.asked = {"RW"}]
    IN
    /\ MayOpen(f)
    /\ \/ file' = [file EXCEPT ![f] = tried] /\ UNCHANGED open
       \/ /\ HasFreeFd
          /\ \E path \in {NoPath, TmpPath} :
                file' = [file EXCEPT ![f] = [tried EXCEPT !.fd = FreeFd, !.path = path]]
          /\ open' = open \cup {FreeFd}
    /\ UNCHANGED <<state, exists>>

(* apc_file_link_tmp, where linkat finds the file. *)
apc_file_link_tmp(f, p) ==
    /\ IsOpen(f) /\ "O_TMPFILE" \in file[f].oflags /\ file[f].path = NoPath
    /\ p \notin exists /\ exists' = exists \cup {p}
    /\ UNCHANGED <<state, file, open>>

(* apc_file_stat, which asks for the path, not for the descriptor. *)
apc_file_stat(f) == /\ state[f] = "open" /\ file[f].path \in exists
                    /\ file' = [file EXCEPT ![f].stat = TRUE]
                    /\ UNCHANGED <<state, exists, open>>

(* apc_file_close, all but the queue of operations. *)
apc_file_close(f) == /\ file' = [file EXCEPT ![f] = NewFile]
                     /\ open' = open \ {file[f].fd}
                     /\ UNCHANGED exists

(* Somebody else removes a file. *)
Unlink(p) == /\ p \in exists /\ exists' = exists \ {p}
             /\ UNCHANGED <<state, file, open>>

OpenStep == \/ \E f \in Files : apc_file_init(f) \/ apc_file_open_tmp(f) \/ apc_file_stat(f)
            \/ \E f \in Files, p \in Paths, flags \in Opens : apc_file_open(f, p, flags)
            \/ \E f \in Files, p \in Paths : apc_file_link_tmp(f, p)
            \/ \E p \in Paths : Unlink(p)

------------------------------------------------------------------------------
OpenTypeOK ==
    /\ state \in [Files -> {"open", "closing", "gone"}]
    /\ file \in [Files ->
          [fd : Fds \cup {NoFd},
           oflags : SUBSET {"O_WRONLY", "O_RDWR", "O_TRUNC", "O_CREAT", "O_EXCL",
                            "O_APPEND", "O_TMPFILE"},
           path : Paths \cup {NoPath, TmpPath}, stat : BOOLEAN,
           asked : SUBSET {"R", "W", "RW", "CREATE", "APPEND", "TRUNC"}]]
    /\ exists \subseteq Paths
    /\ open \subseteq Fds

(* README.md: "Open a file specified by path with access specified by       *)
(* flags".  A file is open with the access, the truncation and the creation *)
(* its user asked for.                                                      *)
OpenedAsAsked == \A f \in Files :
    IsOpen(f) /\ "O_TMPFILE" \notin file[f].oflags
        => file[f].oflags = OFlags(file[f].asked)
==============================================================================
