------------------------------ MODULE FdTable -------------------------------
(***************************************************************************)
(* The descriptor table of a process: get_fd, set_fd, clear_fd and         *)
(* alloc_fd of kernel/src/tasks/task.rs on FileTable (tasks/filetable.rs). *)
(* A table is a sequence of file ids, with None in the free slots;         *)
(* descriptor fd is position fd + 1.  lim is rlimits[7], which prlimit64   *)
(* sets to anything, below the length of the table or above it.            *)
(***************************************************************************)
EXTENDS Integers, Sequences, FiniteSets, FiniteSetsExt

None == 0       \* no file
NoFd == -1      \* alloc_fd found no descriptor

\* the index in get_fd and set_fd is in bounds, or never used
InBounds(tab, lim, fd) == fd < lim => fd < Len(tab)

get_fd(tab, lim, fd) == IF fd >= lim THEN None ELSE tab[fd + 1]

set_fd(tab, lim, fd, file) == IF fd >= lim THEN tab ELSE [tab EXCEPT ![fd + 1] = file]

clear_fd(tab, fd) == IF fd >= Len(tab) THEN tab ELSE [tab EXCEPT ![fd + 1] = None]

\* a bug: the limit itself passes for a descriptor
alloc_fd_at_limit(tab, lim) ==
    LET free == {fd \in 0 .. Len(tab) - 1 : tab[fd + 1] = None /\ fd <= lim}
    IN  CASE free # {}     -> [fd |-> Min(free), tab |-> tab]
          [] OTHER         -> [fd |-> NoFd, tab |-> tab]

\* a bug: an open descriptor is handed out
alloc_fd_last(tab, lim) == [fd |-> Min({Len(tab), lim}) - 1, tab |-> tab]

\* The descriptor and the table, which may have grown by a free slot: nothing
\* reserves the descriptor until set_fd.
alloc_fd(tab, lim) ==
    LET free == {fd \in 0 .. Len(tab) - 1 : tab[fd + 1] = None /\ fd < lim}
    IN  CASE free # {}     -> [fd |-> Min(free), tab |-> tab]
          [] free = {} /\ Len(tab) < lim
                           -> [fd |-> Len(tab), tab |-> Append(tab, None)]
          [] OTHER         -> [fd |-> NoFd, tab |-> tab]

\* the descriptors that are open
Occupied(tab) == {fd \in 0 .. Len(tab) - 1 : tab[fd + 1] # None}
=============================================================================
