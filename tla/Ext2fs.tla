------------------------------ MODULE Ext2fs ------------------------------
(***************************************************************************)
(* The handlers of the ext2fs translator (compat/ext2fs_xnu.c) on the      *)
(* handle table: which of them open, which fall back to the working        *)
(* directory when the handle does not resolve, and which answer EBADF.     *)
(* The contents of the files and directories belong to the host.           *)
(***************************************************************************)
EXTENDS HandleRing

CONSTANT Dirs     \* the objects that are directories

ASSUME DirsAssumption == Dirs \subseteq Files

\* Mutant: the fallback is taken for a handle that does resolve.
DirAt_AlwaysCwd(fd) == Cwd

\* What a directory handler works in: AT_FDCWD when the handle did not resolve.
DirAt(fd) == IF fd < 0 THEN Cwd ELSE Reached(fds, fd)

Ext2fsArrive(t) ==
  \E op \in {"lookup", "readdir", "mkfile", "dirop", "rename", "file"} : Request(t, op, TRUE)

\* dir_lookup: openat fails unless it starts at a directory.
Lookup(t) ==
  /\ pc[t] = "call" /\ job[t].op = "lookup"
  /\ LET at == DirAt(job[t].fd) IN
       IF at \in Dirs \cup {Cwd} THEN OpenFrom(t, at) ELSE End(t, NoFile)

\* dir_readdir: EBADF, or a second descriptor of the same object, if dup gives
\* one; fdopendir(-1) fails like the handler.
Readdir(t) ==
  /\ pc[t] = "call" /\ job[t].op = "readdir"
  /\ LET at == Reached(fds, job[t].fd) IN
       \/ /\ at # NoFile /\ CanOpen(fds)
          /\ fds' = AfterOpen(fds, at)
          /\ job' = [job EXCEPT ![t].new = NewFd(fds), ![t].at = at]
          /\ pc' = [pc EXCEPT ![t] = "list"]
          /\ UNCHANGED <<table, count, lock, calls, grants, leaked>>
       \/ /\ at = NoFile \/ ~CanOpen(fds)
          /\ End(t, NoFile)

\* fdopendir fails, always for what is no directory: the descriptor stays open.
ListFails(t) ==
  /\ pc[t] = "list" /\ pc' = [pc EXCEPT ![t] = "done"]
  /\ leaked' = leaked + 1
  /\ UNCHANGED <<fds, table, count, lock, job, calls, grants>>

\* Mutant: without memory for the entries the handler returns at once.
ListDone_NoCleanup(t) ==
  /\ pc[t] = "list" /\ job[t].at \in Dirs
  /\ fds' \in {fds, AfterClose(fds, job[t].new)}
  /\ pc' = [pc EXCEPT ![t] = "done"]
  /\ UNCHANGED <<table, count, lock, job, calls, grants, leaked>>

\* closedir, after the entries or without memory for them.
ListDone(t) ==
  /\ pc[t] = "list" /\ job[t].at \in Dirs
  /\ fds' = AfterClose(fds, job[t].new)
  /\ pc' = [pc EXCEPT ![t] = "done"]
  /\ UNCHANGED <<table, count, lock, job, calls, grants, leaked>>

\* dir_mkfile: mkstemp in /tmp, whatever directory the handle names.
Mkfile(t) ==
  /\ pc[t] = "call" /\ job[t].op = "mkfile"
  /\ OpenFrom(t, NoFile)

\* dir_mkdir, dir_rmdir, dir_unlink.
DirOp(t) ==
  /\ pc[t] = "call" /\ job[t].op = "dirop"
  /\ LET at == DirAt(job[t].fd) IN
       End(t, IF at \in Dirs \cup {Cwd} THEN at ELSE NoFile)

\* dir_rename: the first handle is resolved, and port_to_fd reads the slot of
\* the second, which may have been given out meanwhile.
Rename(t) ==
  /\ pc[t] = "call" /\ job[t].op = "rename"
  /\ \E g \in 0 .. Len(grants) :
       \E h \in IF g = 0 THEN Handles ELSE {grants[g].handle} :
         job' = [job EXCEPT ![t].op = "renameto", ![t].handle = h, ![t].meant = g,
                   ![t].fd = -1, ![t].old = job[t].fd, ![t].oldmeant = job[t].meant]
  /\ pc' = [pc EXCEPT ![t] = "test"]
  /\ UNCHANGED <<fds, table, count, lock, calls, grants, leaked>>

\* renameat, with both handles resolved.
RenameTo(t) ==
  /\ pc[t] = "call" /\ job[t].op = "renameto"
  /\ LET from == DirAt(job[t].old)
         to   == DirAt(job[t].fd) IN
       \/ /\ {from, to} \subseteq Dirs \cup {Cwd}
          /\ job' = [job EXCEPT ![t].at = to, ![t].was = from]
          /\ pc' = [pc EXCEPT ![t] = "done"]
          /\ UNCHANGED <<fds, table, count, lock, calls, grants, leaked>>
       \/ /\ ~({from, to} \subseteq Dirs \cup {Cwd})
          /\ End(t, NoFile)

\* file_getstat, file_setstat, file_sync, file_set_size, io_read, io_write:
\* EBADF when the handle does not resolve.
FileOp(t) ==
  /\ pc[t] = "call" /\ job[t].op = "file"
  /\ End(t, IF job[t].fd < 0 THEN NoFile ELSE Reached(fds, job[t].fd))

Ext2fsOp(t) ==
  \/ Lookup(t) \/ Readdir(t) \/ ListFails(t) \/ ListDone(t) \/ Mkfile(t) \/ DirOp(t)
  \/ Rename(t) \/ RenameTo(t) \/ FileOp(t)

Ext2fsNext == \E t \in Threads : Ext2fsArrive(t) \/ Ext2fsOp(t) \/ Common(t)

-----------------------------------------------------------------------------
(***************************************************************************)
(* Only a number that is not a handle of this server lands in the working  *)
(* directory, and only a directory handler puts it there: with a handle of *)
(* its own the server changes a directory or file that the slot was given  *)
(* out for, also where a request has two handles.                          *)
(***************************************************************************)
OnlyStrangersReachCwd ==
  \A t \in Threads : pc[t] = "done" =>
    /\ job[t].at = Cwd => job[t].meant = 0 /\ job[t].op \in {"lookup", "dirop", "renameto"}
    /\ job[t].was = Cwd => job[t].oldmeant = 0 /\ job[t].op = "renameto"
=============================================================================
