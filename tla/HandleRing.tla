---------------------------- MODULE HandleRing ----------------------------
(***************************************************************************)
(* The handle table of the POSIX wrapper servers: ext2fs (compat/          *)
(* ext2fs_xnu.c) and pfinet (compat/pfinet_xnu.c) give out the index of a  *)
(* table slot, with a tag that is never looked at, and keep a host         *)
(* descriptor in the slot.  fd_to_port takes the slots in turn under the   *)
(* lock, also the ones in use; port_to_fd reads a slot twice without the   *)
(* lock; nothing closes a descriptor that is in a slot.                    *)
(*                                                                         *)
(* A handler runs in the thread that received the request.  The modules    *)
(* Ext2fs and Pfinet say which handlers there are.                         *)
(***************************************************************************)
EXTENDS HostFds, Sequences

CONSTANTS Threads, NoThread,
          Cwd,          \* what AT_FDCWD stands for
          MaxFiles,     \* MAX_FILES, MAX_SOCKETS: 256 in the code
          MaxCalls      \* bound: calls of each thread

ASSUME RingAssumption ==
  /\ NoThread \notin Threads /\ Cwd \notin Files \cup {NoFile}
  /\ MaxFiles \in Nat \ {0} /\ MaxCalls \in Nat

Slots == 0 .. MaxFiles - 1
Handles == Slots     \* a handle is its low byte; MACH_PORT_NULL is 0

VARIABLES
  fds,      \* the host descriptors of the server
  table,    \* file_fds, socket_fds
  count,    \* file_count, socket_count
  lock,     \* holder of fs_lock, socket_lock
  pc, job,  \* per thread: where it is, and its local variables
  calls,
  grants,   \* the handles given out, in order, each with what it was given for
  leaked    \* the descriptors that handlers left open on an error

vars == <<fds, table, count, lock, pc, job, calls, grants, leaked>>

\* meant is the grant whose handle the client passes, 0 when it passes a
\* number that is not a handle of this server.  old, oldmeant and was are the
\* fd, meant and at of a request's first handle, where it has two.
NoJob == [op |-> "none", handle |-> 0, meant |-> 0, fd |-> -1, new |-> -1, idx |-> 0,
          at |-> NoFile, old |-> -1, oldmeant |-> 0, was |-> NoFile]

Labels == {"idle", "test", "load", "call", "list", "lock", "bump", "store", "done"}

TypeOK ==
  /\ fds \in FdTables
  /\ table \in [Slots -> Fds \cup {-1}]
  /\ count \in 0 .. NFds
  /\ lock \in Threads \cup {NoThread}
  /\ pc \in [Threads -> Labels]
  /\ \A t \in Threads : {job[t].fd, job[t].new, job[t].old} \subseteq Fds \cup {-1}
  /\ \A g \in 1 .. Len(grants) : grants[g].handle \in Handles /\ grants[g].file \in Files
  /\ leaked \in 0 .. NFds

\* After the server's init function.
Init ==
  /\ fds = [n \in Fds |-> NoFile]
  /\ table = [i \in Slots |-> -1] /\ count = 0
  /\ lock = NoThread
  /\ pc = [t \in Threads |-> "idle"]
  /\ job = [t \in Threads |-> NoJob]
  /\ calls = [t \in Threads |-> 0]
  /\ grants = <<>> /\ leaked = 0

-----------------------------------------------------------------------------
\* Client: a request with the handle of an earlier grant, or with any number.
Request(t, op, resolves) ==
  /\ pc[t] = "idle" /\ calls[t] < MaxCalls
  /\ calls' = [calls EXCEPT ![t] = @ + 1]
  /\ \E g \in 0 .. Len(grants) :
       \E h \in IF g = 0 THEN Handles ELSE {grants[g].handle} :
         job' = [job EXCEPT ![t] = [NoJob EXCEPT !.op = op, !.handle = h, !.meant = g]]
  /\ pc' = [pc EXCEPT ![t] = IF resolves THEN "test" ELSE "call"]
  /\ UNCHANGED <<fds, table, count, lock, grants, leaked>>

\* Mutant: the slot of the next handle is used.
Slot_Next(handle) == (handle + 1) % MaxFiles

\* The index that port_to_fd takes out of a handle.
Slot(handle) == handle

\* port_to_fd: the test and the load of the slot.
TestSlot(t) ==
  /\ pc[t] = "test"
  /\ pc' = [pc EXCEPT ![t] = IF table[Slot(job[t].handle)] >= 0 THEN "load" ELSE "call"]
  /\ UNCHANGED <<fds, table, count, lock, job, calls, grants, leaked>>

LoadSlot(t) ==
  /\ pc[t] = "load" /\ pc' = [pc EXCEPT ![t] = "call"]
  /\ job' = [job EXCEPT ![t].fd = table[Slot(job[t].handle)]]
  /\ UNCHANGED <<fds, table, count, lock, calls, grants, leaked>>

\* The request ends having reached `at' through its handle: an object, the
\* working directory, or nothing (an error).
End(t, at) ==
  /\ pc' = [pc EXCEPT ![t] = "done"]
  /\ job' = [job EXCEPT ![t].at = at]
  /\ UNCHANGED <<fds, table, count, lock, calls, grants, leaked>>

\* A call of the host that returns a new descriptor, or fails.
OpenFrom(t, at) ==
  \/ /\ CanOpen(fds)
     /\ \E file \in Files :
          /\ fds' = AfterOpen(fds, file)
          /\ job' = [job EXCEPT ![t].new = NewFd(fds), ![t].at = at]
     /\ pc' = [pc EXCEPT ![t] = "lock"]
     /\ UNCHANGED <<table, count, lock, calls, grants, leaked>>
  \/ End(t, NoFile)

\* Mutant: the lock is not taken.
LockTable_NoLock(t) ==
  /\ pc[t] = "lock" /\ pc' = [pc EXCEPT ![t] = "bump"]
  /\ job' = [job EXCEPT ![t].idx = count]
  /\ UNCHANGED <<fds, table, count, lock, calls, grants, leaked>>

\* fd_to_port: lock, read the count.
LockTable(t) ==
  /\ pc[t] = "lock" /\ pc' = [pc EXCEPT ![t] = "bump"]
  /\ lock = NoThread /\ lock' = t
  /\ job' = [job EXCEPT ![t].idx = count]
  /\ UNCHANGED <<fds, table, count, calls, grants, leaked>>

Bump(t) ==
  /\ pc[t] = "bump" /\ pc' = [pc EXCEPT ![t] = "store"]
  /\ count' = job[t].idx + 1
  /\ UNCHANGED <<fds, table, lock, job, calls, grants, leaked>>

\* Mutant: the index that is returned is not reduced to a slot.
Store_NotReduced(t) ==
  /\ pc[t] = "store" /\ pc' = [pc EXCEPT ![t] = "done"]
  /\ LET i == job[t].idx % MaxFiles IN
       /\ table' = [table EXCEPT ![i] = job[t].new]
       /\ grants' = Append(grants, [handle |-> job[t].idx, file |-> fds[job[t].new]])
  /\ lock' = NoThread
  /\ UNCHANGED <<fds, count, job, calls, leaked>>

\* Store, unlock, return the handle.
Store(t) ==
  /\ pc[t] = "store" /\ pc' = [pc EXCEPT ![t] = "done"]
  /\ LET i == job[t].idx % MaxFiles IN
       /\ table' = [table EXCEPT ![i] = job[t].new]
       /\ grants' = Append(grants, [handle |-> i, file |-> fds[job[t].new]])
  /\ lock' = NoThread
  /\ UNCHANGED <<fds, count, job, calls, leaked>>

Return(t) ==
  /\ pc[t] = "done" /\ pc' = [pc EXCEPT ![t] = "idle"]
  /\ job' = [job EXCEPT ![t] = NoJob]
  /\ UNCHANGED <<fds, table, count, lock, calls, grants, leaked>>

\* port_to_fd and fd_to_port, which every handler goes through.
Common(t) ==
  TestSlot(t) \/ LoadSlot(t) \/ LockTable(t) \/ Bump(t) \/ Store(t) \/ Return(t)

-----------------------------------------------------------------------------
FileAt(handle) == Reached(fds, table[Slot(handle)])

(***************************************************************************)
(* Until the slots have been handed out once, every handle that was given  *)
(* out resolves to the object it was given for, however the handlers       *)
(* interleave in fd_to_port.                                               *)
(***************************************************************************)
HandlesResolve ==
  count <= MaxFiles =>
    \A g \in 1 .. Len(grants) : FileAt(grants[g].handle) = grants[g].file

(***************************************************************************)
(* A request with a handle of this server, read without the lock in        *)
(* port_to_fd, never falls back to the working directory and never fails   *)
(* for want of a descriptor; it reaches what its slot was given out for,   *)
(* at that grant or a later one.                                           *)
(***************************************************************************)
RequestsReachTheirSlot ==
  \A t \in Threads :
    LET j == job[t] IN
    pc[t] = "call" /\ j.meant > 0 /\ j.op # "create" =>
      \E g \in j.meant .. Len(grants) :
        grants[g].handle = j.handle /\ Reached(fds, j.fd) = grants[g].file

(***************************************************************************)
(* Every descriptor that is open is in a slot or in the hands of the       *)
(* handler that opened it, but for two kinds that are lost: exactly one    *)
(* for every handle given out after the slots have been handed out once,   *)
(* and the ones that a handler left open on an error.  A descriptor that   *)
(* is closed is nobody else's.                                             *)
(***************************************************************************)
DescriptorsAreAccounted ==
  LET stored == {table[i] : i \in Slots} \ {-1}
      held   == {t \in Threads : pc[t] \in {"list", "lock", "bump", "store"}}
      lost   == OpenFds(fds) \ (stored \cup {job[t].new : t \in held}) IN
  Cardinality(lost) =
    leaked + (IF Len(grants) > MaxFiles THEN Len(grants) - MaxFiles ELSE 0)
=============================================================================
