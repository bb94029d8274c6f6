----------------------------- MODULE RumpUser -----------------------------
(***************************************************************************)
(* Rump hypercalls (compat/rumpuser_xnu.c): scattered reads and gathered   *)
(* writes of a host file, one host call for each entry of the vector, and  *)
(* the read-write lock with its probe rumpuser_rw_held.                    *)
(*                                                                         *)
(* Rump kernel threads (external) write under the write lock and read with *)
(* or without the read lock.  A byte of the file is written as the         *)
(* position it is meant for, and a byte of a buffer is the position it was *)
(* read from, so that a byte out of place shows.                           *)
(***************************************************************************)
EXTENDS Integers, Sequences, FiniteSets

CONSTANTS Threads, NoThread,
          MaxSize,      \* bound: size of the file
          MaxRoom,      \* bound: bytes that the host can still store
          Lens,         \* lengths of the entries of a vector
          MaxCalls      \* bound: calls of each thread

VARIABLES
  file,      \* the bytes of the file
  room,      \* bytes the host can still store
  writer,    \* the thread that holds the lock for writing
  readers,   \* the threads that hold it for reading
  pc, job,   \* per thread: the next step, and the call in hand
  moved,     \* per thread: the file grew, or room was freed, during its call
  calls

vars == <<file, room, writer, readers, pc, job, moved, calls>>

Gap == -1       \* a place of a buffer that is not filled
Iovs == Lens \X Lens
Base(iov, i) == IF i = 1 THEN 0 ELSE iov[1]
Least(a, b) == IF a < b THEN a ELSE b

NoJob == [op |-> "none", lk |-> 0, locked |-> FALSE, off |-> 0, start |-> 0,
          iov |-> <<0, 0>>, i |-> 1, total |-> 0, buf |-> <<>>, held |-> 0]

(* Every offset and total stays inside the file's bound.                    *)
TypeOK ==
  /\ file \in Seq(0 .. MaxSize) /\ Len(file) <= MaxSize
  /\ room \in 0 .. MaxRoom
  /\ writer \in Threads \cup {NoThread} /\ readers \subseteq Threads
  /\ pc \in [Threads -> {"idle", "enter", "io", "exit", "try", "unlock", "done"}]
  /\ \A t \in Threads : /\ job[t].total \in 0 .. MaxSize /\ job[t].off \in 0 .. MaxSize
                        /\ job[t].held \in {0, 1}

Init ==
  /\ \E n \in 0 .. MaxSize : file = [p \in 1 .. n |-> p - 1]
  /\ room = MaxRoom
  /\ writer = NoThread /\ readers = {}
  /\ pc = [t \in Threads |-> "idle"]
  /\ job = [t \in Threads |-> NoJob]
  /\ moved = [t \in Threads |-> FALSE]
  /\ calls = [t \in Threads |-> 0]

-----------------------------------------------------------------------------
(* The lock                                                                *)

FreeToWrite == writer = NoThread /\ readers = {}
FreeToRead == writer = NoThread

Take(t, lk) ==
  IF lk = 1 THEN FreeToWrite /\ writer' = t /\ UNCHANGED readers
            ELSE FreeToRead /\ readers' = readers \cup {t} /\ UNCHANGED writer

Drop(t) ==
  /\ writer' = IF writer = t THEN NoThread ELSE writer
  /\ readers' = readers \ {t}

\* Mutant: the flag is ignored and the lock taken for reading.
Enter_ForReading(t) ==
  /\ pc[t] = "enter" /\ pc' = [pc EXCEPT ![t] = "io"]
  /\ Take(t, 0)
  /\ UNCHANGED <<file, room, job, moved, calls>>

Enter(t) ==
  /\ pc[t] = "enter" /\ pc' = [pc EXCEPT ![t] = "io"]
  /\ Take(t, job[t].lk)
  /\ UNCHANGED <<file, room, job, moved, calls>>

Exit(t) ==
  /\ pc[t] = "exit" /\ pc' = [pc EXCEPT ![t] = "done"]
  /\ IF job[t].locked THEN Drop(t) ELSE UNCHANGED <<writer, readers>>
  /\ UNCHANGED <<file, room, job, moved, calls>>

\* rumpuser_rw_held tries to take the lock in the mode it is asked about ...
Held(t) ==
  /\ pc[t] = "try"
  /\ \/ /\ Take(t, job[t].lk)
        /\ pc' = [pc EXCEPT ![t] = "unlock"]
        /\ job' = [job EXCEPT ![t].held = 0]
     \/ /\ IF job[t].lk = 1 THEN ~FreeToWrite ELSE ~FreeToRead
        /\ pc' = [pc EXCEPT ![t] = "done"]
        /\ job' = [job EXCEPT ![t].held = 1]
        /\ UNCHANGED <<writer, readers>>
  /\ UNCHANGED <<file, room, moved, calls>>

\* Mutant: the probe keeps what it took.
HeldUnlock_Keeps(t) ==
  /\ pc[t] = "unlock" /\ pc' = [pc EXCEPT ![t] = "done"]
  /\ UNCHANGED <<file, room, writer, readers, job, moved, calls>>

\* ... and gives it back when it got it.
HeldUnlock(t) ==
  /\ pc[t] = "unlock" /\ pc' = [pc EXCEPT ![t] = "done"]
  /\ Drop(t)
  /\ UNCHANGED <<file, room, job, moved, calls>>

-----------------------------------------------------------------------------
(* The vectors                                                             *)

Len_(j) == j.iov[j.i]

\* The bytes that pread and pwrite transfer for the entry in hand.
Readable(j) == IF j.off < Len(file) THEN Least(Len_(j), Len(file) - j.off) ELSE 0

\* Mutant: the offset stays.
Advance_KeepsOffset(j, n) == [j EXCEPT !.total = @ + n, !.i = @ + 1]

\* total += rv; off += rv; the next entry.
Advance(j, n) == [j EXCEPT !.total = @ + n, !.off = @ + n, !.i = @ + 1]

After(j) == IF j.i = 2 THEN "exit" ELSE "io"

\* rumpuser_iovread: pread into one entry.
ReadEntry(t) ==
  LET j == job[t]
      n == Readable(j)
      base == Base(j.iov, j.i)
      read == [k \in 1 .. Len(j.buf) |->
                 IF base < k /\ k <= base + n THEN j.off + k - base - 1 ELSE j.buf[k]] IN
  /\ pc[t] = "io" /\ j.op = "read"
  /\ job' = [job EXCEPT ![t] = [Advance(j, n) EXCEPT !.buf = read]]
  /\ pc' = [pc EXCEPT ![t] = After(j)]
  /\ UNCHANGED <<file, room, writer, readers, moved, calls>>

\* rumpuser_iovwrite: pwrite of one entry, short when the host runs out of room.
WriteEntry(t) ==
  LET j == job[t]
      end == Len(file)
      n == Least(Len_(j), end - j.off + room)
      size == IF j.off + n > end THEN j.off + n ELSE end
      source == j.start + Base(j.iov, j.i) IN
  /\ pc[t] = "io" /\ j.op = "write"
  /\ Len_(j) > 0 => n > 0
  /\ file' = [p \in 1 .. size |->
                IF j.off < p /\ p <= j.off + n THEN source + p - j.off - 1 ELSE file[p]]
  /\ room' = room - (size - end)
  /\ job' = [job EXCEPT ![t] = Advance(j, n)]
  /\ pc' = [pc EXCEPT ![t] = After(j)]
  /\ moved' = [s \in Threads |-> moved[s] \/ (s # t /\ pc[s] = "io" /\ size > end)]
  /\ UNCHANGED <<writer, readers, calls>>

\* An entry fails (EIO, ENOSPC): the call ends with what was transferred so far.
EntryFails(t) ==
  /\ pc[t] = "io" /\ pc' = [pc EXCEPT ![t] = "exit"]
  /\ UNCHANGED <<file, room, writer, readers, job, moved, calls>>

-----------------------------------------------------------------------------
(* The rump kernel and the host                                            *)

Begin(t, j, where) ==
  /\ pc[t] = "idle" /\ calls[t] < MaxCalls
  /\ calls' = [calls EXCEPT ![t] = @ + 1]
  /\ job' = [job EXCEPT ![t] = j]
  /\ moved' = [moved EXCEPT ![t] = FALSE]
  /\ pc' = [pc EXCEPT ![t] = where]
  /\ UNCHANGED <<file, room, writer, readers>>

Vector(op, lk, locked, off, iov) ==
  [NoJob EXCEPT !.op = op, !.lk = lk, !.locked = locked, !.off = off, !.start = off,
                !.iov = iov, !.buf = [k \in 1 .. iov[1] + iov[2] |-> Gap]]

BeginRead(t) ==
  \E off \in 0 .. MaxSize, iov \in Iovs, locked \in BOOLEAN :
    Begin(t, Vector("read", 0, locked, off, iov), IF locked THEN "enter" ELSE "io")

BeginWrite(t) ==
  \E off \in 0 .. MaxSize, iov \in Iovs :
    /\ off <= Len(file) /\ off + iov[1] + iov[2] <= MaxSize
    /\ Begin(t, Vector("write", 1, TRUE, off, iov), "enter")

BeginHeld(t) ==
  \E lk \in {0, 1} : Begin(t, [NoJob EXCEPT !.op = "held", !.lk = lk], "try")

Finish(t) ==
  /\ pc[t] = "done" /\ pc' = [pc EXCEPT ![t] = "idle"]
  /\ job' = [job EXCEPT ![t] = NoJob]
  /\ moved' = [moved EXCEPT ![t] = FALSE]
  /\ UNCHANGED <<file, room, writer, readers, calls>>

\* Room comes back on the host's disk.
FreeRoom ==
  /\ room < MaxRoom /\ room' = room + 1
  /\ moved' = [t \in Threads |-> moved[t] \/ pc[t] = "io"]
  /\ UNCHANGED <<file, writer, readers, pc, job, calls>>

Next ==
  \/ \E t \in Threads :
       \/ BeginRead(t) \/ BeginWrite(t) \/ BeginHeld(t) \/ Finish(t)
       \/ Enter(t) \/ Exit(t) \/ Held(t) \/ HeldUnlock(t)
       \/ ReadEntry(t) \/ WriteEntry(t) \/ EntryFails(t)
  \/ FreeRoom

Spec == Init /\ [][Next]_vars

-----------------------------------------------------------------------------
\* The total bytes that the call reports stand, in order, at the front of its
\* buffers.
ReadInOrder(j) == \A k \in 1 .. j.total : j.buf[k] = j.start + k - 1

(***************************************************************************)
(* A scattered read reports as many bytes as it stored, and what it        *)
(* reports stands without a gap at the front of the buffers, unless the    *)
(* file grew between two of its host calls: a short entry at the end of    *)
(* the file is followed only by empty ones.  Under the read lock that      *)
(* never happens, with the writers under the write lock and the probe of   *)
(* rumpuser_rw_held taking the lock for a moment in between.               *)
(***************************************************************************)
ReadGapsNeedGrowth ==
  \A t \in Threads :
    LET j == job[t] IN
    pc[t] \in {"exit", "done"} /\ j.op = "read" =>
      /\ j.total = Cardinality({k \in 1 .. Len(j.buf) : j.buf[k] # Gap})
      /\ ReadInOrder(j) \/ (moved[t] /\ ~j.locked)

(***************************************************************************)
(* A gathered write puts every byte it reports where it belongs, unless    *)
(* room came back after an entry was cut short: then the next entry        *)
(* follows too early, in the place of the bytes that were cut.             *)
(***************************************************************************)
WriteGapsNeedRoom ==
  \A t \in Threads :
    LET j == job[t] IN
    pc[t] = "exit" /\ j.op = "write" =>
      moved[t] \/ \A p \in j.start + 1 .. j.start + j.total : file[p] = p - 1

(***************************************************************************)
(* Exactly the threads between their enter and exit, or between the two    *)
(* halves of a probe, hold the lock: a probe leaves it as it was.          *)
(***************************************************************************)
LockIsHeldByItsUsers ==
  \A t \in Threads :
    (t = writer \/ t \in readers) <=>
      (pc[t] \in {"io", "exit"} /\ job[t].locked) \/ pc[t] = "unlock"
=============================================================================
