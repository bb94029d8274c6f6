------------------------- MODULE PosixServersProofs -------------------------
(***************************************************************************)
(* What the parts on the host's POSIX interface guarantee for every value  *)
(* of their constants.                                                     *)
(*                                                                         *)
(* First the handle tables of ext2fs and pfinet (RingInv), for every size  *)
(* of the tables, every number of descriptors and every number of threads, *)
(* and on top of it the ledger of the descriptors (LedgerInv).  Then the   *)
(* hypercalls of rumpuser (RumpInv), for every file, every vector of two   *)
(* entries and every number of threads, and their bounds (SizeInv).  Last, *)
(* the shape of the whole state.                                           *)
(***************************************************************************)
EXTENDS PosixServers, FiniteSetTheorems, WellFoundedInduction, TLAPS

-----------------------------------------------------------------------------
(* The descriptor table of the host, for every size of it, as in the other *)
(* proofs about users of HostFds.                                          *)

\* The smallest of a set of natural numbers is one of them.
LEMMA MinIsMember ==
  ASSUME NEW S \in SUBSET Nat, S # {}
  PROVE  Min(S) \in S
<1> DEFINE R == {ss \in Nat \X Nat : ss[1] < ss[2]}
<1>1. IsWellFoundedOn(R, Nat)
  BY NatLessThanWellFounded DEF OpToRel
<1> HIDE DEF R
<1>2. PICK x \in S : \A y \in S : ~(<<y, x>> \in R)
  BY <1>1, WFMin
<1>3. ASSUME NEW y \in S PROVE x <= y
  <2>1. x \in Nat /\ y \in Nat
    OBVIOUS
  <2>2. ~(y < x)
    BY <1>2, <2>1 DEF R
  <2> QED BY <2>1, <2>2
<1> QED BY <1>3 DEF Min

\* open() takes a free number and leaves every other alone.
LEMMA OpenKeeps ==
  ASSUME NEW tab \in FdTables, CanOpen(tab), NEW f \in Files
  PROVE  /\ AfterOpen(tab, f) \in FdTables
         /\ NewFd(tab) \in Fds /\ tab[NewFd(tab)] = NoFile
         /\ AfterOpen(tab, f)[NewFd(tab)] = f
         /\ \A n \in Fds : n # NewFd(tab) => AfterOpen(tab, f)[n] = tab[n]
         /\ \A n \in Fds : tab[n] \in Files => AfterOpen(tab, f)[n] = tab[n]
<1>1. Fds \ OpenFds(tab) \in SUBSET Nat /\ Fds \ OpenFds(tab) # {}
  BY NFdsAssumption DEF CanOpen, OpenFds, Fds
<1>2. NewFd(tab) \in Fds \ OpenFds(tab)
  BY <1>1, MinIsMember DEF NewFd
<1>3. tab[NewFd(tab)] = NoFile
  BY <1>2 DEF OpenFds
<1> QED BY <1>2, <1>3, NoFileAssumption DEF AfterOpen, FdTables

-----------------------------------------------------------------------------
(* Sequences, for any set of elements.                                     *)

\* Sequences, for any set of elements.
LEMMA Elements ==
  ASSUME NEW S, NEW q \in Seq(S)
  PROVE  Len(q) \in Nat /\ \A i \in 1 .. Len(q) : q[i] \in S
OBVIOUS

\* What Append leaves and adds.
LEMMA Appending ==
  ASSUME NEW S, NEW q \in Seq(S), NEW x \in S
  PROVE  /\ Append(q, x) \in Seq(S) /\ Len(Append(q, x)) = Len(q) + 1
         /\ Append(q, x)[Len(q) + 1] = x
         /\ \A i \in 1 .. Len(q) : Append(q, x)[i] = q[i]
OBVIOUS

-----------------------------------------------------------------------------
(* Arithmetic.                                                             *)

\* Until the table has been filled once, the index is not reduced.
LEMMA Remainder ==
  ASSUME NEW n \in Nat
  PROVE  n % MaxFiles \in Slots /\ (n < MaxFiles => n % MaxFiles = n)
BY RingAssumption DEF Slots

-----------------------------------------------------------------------------
(* The inductive invariant.                                                *)

Places == Files \cup {NoFile, Cwd}

Ops == {"none", "lookup", "readdir", "mkfile", "dirop", "rename", "renameto", "file",
        "create", "accept", "socket"}

JobType == [op : Ops, handle : Handles, meant : Nat, fd : Fds \cup {-1},
            new : Fds \cup {-1}, idx : Nat, at : Places,
            old : Fds \cup {-1}, oldmeant : Nat, was : Places]

RingType ==
  /\ fds \in FdTables
  /\ table \in [Slots -> Fds \cup {-1}]
  /\ count \in Nat
  /\ pc \in [Threads -> Labels]
  /\ job \in [Threads -> JobType]
  /\ grants \in Seq([handle : Slots, file : Files])
  /\ leaked \in Nat

\* The lock protects the three steps of fd_to_port, and the index that was
\* read stays right.
Critical ==
  \A t \in Threads :
    /\ pc[t] \in {"bump", "store"} => lock = t
    /\ pc[t] = "bump" => count = job[t].idx
    /\ pc[t] = "store" => count = job[t].idx + 1

\* A handler with a descriptor of its own: it is open.
Holding(t) == pc[t] \in {"list", "lock", "bump", "store"}

NewIsOpen ==
  \A t \in Threads : Holding(t) => job[t].new \in Fds /\ fds[job[t].new] \in Files

\* What closes a descriptor closes one of its own: the slots, and the handlers
\* that resolved a handle, have open descriptors that nobody holds.
Shared(n) == /\ n \in Fds /\ fds[n] \in Files
             /\ \A t \in Threads : Holding(t) => job[t].new # n

Owned ==
  /\ \A i \in Slots : table[i] # -1 => Shared(table[i])
  /\ \A t \in Threads : /\ job[t].fd # -1 => Shared(job[t].fd)
                        /\ job[t].old # -1 => Shared(job[t].old)
  /\ \A s, t \in Threads : Holding(s) /\ Holding(t) /\ job[s].new = job[t].new => s = t

Holds(h, g) ==
  /\ grants[g].handle = h
  /\ table[h] \in Fds /\ fds[table[h]] = grants[g].file

\* A slot that was given out holds what it was given out for, then or later.
SlotsHold ==
  \A g \in 1 .. Len(grants) :
    \E l \in g .. Len(grants) : Holds(grants[g].handle, l)

\* Before the wrap, the slots given out are the ones below the index in use.
BelowCount ==
  count <= MaxFiles =>
    \A g \in 1 .. Len(grants) :
      /\ Holds(grants[g].handle, g)
      /\ grants[g].handle < count
      /\ \A t \in Threads : pc[t] = "store" => grants[g].handle < job[t].idx

\* What a handler has in hand of a handle of this server.
JobHolds ==
  \A t \in Threads : job[t].meant > 0 =>
    /\ pc[t] # "idle" =>
         job[t].meant \in 1 .. Len(grants) /\ grants[job[t].meant].handle = job[t].handle
    /\ pc[t] = "call" /\ job[t].op # "create" =>
         \E l \in job[t].meant .. Len(grants) :
           /\ grants[l].handle = job[t].handle
           /\ job[t].fd \in Fds /\ fds[job[t].fd] = grants[l].file

\* What a handler with a second handle has in hand of its first.
FirstHolds ==
  \A t \in Threads : pc[t] # "idle" /\ job[t].op = "renameto" /\ job[t].oldmeant > 0 =>
    job[t].old # -1

\* Who has worked in the working directory.
CwdIsTheirs ==
  \A t \in Threads : pc[t] # "idle" =>
    /\ job[t].at = Cwd => job[t].meant = 0 /\ job[t].op \in {"lookup", "dirop", "renameto"}
    /\ job[t].was = Cwd => job[t].oldmeant = 0 /\ job[t].op = "renameto"

\* Nothing is answered before the call that answers it.
NotYet ==
  \A t \in Threads : pc[t] \in {"test", "load", "call"} =>
    job[t].at = NoFile /\ job[t].was = NoFile

RingInv == /\ RingType /\ Critical /\ NewIsOpen /\ Owned /\ SlotsHold /\ BelowCount
           /\ JobHolds /\ FirstHolds /\ CwdIsTheirs /\ NotYet

\* A thread with nothing to do has a job of the type.
LEMMA NoJobType == NoJob \in JobType
<1>1. 0 \in Handles /\ NoFile \in Places
  BY RingAssumption DEF Handles, Slots, Places
<1>2. -1 \in Fds \cup {-1} /\ 0 \in Nat /\ "none" \in Ops
  BY DEF Ops
<1> QED BY <1>1, <1>2 DEF NoJob, JobType

\* The invariant holds at the start.
LEMMA RingInit == Init => RingInv
<1> SUFFICES ASSUME Init PROVE RingInv
  OBVIOUS
<1>1. NoJob \in JobType
  BY NoJobType
<1>2. RingType
  BY <1>1, RingAssumption DEF Init, RingType, FdTables, Labels
<1>3. Critical /\ NewIsOpen /\ JobHolds /\ FirstHolds /\ CwdIsTheirs /\ NotYet
  BY DEF Init, Critical, NewIsOpen, Holding, JobHolds, FirstHolds, CwdIsTheirs, NotYet
<1>4. SlotsHold /\ BelowCount
  BY DEF Init, SlotsHold, BelowCount
<1>5. Owned
  BY DEF Init, Owned, Holding, NoJob
<1> QED BY <1>2, <1>3, <1>4, <1>5 DEF RingInv

-----------------------------------------------------------------------------
(* The steps of the handlers, as the table sees them.                      *)

Arrived(t) == \E op \in Ops \ {"none"}, resolves \in BOOLEAN :
                op # "renameto" /\ (~resolves => op = "create") /\ Request(t, op, resolves)

\* A place that the request in hand may end in, and where its first handle was.
Reachable(t, at) ==
  /\ at \in Places
  /\ at = Cwd => job[t].fd < 0 /\ job[t].op \in {"lookup", "dirop", "renameto"}

WasReachable(t, was) ==
  /\ was \in Places
  /\ was = Cwd => job[t].old < 0 /\ job[t].op = "renameto"

Answered(t) ==
  /\ pc[t] = "call"
  /\ \E at, was \in Places :
       /\ Reachable(t, at) /\ WasReachable(t, was)
       /\ \/ End(t, at) /\ was = NoFile
          \/ /\ job' = [job EXCEPT ![t].at = at, ![t].was = was]
             /\ pc' = [pc EXCEPT ![t] = "done"]
             /\ UNCHANGED <<fds, table, count, lock, calls, grants, leaked>>

Opened(t) ==
  /\ pc[t] = "call" /\ CanOpen(fds)
  /\ \E at \in Places, f \in Files :
       /\ Reachable(t, at)
       /\ fds' = AfterOpen(fds, f)
       /\ job' = [job EXCEPT ![t].new = NewFd(fds), ![t].at = at]
  /\ \E l \in {"list", "lock"} : pc' = [pc EXCEPT ![t] = l]
  /\ UNCHANGED <<table, count, lock, calls, grants, leaked>>

\* A descriptor leads to a file or to none.
LEMMA ReachedPlace ==
  ASSUME RingType, NEW n
  PROVE  Reached(fds, n) \in Files \cup {NoFile}
BY DEF RingType, FdTables, Reached

\* A handler without a descriptor works in the current directory.
LEMMA DirAtPlace ==
  ASSUME RingType, NEW n \in Fds \cup {-1}
  PROVE  DirAt(n) \in Places /\ (DirAt(n) = Cwd => n < 0)
<1>1. CASE n < 0
  BY <1>1 DEF DirAt, Places
<1>2. CASE ~(n < 0)
  BY <1>2, ReachedPlace, RingAssumption DEF DirAt, Places
<1> QED BY <1>1, <1>2

\* A call ends with an error, or where one handle led.
LEMMA EndStep ==
  ASSUME NEW t \in Threads, NEW at, pc[t] = "call", Reachable(t, at), End(t, at)
  PROVE  Answered(t)
<1>1. WasReachable(t, NoFile) /\ NoFile \in Places /\ at \in Places
  BY RingAssumption DEF WasReachable, Reachable, Places
<1> QED BY <1>1 DEF Answered

\* An open from a directory ends the call or has opened something.
LEMMA OpenFromStep ==
  ASSUME NEW t \in Threads, NEW at, pc[t] = "call", Reachable(t, at), OpenFrom(t, at)
  PROVE  Answered(t) \/ Opened(t)
<1>1. Reachable(t, NoFile)
  BY RingAssumption DEF Reachable, Places
<1>2. CASE End(t, NoFile)
  BY <1>1, <1>2, EndStep
<1>3. CASE ~End(t, NoFile)
  BY <1>3 DEF OpenFrom, Opened, Reachable
<1> QED BY <1>2, <1>3

\* The handlers of ext2fs, as kinds of step.
LEMMA Ext2fsSteps ==
  ASSUME RingType, NEW t \in Threads, Ext2fsArrive(t) \/ Ext2fsOp(t)
  PROVE  Arrived(t) \/ Answered(t) \/ Opened(t) \/ ListFails(t) \/ ListDone(t) \/ Rename(t)
<1> DEFINE fd   == job[t].fd
           at   == DirAt(fd)
           from == DirAt(job[t].old)
<1>1. /\ fd \in Fds \cup {-1} /\ at \in Places /\ (at = Cwd => fd < 0)
      /\ from \in Places /\ (from = Cwd => job[t].old < 0)
  BY DirAtPlace DEF RingType, JobType
<1>2. NoFile \in Places /\ Reachable(t, NoFile)
  BY RingAssumption DEF Reachable, Places
<1>3. job[t].op \in {"lookup", "dirop", "renameto"} => Reachable(t, at)
  BY <1>1 DEF Reachable
<1>4. job[t].op = "renameto" => WasReachable(t, from)
  BY <1>1 DEF WasReachable
<1>5. /\ Reached(fds, job[t].fd) \in Files \cup {NoFile}
      /\ Reached(fds, job[t].fd) \in Places /\ Reachable(t, Reached(fds, job[t].fd))
  BY ReachedPlace, RingAssumption DEF Places, Reachable
<1> HIDE DEF fd, at, from
<1>6. CASE Ext2fsArrive(t)
  BY <1>6 DEF Ext2fsArrive, Arrived, Ops
<1>7. CASE Lookup(t)
  BY <1>7, <1>1, <1>2, <1>3, OpenFromStep, EndStep DEF Lookup, at, fd
<1>8. CASE Readdir(t)
  BY <1>8, <1>2, <1>5, EndStep DEF Readdir, Opened
<1>9. CASE Mkfile(t)
  BY <1>9, <1>2, OpenFromStep DEF Mkfile
<1>10. CASE DirOp(t)
  BY <1>10, <1>2, <1>3, EndStep DEF DirOp, at, fd
<1>11. CASE RenameTo(t)
  BY <1>11, <1>1, <1>2, <1>3, <1>4, EndStep DEF RenameTo, Answered, at, fd, from
<1>12. CASE FileOp(t)
  BY <1>12, <1>2, <1>5, EndStep DEF FileOp
<1> QED BY <1>6, <1>7, <1>8, <1>9, <1>10, <1>11, <1>12 DEF Ext2fsOp

\* The handlers of pfinet, as kinds of step.
LEMMA PfinetSteps ==
  ASSUME RingType, NEW t \in Threads,
         PfinetArrive(t) \/ Create(t) \/ Accept(t) \/ SocketOp(t)
  PROVE  Arrived(t) \/ Answered(t) \/ Opened(t)
<1>1. NoFile \in Places /\ Reachable(t, NoFile)
  BY RingAssumption DEF Reachable, Places
<1>2. Reached(fds, job[t].fd) \in Places /\ Reachable(t, Reached(fds, job[t].fd))
  BY ReachedPlace, RingAssumption DEF Places, Reachable
<1>3. CASE PfinetArrive(t)
  BY <1>3 DEF PfinetArrive, Arrived, Ops
<1>4. CASE Create(t)
  BY <1>4, <1>1, OpenFromStep DEF Create
<1>5. CASE Accept(t)
  BY <1>5, <1>1, <1>2, OpenFromStep, EndStep DEF Accept
<1>6. CASE SocketOp(t)
  BY <1>6, <1>1, <1>2, EndStep DEF SocketOp
<1> QED BY <1>3, <1>4, <1>5, <1>6

-----------------------------------------------------------------------------
(* Grants, and what the working directory is reached with.                  *)

\* Every grant has a slot and a file.
LEMMA GrantTypes ==
  ASSUME RingType
  PROVE  /\ Len(grants) \in Nat
         /\ \A g \in 1 .. Len(grants) : grants[g].handle \in Slots /\ grants[g].file \in Files
<1>1. grants \in Seq([handle : Slots, file : Files])
  BY DEF RingType
<1>2. \A g \in 1 .. Len(grants) : grants[g] \in [handle : Slots, file : Files]
  BY <1>1, Elements
<1> QED BY <1>1, <1>2, Elements

\* Grants from one on are grants.
LEMMA LaterGrants ==
  ASSUME RingType, NEW g \in Nat, g > 0, NEW l \in g .. Len(grants)
  PROVE  l \in 1 .. Len(grants)
BY GrantTypes

\* A client passes the handle of a grant, or any number.
LEMMA GrantOrGuess ==
  ASSUME RingType, NEW g \in 0 .. Len(grants),
         NEW h \in IF g = 0 THEN Handles ELSE {grants[g].handle}
  PROVE  g \in Nat /\ h \in Handles /\ (g > 0 => g \in 1 .. Len(grants) /\ h = grants[g].handle)
<1>1. Len(grants) \in Nat /\ g \in Nat
  BY GrantTypes
<1>2. ASSUME g > 0 PROVE g \in 1 .. Len(grants) /\ g # 0
  BY <1>1, <1>2
<1>3. ASSUME g = 0 PROVE h \in Handles
  BY <1>3
<1>4. ASSUME g > 0 PROVE h \in Handles /\ h = grants[g].handle
  BY <1>2, <1>4, GrantTypes DEF Handles
<1> QED BY <1>1, <1>2, <1>3, <1>4

\* A client with a handle of its own is never answered from the current
\* directory, for its first handle or its last.
LEMMA StrangerAtCwd ==
  ASSUME RingInv, NEW t \in Threads, pc[t] = "call"
  PROVE  /\ Reachable(t, Cwd) => job[t].meant = 0
         /\ WasReachable(t, Cwd) => job[t].oldmeant = 0
<1>1. job[t] \in JobType
  BY DEF RingInv, RingType
<1>2. ASSUME Reachable(t, Cwd), job[t].meant > 0 PROVE FALSE
  <2>1. job[t].fd < 0 /\ job[t].op # "create"
    BY <1>2 DEF Reachable
  <2>2. job[t].fd \in Fds
    BY <1>2, <2>1 DEF RingInv, JobHolds
  <2> QED BY <2>1, <2>2, NFdsAssumption DEF Fds
<1>3. ASSUME WasReachable(t, Cwd), job[t].oldmeant > 0 PROVE FALSE
  <2>1. job[t].old < 0 /\ job[t].op = "renameto"
    BY <1>3 DEF WasReachable
  <2>2. job[t].old \in Fds
    BY <1>1, <1>3, <2>1 DEF RingInv, FirstHolds, JobType
  <2> QED BY <2>1, <2>2, NFdsAssumption DEF Fds
<1> QED BY <1>1, <1>2, <1>3 DEF JobType

-----------------------------------------------------------------------------
(* Each kind of step keeps the invariant.                                  *)

\* A step that opens and closes nothing, and stores nothing in the table.
LEMMA OwnedKept ==
  ASSUME RingInv, UNCHANGED <<fds, table>>,
         \A s \in Threads : Holding(s)' => Holding(s) /\ job'[s].new = job[s].new,
         \A s \in Threads : /\ job'[s].fd \in {-1, job[s].fd} \cup {table[i] : i \in Slots}
                            /\ job'[s].old \in {-1, job[s].fd, job[s].old}
  PROVE  Owned'
<1> DEFINE Now(m) == /\ m \in Fds /\ fds'[m] \in Files
                       /\ \A s \in Threads : Holding(s)' => job'[s].new # m
<1>1. ASSUME NEW n, Shared(n) PROVE Now(n)
  BY <1>1 DEF Shared
<1> HIDE DEF Now
<1>2. \A i \in Slots : table'[i] # -1 => Now(table'[i])
  BY <1>1 DEF RingInv, Owned
<1>3. ASSUME NEW s \in Threads
      PROVE  /\ job'[s].fd # -1 => Now(job'[s].fd)
             /\ job'[s].old # -1 => Now(job'[s].old)
  BY <1>1 DEF RingInv, Owned
<1>4. \A r, s \in Threads : Holding(r)' /\ Holding(s)' /\ job'[r].new = job'[s].new => r = s
  BY DEF RingInv, Owned
<1> QED BY <1>2, <1>3, <1>4 DEF Owned, Shared, Now

\* A request arrives.
LEMMA ArrivedKeeps ==
  ASSUME RingInv, NEW t \in Threads, Arrived(t)
  PROVE  RingInv'
<1>1. PICK op \in Ops \ {"none"}, resolves \in BOOLEAN :
        op # "renameto" /\ (~resolves => op = "create") /\ Request(t, op, resolves)
  BY DEF Arrived
<1>2. PICK g \in 0 .. Len(grants) :
        \E h \in IF g = 0 THEN Handles ELSE {grants[g].handle} :
          job' = [job EXCEPT ![t] = [NoJob EXCEPT !.op = op, !.handle = h, !.meant = g]]
  BY <1>1 DEF Request
<1>3. PICK h \in IF g = 0 THEN Handles ELSE {grants[g].handle} :
        job' = [job EXCEPT ![t] = [NoJob EXCEPT !.op = op, !.handle = h, !.meant = g]]
  BY <1>2
<1>4. g \in Nat /\ h \in Handles /\ (g > 0 => g \in 1 .. Len(grants) /\ h = grants[g].handle)
  BY GrantOrGuess DEF RingInv
<1>5. /\ pc[t] = "idle" /\ pc' = [pc EXCEPT ![t] = IF resolves THEN "test" ELSE "call"]
      /\ UNCHANGED <<fds, table, count, lock, grants, leaked>>
  BY <1>1 DEF Request
<1> DEFINE j == [NoJob EXCEPT !.op = op, !.handle = h, !.meant = g]
<1>6. /\ j \in JobType
      /\ j.op = op /\ j.handle = h /\ j.meant = g /\ j.at = NoFile /\ j.was = NoFile
      /\ j.fd = -1 /\ j.old = -1
  BY <1>4, NoJobType DEF JobType, NoJob
<1> HIDE DEF j
<1>7. job' = [job EXCEPT ![t] = j] /\ job \in [Threads -> JobType]
      /\ pc \in [Threads -> Labels]
  BY <1>3 DEF j, RingInv, RingType
<1>8. /\ job'[t] = j /\ \A s \in Threads \ {t} : job'[s] = job[s]
      /\ pc'[t] \in {"test", "call"} /\ \A s \in Threads \ {t} : pc'[s] = pc[s]
      /\ pc'[t] = "call" => op = "create"
  BY <1>1, <1>5, <1>7
<1>9. RingType'
  BY <1>5, <1>6, <1>7 DEF RingInv, RingType, Labels
<1>10. Critical' /\ NewIsOpen'
  BY <1>5, <1>8 DEF RingInv, Critical, NewIsOpen, Holding
<1>11. SlotsHold' /\ BelowCount'
  BY <1>5, <1>8 DEF RingInv, SlotsHold, BelowCount, Holds
<1>12. JobHolds'
  BY <1>4, <1>5, <1>6, <1>8 DEF RingInv, JobHolds
<1>13. CwdIsTheirs' /\ FirstHolds' /\ NotYet'
  BY <1>1, <1>6, <1>8, RingAssumption DEF RingInv, CwdIsTheirs, FirstHolds, NotYet
<1>14. Owned'
  BY <1>5, <1>6, <1>8, OwnedKept DEF Holding
<1> QED BY <1>9, <1>10, <1>11, <1>12, <1>13, <1>14 DEF RingInv

\* A handler answers.
LEMMA AnsweredKeeps ==
  ASSUME RingInv, NEW t \in Threads, Answered(t)
  PROVE  RingInv'
<1>1. RingType /\ job[t] \in JobType /\ pc[t] = "call" /\ job[t].was = NoFile
  BY DEF RingInv, RingType, Answered, NotYet
<1>2. PICK at \in Places, was \in Places :
        /\ Reachable(t, at) /\ WasReachable(t, was)
        /\ \/ End(t, at) /\ was = NoFile
           \/ /\ job' = [job EXCEPT ![t].at = at, ![t].was = was]
              /\ pc' = [pc EXCEPT ![t] = "done"]
              /\ UNCHANGED <<fds, table, count, lock, calls, grants, leaked>>
  BY DEF Answered
<1>3. /\ pc' = [pc EXCEPT ![t] = "done"]
      /\ UNCHANGED <<fds, table, count, lock, grants, leaked>>
  BY <1>2 DEF End
<1>4. /\ job' \in [Threads -> JobType] /\ job'[t].at = at /\ job'[t].was = was
      /\ job'[t].op = job[t].op /\ job'[t].handle = job[t].handle
      /\ job'[t].meant = job[t].meant /\ job'[t].oldmeant = job[t].oldmeant
      /\ job'[t].fd = job[t].fd /\ job'[t].old = job[t].old
      /\ \A s \in Threads \ {t} : job'[s] = job[s]
  <2>1. CASE End(t, at) /\ was = NoFile
    BY <1>1, <2>1 DEF End, RingType, JobType
  <2>2. CASE job' = [job EXCEPT ![t].at = at, ![t].was = was]
    BY <1>1, <2>2 DEF RingType, JobType
  <2> QED BY <1>2, <2>1, <2>2
<1>5. pc'[t] = "done" /\ \A s \in Threads \ {t} : pc'[s] = pc[s]
  BY <1>1, <1>3 DEF RingType
<1>6. RingType'
  BY <1>1, <1>3, <1>4 DEF RingType, Labels
<1>7. Critical' /\ NewIsOpen' /\ NotYet'
  BY <1>3, <1>4, <1>5 DEF RingInv, Critical, NewIsOpen, Holding, NotYet
<1>8. SlotsHold' /\ BelowCount'
  <2>1. SlotsHold'
    BY <1>3 DEF RingInv, SlotsHold, Holds
  <2>2. BelowCount'
    BY <1>3, <1>4, <1>5 DEF RingInv, BelowCount, Holds
  <2> QED BY <2>1, <2>2
<1>9. JobHolds' /\ FirstHolds'
  BY <1>1, <1>3, <1>4, <1>5 DEF RingInv, JobHolds, FirstHolds
<1>10. CwdIsTheirs'
  <2>1. (at = Cwd => job[t].meant = 0) /\ (was = Cwd => job[t].oldmeant = 0)
    BY <1>1, <1>2, StrangerAtCwd
  <2> QED BY <1>2, <1>4, <1>5, <2>1 DEF RingInv, CwdIsTheirs, Reachable, WasReachable
<1>11. Owned'
  BY <1>3, <1>4, <1>5, OwnedKept DEF Holding
<1> QED BY <1>6, <1>7, <1>8, <1>9, <1>10, <1>11 DEF RingInv

\* A handler has opened a descriptor: nobody had its number.
LEMMA OpenedKeeps ==
  ASSUME RingInv, NEW t \in Threads, Opened(t)
  PROVE  RingInv'
<1>1. PICK at \in Places, f \in Files :
        /\ Reachable(t, at)
        /\ fds' = AfterOpen(fds, f)
        /\ job' = [job EXCEPT ![t].new = NewFd(fds), ![t].at = at]
  BY DEF Opened
<1>2. /\ \E l \in {"list", "lock"} : pc' = [pc EXCEPT ![t] = l]
      /\ pc[t] = "call" /\ CanOpen(fds)
      /\ UNCHANGED <<table, count, lock, grants, leaked>>
  BY DEF Opened
<1>3. RingType /\ job[t] \in JobType /\ fds \in FdTables
  BY DEF RingInv, RingType
<1> DEFINE n == NewFd(fds)
<1>4. /\ fds' \in FdTables /\ n \in Fds /\ fds'[n] \in Files /\ fds[n] = NoFile
      /\ \A m \in Fds : fds[m] \in Files => fds'[m] = fds[m] /\ m # n
  BY <1>1, <1>2, <1>3, OpenKeeps, NoFileAssumption
<1>5. /\ job'[t] \in JobType /\ job'[t].at = at /\ job'[t].new = n
      /\ job'[t].op = job[t].op /\ job'[t].handle = job[t].handle
      /\ job'[t].meant = job[t].meant /\ job'[t].oldmeant = job[t].oldmeant
      /\ job'[t].fd = job[t].fd /\ job'[t].old = job[t].old /\ job'[t].was = job[t].was
      /\ \A s \in Threads \ {t} : job'[s] = job[s]
  BY <1>1, <1>3, <1>4 DEF RingType, JobType
<1> HIDE DEF n
<1>6. pc'[t] \in {"list", "lock"} /\ \A s \in Threads \ {t} : pc'[s] = pc[s]
  BY <1>2, <1>3 DEF RingType
<1>7. RingType'
  <2>1. job' \in [Threads -> JobType]
    BY <1>1, <1>3, <1>5 DEF RingType
  <2> QED BY <1>2, <1>3, <1>4, <2>1 DEF RingType, Labels
<1>8. Critical'
  BY <1>2, <1>5, <1>6 DEF RingInv, Critical
<1>9. NewIsOpen'
  BY <1>4, <1>5, <1>6 DEF RingInv, NewIsOpen, Holding
<1>10. \A g \in 1 .. Len(grants) : grants[g].file \in Files
  BY <1>3, GrantTypes
<1>11. \A h, g : g \in 1 .. Len(grants) /\ Holds(h, g) => Holds(h, g)'
  BY <1>2, <1>4, <1>10 DEF Holds
<1>12. SlotsHold'
  BY <1>2, <1>11, LaterGrants DEF RingInv, SlotsHold
<1>13. BelowCount'
  BY <1>2, <1>5, <1>6, <1>11 DEF RingInv, BelowCount
<1>14. JobHolds'
  BY SMTT(30), <1>2, <1>4, <1>5, <1>6, <1>10, LaterGrants, <1>3 DEF RingInv, JobHolds, JobType
<1>15. CwdIsTheirs' /\ FirstHolds' /\ NotYet'
  <2>1. at = Cwd => job[t].meant = 0
    BY <1>1, <1>2, StrangerAtCwd
  <2>2. CwdIsTheirs'
    <3>1. /\ at = Cwd => job[t].op \in {"lookup", "dirop", "renameto"}
          /\ job[t].was = Cwd => job[t].oldmeant = 0 /\ job[t].op = "renameto"
      BY <1>1, <1>2 DEF RingInv, CwdIsTheirs, Reachable
    <3>2. ASSUME NEW s \in Threads, pc'[s] # "idle"
          PROVE  /\ job'[s].at = Cwd =>
                      job'[s].meant = 0 /\ job'[s].op \in {"lookup", "dirop", "renameto"}
                 /\ job'[s].was = Cwd => job'[s].oldmeant = 0 /\ job'[s].op = "renameto"
      <4>1. CASE s = t
        BY <1>5, <2>1, <3>1, <4>1
      <4>2. CASE s # t
        BY <1>5, <1>6, <3>2, <4>2 DEF RingInv, CwdIsTheirs
      <4> QED BY <4>1, <4>2
    <3> QED BY <3>2 DEF CwdIsTheirs
  <2>3. FirstHolds' /\ NotYet'
    BY <1>2, <1>5, <1>6 DEF RingInv, FirstHolds, NotYet
  <2> QED BY <2>2, <2>3
<1>16. Owned'
  <2> DEFINE Now(m) == /\ m \in Fds /\ fds'[m] \in Files
                         /\ \A s \in Threads : Holding(s)' => job'[s].new # m
  <2>1. ASSUME NEW m, Shared(m) PROVE Now(m)
    BY <1>4, <1>5, <1>6, <2>1 DEF Shared, Holding
  <2> HIDE DEF Now
  <2>2. \A i \in Slots : table'[i] # -1 => Now(table'[i])
    BY <1>2, <2>1 DEF RingInv, Owned
  <2>3. ASSUME NEW s \in Threads
        PROVE  /\ job'[s].fd # -1 => Now(job'[s].fd)
               /\ job'[s].old # -1 => Now(job'[s].old)
    <3>1. job'[s].fd = job[s].fd /\ job'[s].old = job[s].old
      BY <1>5
    <3> QED BY <2>1, <3>1 DEF RingInv, Owned
  <2>4. ASSUME NEW q \in Threads, NEW s \in Threads, Holding(q)', Holding(s)',
               job'[q].new = job'[s].new
        PROVE  q = s
    <3>1. \A u \in Threads \ {t} : Holding(u)' => Holding(u) /\ job'[u].new # n
      BY <1>4, <1>5, <1>6 DEF RingInv, NewIsOpen, Holding
    <3> QED BY <1>5, <2>4, <3>1 DEF RingInv, Owned
  <2> QED BY <2>2, <2>3, <2>4 DEF Owned, Shared, Now
<1> QED BY <1>7, <1>8, <1>9, <1>12, <1>13, <1>14, <1>15, <1>16 DEF RingInv

\* fdopendir fails.
LEMMA ListFailsKeeps ==
  ASSUME RingInv, NEW t \in Threads, ListFails(t)
  PROVE  RingInv'
<1>1. /\ pc[t] = "list" /\ pc' = [pc EXCEPT ![t] = "done"] /\ leaked' = leaked + 1
      /\ UNCHANGED <<fds, table, count, lock, job, grants>>
  BY DEF ListFails
<1>2. RingType
  BY DEF RingInv
<1>3. pc'[t] = "done" /\ \A s \in Threads \ {t} : pc'[s] = pc[s]
  BY <1>1, <1>2 DEF RingType
<1>4. RingType'
  BY <1>1, <1>2 DEF RingType, Labels
<1>5. Critical' /\ NewIsOpen' /\ NotYet'
  BY <1>1, <1>3 DEF RingInv, Critical, NewIsOpen, Holding, NotYet
<1>6. SlotsHold' /\ BelowCount'
  BY <1>1, <1>3 DEF RingInv, SlotsHold, BelowCount, Holds
<1>7. JobHolds' /\ FirstHolds' /\ CwdIsTheirs'
  BY <1>1, <1>3 DEF RingInv, JobHolds, FirstHolds, CwdIsTheirs
<1>8. Owned'
  BY <1>1, <1>3, OwnedKept DEF Holding
<1> QED BY <1>4, <1>5, <1>6, <1>7, <1>8 DEF RingInv

\* closedir closes a descriptor that nobody else has.
LEMMA ListDoneKeeps ==
  ASSUME RingInv, NEW t \in Threads, ListDone(t)
  PROVE  RingInv'
<1>1. /\ pc[t] = "list" /\ pc' = [pc EXCEPT ![t] = "done"]
      /\ fds' = AfterClose(fds, job[t].new)
      /\ UNCHANGED <<table, count, lock, job, grants, leaked>>
  BY DEF ListDone
<1>2. RingType /\ Owned
  BY DEF RingInv
<1>3. pc'[t] = "done" /\ \A s \in Threads \ {t} : pc'[s] = pc[s]
  BY <1>1, <1>2 DEF RingType
<1>4. Holding(t) /\ ~Holding(t)' /\ \A s \in Threads \ {t} : Holding(s)' <=> Holding(s)
  BY <1>1, <1>3 DEF Holding
<1>5. \A m \in Fds : m # job[t].new => fds'[m] = fds[m]
  BY <1>1 DEF AfterClose
<1> DEFINE Now(m) == /\ m \in Fds /\ fds'[m] \in Files
                       /\ \A s \in Threads : Holding(s)' => job'[s].new # m
<1>6. ASSUME NEW m, Shared(m) PROVE m \in Fds /\ fds'[m] = fds[m] /\ Now(m)
  BY <1>1, <1>4, <1>5, <1>6 DEF Shared
<1> HIDE DEF Now
<1>7. RingType'
  BY <1>1, <1>2 DEF RingType, Labels, AfterClose, FdTables
<1>8. Critical' /\ CwdIsTheirs' /\ FirstHolds' /\ NotYet'
  BY <1>1, <1>3 DEF RingInv, Critical, CwdIsTheirs, FirstHolds, NotYet
<1>9. NewIsOpen'
  <2> SUFFICES ASSUME NEW s \in Threads, Holding(s)'
               PROVE  job[s].new \in Fds /\ fds'[job[s].new] \in Files
    BY <1>1 DEF NewIsOpen
  <2>1. Holding(s) /\ s # t
    BY <1>4
  <2>2. job[s].new # job[t].new
    BY <1>2, <1>4, <2>1 DEF Owned
  <2> QED BY <1>5, <2>1, <2>2 DEF RingInv, NewIsOpen
<1>10. ASSUME NEW h \in Slots, NEW g, Holds(h, g) PROVE Holds(h, g)'
  <2>1. table[h] # -1 /\ table[h] \in Fds
    BY <1>10, NFdsAssumption DEF Holds, Fds
  <2>2. fds'[table[h]] = fds[table[h]]
    BY <1>2, <1>6, <2>1 DEF Owned
  <2> QED BY <1>1, <1>10, <2>1, <2>2 DEF Holds
<1>11. \A g \in 1 .. Len(grants) : grants[g].handle \in Slots
  BY <1>2, GrantTypes
<1>12. SlotsHold'
  BY <1>1, <1>10, <1>11 DEF RingInv, SlotsHold
<1>13. BelowCount'
  BY <1>1, <1>3, <1>10, <1>11 DEF RingInv, BelowCount
<1>14. JobHolds'
  <2>1. \A s \in Threads : job[s].fd \in Fds => fds'[job[s].fd] = fds[job[s].fd]
    <3> SUFFICES ASSUME NEW s \in Threads, job[s].fd \in Fds
                 PROVE  fds'[job[s].fd] = fds[job[s].fd]
      OBVIOUS
    <3>1. job[s].fd # -1
      BY NFdsAssumption DEF Fds
    <3> QED BY <1>2, <1>6, <3>1 DEF Owned
  <2> QED BY <1>1, <1>3, <2>1 DEF RingInv, JobHolds
<1>15. Owned'
  <2>1. \A i \in Slots : table'[i] # -1 => Now(table'[i])
    BY <1>1, <1>2, <1>6 DEF Owned
  <2>2. \A s \in Threads : /\ job'[s].fd # -1 => Now(job'[s].fd)
                           /\ job'[s].old # -1 => Now(job'[s].old)
    BY <1>1, <1>2, <1>6 DEF Owned
  <2>3. \A q, s \in Threads : Holding(q)' /\ Holding(s)' /\ job'[q].new = job'[s].new => q = s
    BY <1>1, <1>2, <1>4 DEF Owned
  <2> QED BY <2>1, <2>2, <2>3 DEF Owned, Shared, Now
<1> QED BY <1>7, <1>8, <1>9, <1>12, <1>13, <1>14, <1>15 DEF RingInv

\* dir_rename goes on with its second handle.
LEMMA RenameKeeps ==
  ASSUME RingInv, NEW t \in Threads, Rename(t)
  PROVE  RingInv'
<1>1. PICK g \in 0 .. Len(grants) :
        \E h \in IF g = 0 THEN Handles ELSE {grants[g].handle} :
          job' = [job EXCEPT ![t].op = "renameto", ![t].handle = h, ![t].meant = g,
                    ![t].fd = -1, ![t].old = job[t].fd, ![t].oldmeant = job[t].meant]
  BY DEF Rename
<1>2. PICK h \in IF g = 0 THEN Handles ELSE {grants[g].handle} :
        job' = [job EXCEPT ![t].op = "renameto", ![t].handle = h, ![t].meant = g,
                  ![t].fd = -1, ![t].old = job[t].fd, ![t].oldmeant = job[t].meant]
  BY <1>1
<1>3. /\ pc[t] = "call" /\ job[t].op = "rename" /\ pc' = [pc EXCEPT ![t] = "test"]
      /\ UNCHANGED <<fds, table, count, lock, grants, leaked>>
  BY DEF Rename
<1>4. RingType /\ job[t] \in JobType
  BY DEF RingInv, RingType
<1>5. g \in Nat /\ h \in Handles /\ (g > 0 => g \in 1 .. Len(grants) /\ h = grants[g].handle)
  BY <1>4, GrantOrGuess
<1>6. /\ job' \in [Threads -> JobType]
      /\ job'[t].op = "renameto" /\ job'[t].handle = h /\ job'[t].meant = g
      /\ job'[t].fd = -1 /\ job'[t].old = job[t].fd /\ job'[t].oldmeant = job[t].meant
      /\ job'[t].at = job[t].at /\ job'[t].was = job[t].was
      /\ \A s \in Threads \ {t} : job'[s] = job[s]
  BY <1>2, <1>4, <1>5 DEF RingType, JobType, Ops
<1>7. pc'[t] = "test" /\ \A s \in Threads \ {t} : pc'[s] = pc[s]
  BY <1>3, <1>4 DEF RingType
<1>8. RingType'
  BY <1>3, <1>4, <1>6 DEF RingType, Labels
<1>9. Critical' /\ NewIsOpen' /\ NotYet'
  BY <1>3, <1>6, <1>7 DEF RingInv, Critical, NewIsOpen, Holding, NotYet
<1>10. SlotsHold' /\ BelowCount'
  BY <1>3, <1>6, <1>7 DEF RingInv, SlotsHold, BelowCount, Holds
<1>11. JobHolds'
  BY <1>3, <1>5, <1>6, <1>7 DEF RingInv, JobHolds
<1>12. FirstHolds'
  <2>1. job[t].meant > 0 => job[t].fd # -1
    BY <1>3, NFdsAssumption DEF RingInv, JobHolds, Fds
  <2> QED BY <1>6, <1>7, <2>1 DEF RingInv, FirstHolds
<1>13. CwdIsTheirs'
  BY <1>3, <1>6, <1>7, RingAssumption DEF RingInv, CwdIsTheirs, NotYet
<1>14. Owned'
  BY <1>3, <1>6, <1>7, OwnedKept DEF Holding
<1> QED BY <1>8, <1>9, <1>10, <1>11, <1>12, <1>13, <1>14 DEF RingInv

\* port_to_fd tests the slot.
LEMMA TestKeeps ==
  ASSUME RingInv, NEW t \in Threads, TestSlot(t)
  PROVE  RingInv'
<1>1. /\ pc[t] = "test"
      /\ pc' = [pc EXCEPT ![t] = IF table[Slot(job[t].handle)] >= 0 THEN "load" ELSE "call"]
      /\ UNCHANGED <<fds, table, count, lock, job, grants, leaked>>
  BY DEF TestSlot
<1>2. RingType /\ job[t] \in JobType
  BY DEF RingInv, RingType
<1>3. pc'[t] \in {"load", "call"} /\ \A s \in Threads \ {t} : pc'[s] = pc[s]
  BY <1>1, <1>2 DEF RingType
<1>4. job[t].meant > 0 => pc'[t] = "load"
  <2>1. SUFFICES ASSUME job[t].meant > 0 PROVE table[Slot(job[t].handle)] >= 0
    BY <1>1, <1>2 DEF RingType
  <2>2. job[t].meant \in 1 .. Len(grants) /\ grants[job[t].meant].handle = job[t].handle
    BY <1>1, <2>1 DEF RingInv, JobHolds
  <2>3. table[job[t].handle] \in Fds
    BY <2>2 DEF RingInv, SlotsHold, Holds
  <2> QED BY <2>3, NFdsAssumption DEF Slot, Fds
<1>5. RingType'
  BY <1>1, <1>2 DEF RingType, Labels
<1>6. Critical' /\ NewIsOpen' /\ CwdIsTheirs' /\ FirstHolds' /\ NotYet'
  BY <1>1, <1>3 DEF RingInv, Critical, NewIsOpen, Holding, CwdIsTheirs, FirstHolds, NotYet
<1>7. SlotsHold' /\ BelowCount'
  BY <1>1, <1>3 DEF RingInv, SlotsHold, BelowCount, Holds
<1>8. JobHolds'
  BY <1>1, <1>3, <1>4 DEF RingInv, JobHolds
<1>9. Owned'
  BY <1>1, <1>3, OwnedKept DEF Holding
<1> QED BY <1>5, <1>6, <1>7, <1>8, <1>9 DEF RingInv

\* port_to_fd loads the slot.
LEMMA LoadKeeps ==
  ASSUME RingInv, NEW t \in Threads, LoadSlot(t)
  PROVE  RingInv'
<1>1. /\ pc[t] = "load" /\ pc' = [pc EXCEPT ![t] = "call"]
      /\ job' = [job EXCEPT ![t].fd = table[Slot(job[t].handle)]]
      /\ UNCHANGED <<fds, table, count, lock, grants, leaked>>
  BY DEF LoadSlot
<1>2. RingType /\ job[t] \in JobType
  BY DEF RingInv, RingType
<1>3. table[job[t].handle] \in Fds \cup {-1}
  BY <1>2 DEF RingType, JobType, Handles
<1>4. /\ job'[t] \in JobType /\ job'[t].fd = table[job[t].handle]
      /\ job'[t].op = job[t].op /\ job'[t].handle = job[t].handle
      /\ job'[t].meant = job[t].meant /\ job'[t].at = job[t].at
      /\ job'[t].old = job[t].old /\ job'[t].oldmeant = job[t].oldmeant
      /\ job'[t].was = job[t].was
      /\ \A s \in Threads \ {t} : job'[s] = job[s]
  BY <1>1, <1>2, <1>3 DEF RingType, JobType, Slot
<1>5. pc'[t] = "call" /\ \A s \in Threads \ {t} : pc'[s] = pc[s]
  BY <1>1, <1>2 DEF RingType
<1>6. RingType'
  BY <1>1, <1>2, <1>4 DEF RingType, Labels
<1>7. Critical' /\ NewIsOpen' /\ CwdIsTheirs' /\ FirstHolds' /\ NotYet'
  BY <1>1, <1>4, <1>5
     DEF RingInv, Critical, NewIsOpen, Holding, CwdIsTheirs, FirstHolds, NotYet
<1>8. SlotsHold' /\ BelowCount'
  BY <1>1, <1>4, <1>5 DEF RingInv, SlotsHold, BelowCount, Holds
<1>9. ASSUME job[t].meant > 0
      PROVE  /\ job[t].meant \in 1 .. Len(grants)
             /\ grants[job[t].meant].handle = job[t].handle
             /\ \E l \in job[t].meant .. Len(grants) : Holds(job[t].handle, l)
  BY <1>1, <1>9 DEF RingInv, JobHolds, SlotsHold
<1>10. JobHolds'
  <2> SUFFICES ASSUME NEW s \in Threads, job'[s].meant > 0
               PROVE  /\ pc'[s] # "idle" =>
                           /\ job'[s].meant \in 1 .. Len(grants)
                           /\ grants[job'[s].meant].handle = job'[s].handle
                      /\ pc'[s] = "call" /\ job'[s].op # "create" =>
                           \E l \in job'[s].meant .. Len(grants) :
                             /\ grants[l].handle = job'[s].handle
                             /\ job'[s].fd \in Fds /\ fds[job'[s].fd] = grants[l].file
    BY <1>1 DEF JobHolds
  <2>1. CASE s = t
    <3>1. job[t].meant > 0
      BY <1>4, <2>1
    <3>2. PICK l \in job[t].meant .. Len(grants) : Holds(job[t].handle, l)
      BY <1>9, <3>1
    <3> QED BY <1>4, <1>9, <2>1, <3>1, <3>2 DEF Holds
  <2>2. CASE s # t
    <3>1. job'[s] = job[s] /\ pc'[s] = pc[s]
      BY <1>4, <1>5, <2>2
    <3> QED BY <3>1 DEF RingInv, JobHolds
  <2> QED BY <2>1, <2>2
<1>11. Owned'
  <2>1. job[t].handle \in Slots
    BY <1>2 DEF JobType, Handles
  <2> QED BY <1>1, <1>4, <1>5, <2>1, OwnedKept DEF Holding
<1> QED BY <1>6, <1>7, <1>8, <1>10, <1>11 DEF RingInv

\* fd_to_port takes the lock and reads the count.
LEMMA LockKeeps ==
  ASSUME RingInv, NEW t \in Threads, LockTable(t)
  PROVE  RingInv'
<1>1. /\ pc[t] = "lock" /\ pc' = [pc EXCEPT ![t] = "bump"]
      /\ lock = NoThread /\ lock' = t
      /\ job' = [job EXCEPT ![t].idx = count]
      /\ UNCHANGED <<fds, table, count, grants, leaked>>
  BY DEF LockTable
<1>2. RingType /\ job[t] \in JobType /\ count \in Nat
  BY DEF RingInv, RingType
<1>3. /\ job'[t] \in JobType /\ job'[t].idx = count
      /\ job'[t].op = job[t].op /\ job'[t].handle = job[t].handle
      /\ job'[t].meant = job[t].meant /\ job'[t].at = job[t].at
      /\ job'[t].fd = job[t].fd /\ job'[t].new = job[t].new
      /\ job'[t].old = job[t].old /\ job'[t].oldmeant = job[t].oldmeant
      /\ job'[t].was = job[t].was
      /\ \A s \in Threads \ {t} : job'[s] = job[s]
  BY <1>1, <1>2 DEF RingType, JobType
<1>4. pc'[t] = "bump" /\ \A s \in Threads \ {t} : pc'[s] = pc[s]
  BY <1>1, <1>2 DEF RingType
<1>5. \A s \in Threads : pc[s] \notin {"bump", "store"}
  BY <1>1, RingAssumption DEF RingInv, Critical
<1>6. RingType'
  BY <1>1, <1>2, <1>3 DEF RingType, Labels
<1>7. Critical'
  BY <1>1, <1>3, <1>4, <1>5 DEF Critical
<1>8. NewIsOpen' /\ CwdIsTheirs' /\ FirstHolds' /\ NotYet'
  BY <1>1, <1>3, <1>4 DEF RingInv, NewIsOpen, Holding, CwdIsTheirs, FirstHolds, NotYet
<1>9. SlotsHold' /\ BelowCount'
  BY <1>1, <1>3, <1>4 DEF RingInv, SlotsHold, BelowCount, Holds
<1>10. JobHolds'
  BY <1>1, <1>3, <1>4 DEF RingInv, JobHolds
<1>11. Owned'
  BY <1>1, <1>3, <1>4, OwnedKept DEF Holding
<1> QED BY <1>6, <1>7, <1>8, <1>9, <1>10, <1>11 DEF RingInv

\* fd_to_port writes the next count.
LEMMA BumpKeeps ==
  ASSUME RingInv, NEW t \in Threads, Bump(t)
  PROVE  RingInv'
<1>1. /\ pc[t] = "bump" /\ pc' = [pc EXCEPT ![t] = "store"]
      /\ count' = job[t].idx + 1
      /\ UNCHANGED <<fds, table, lock, job, grants, leaked>>
  BY DEF Bump
<1>2. RingType /\ job[t] \in JobType /\ job[t].idx \in Nat
  BY DEF RingInv, RingType, JobType
<1>3. pc'[t] = "store" /\ \A s \in Threads \ {t} : pc'[s] = pc[s]
  BY <1>1, <1>2 DEF RingType
<1>4. lock = t /\ count = job[t].idx
  BY <1>1 DEF RingInv, Critical
<1>5. \A s \in Threads \ {t} : pc[s] \notin {"bump", "store"}
  BY <1>4 DEF RingInv, Critical
<1>6. RingType'
  BY <1>1, <1>2 DEF RingType, Labels
<1>7. Critical' /\ NewIsOpen' /\ CwdIsTheirs' /\ NotYet'
  BY <1>1, <1>3, <1>4, <1>5 DEF RingInv, Critical, NewIsOpen, Holding, CwdIsTheirs, NotYet
<1>8. SlotsHold' /\ JobHolds' /\ FirstHolds'
  BY <1>1, <1>3 DEF RingInv, SlotsHold, JobHolds, FirstHolds, Holds
<1>9. BelowCount'
  <2>1. \A g \in 1 .. Len(grants) : grants[g].handle \in Nat
    BY <1>2, GrantTypes, RingAssumption DEF Slots
  <2>2. count' <= MaxFiles => count <= MaxFiles
    BY <1>1, <1>2, <1>4, RingAssumption
  <2> QED BY <1>1, <1>2, <1>3, <1>4, <1>5, <2>1, <2>2 DEF RingInv, BelowCount, Holds
<1>10. Owned'
  BY <1>1, <1>3, OwnedKept DEF Holding
<1> QED BY <1>6, <1>7, <1>8, <1>9, <1>10 DEF RingInv

\* fd_to_port stores the descriptor in its slot and unlocks.
LEMMA StoreKeeps ==
  ASSUME RingInv, NEW t \in Threads, Store(t)
  PROVE  RingInv'
<1> DEFINE i == job[t].idx % MaxFiles
           grant == [handle |-> i, file |-> fds[job[t].new]]
<1>1. /\ pc[t] = "store" /\ pc' = [pc EXCEPT ![t] = "done"]
      /\ table' = [table EXCEPT ![i] = job[t].new]
      /\ grants' = Append(grants, grant)
      /\ lock' = NoThread
      /\ UNCHANGED <<fds, count, job, leaked>>
  BY DEF Store
<1>2. RingType /\ job[t] \in JobType /\ job[t].idx \in Nat
  BY DEF RingInv, RingType, JobType
<1>3. /\ lock = t /\ count = job[t].idx + 1
      /\ job[t].new \in Fds /\ fds[job[t].new] \in Files
  BY <1>1 DEF RingInv, Critical, NewIsOpen, Holding
<1>4. i \in Slots /\ (count <= MaxFiles => i = job[t].idx)
  BY <1>2, <1>3, Remainder, RingAssumption
<1>5. grant \in [handle : Slots, file : Files]
  BY <1>3, <1>4
<1>6. /\ grants' \in Seq([handle : Slots, file : Files]) /\ Len(grants) \in Nat
      /\ Len(grants') = Len(grants) + 1 /\ grants'[Len(grants) + 1] = grant
      /\ \A g \in 1 .. Len(grants) : grants'[g] = grants[g]
  BY <1>1, <1>2, <1>5, GrantTypes, Appending DEF RingType
<1>7. grant.handle = i /\ grant.file = fds[job[t].new]
  OBVIOUS
<1> HIDE DEF i, grant
<1>8. /\ table' \in [Slots -> Fds \cup {-1}] /\ table'[i] = job[t].new
      /\ \A h \in Slots \ {i} : table'[h] = table[h]
  BY <1>1, <1>2, <1>3, <1>4 DEF RingType
<1>9. pc'[t] = "done" /\ \A s \in Threads \ {t} : pc'[s] = pc[s]
  BY <1>1, <1>2 DEF RingType
<1>10. \A s \in Threads \ {t} : pc[s] \notin {"bump", "store"}
  BY <1>3 DEF RingInv, Critical
<1>11. RingType'
  BY <1>1, <1>2, <1>6, <1>8 DEF RingType, Labels
<1>12. Critical' /\ NewIsOpen' /\ CwdIsTheirs' /\ FirstHolds' /\ NotYet'
  BY <1>1, <1>9, <1>10
     DEF RingInv, Critical, NewIsOpen, Holding, CwdIsTheirs, FirstHolds, NotYet
<1> DEFINE Now(h, l) == /\ grants'[l].handle = h
                        /\ table'[h] \in Fds /\ fds[table'[h]] = grants'[l].file
<1>13. Now(i, Len(grants) + 1)
  BY <1>3, <1>6, <1>7, <1>8
<1>14. ASSUME NEW h \in Slots \ {i}, NEW l \in 1 .. Len(grants), Holds(h, l)
       PROVE  Now(h, l)
  BY <1>6, <1>8, <1>14 DEF Holds
<1>15. SlotsHold'
  <2>1. SUFFICES \A g \in 1 .. Len(grants') :
                   \E l \in g .. Len(grants') : Now(grants'[g].handle, l)
    BY <1>1 DEF SlotsHold, Holds
  <2> HIDE DEF Now
  <2>2. ASSUME NEW g \in 1 .. Len(grants)
        PROVE  \E l \in g .. Len(grants') : Now(grants[g].handle, l)
    <3>1. CASE grants[g].handle = i
      BY <1>6, <1>13, <3>1
    <3>2. CASE grants[g].handle # i
      <4>1. PICK l \in g .. Len(grants) : Holds(grants[g].handle, l)
        BY DEF RingInv, SlotsHold
      <4>2. l \in 1 .. Len(grants) /\ l \in g .. Len(grants') /\ grants[g].handle \in Slots
        BY <1>2, <1>6, GrantTypes
      <4> QED BY <1>14, <3>2, <4>1, <4>2
    <3> QED BY <3>1, <3>2
  <2>3. \A g \in 1 .. Len(grants') : g \in 1 .. Len(grants) \/ g = Len(grants) + 1
    BY <1>6
  <2>4. \E l \in Len(grants) + 1 .. Len(grants') : Now(grants'[Len(grants) + 1].handle, l)
    BY <1>6, <1>7, <1>13
  <2> QED BY <1>6, <2>2, <2>3, <2>4
<1>16. BelowCount'
  <2>1. SUFFICES ASSUME count <= MaxFiles, NEW g \in 1 .. Len(grants')
                 PROVE  Now(grants'[g].handle, g) /\ grants'[g].handle < count
    BY <1>1, <1>9, <1>10 DEF BelowCount, Holds
  <2> HIDE DEF Now
  <2>2. CASE g \in 1 .. Len(grants)
    <3>1. Holds(grants[g].handle, g) /\ grants[g].handle < job[t].idx
      BY <1>1, <2>1, <2>2 DEF RingInv, BelowCount
    <3>2. grants[g].handle \in Slots /\ grants[g].handle \in Nat
      BY <1>2, <2>2, GrantTypes, RingAssumption DEF Slots
    <3>3. grants[g].handle # i /\ grants[g].handle < count
      BY <1>2, <1>3, <1>4, <2>1, <3>1, <3>2
    <3> QED BY <1>6, <1>14, <2>2, <3>1, <3>2, <3>3
  <2>3. CASE g = Len(grants) + 1
    BY <1>2, <1>3, <1>4, <1>6, <1>7, <1>13, <2>1, <2>3
  <2> QED BY <1>6, <2>2, <2>3
<1>17. JobHolds'
  <2>1. \A s \in Threads : pc'[s] # "idle" => pc[s] # "idle"
    BY <1>1, <1>9
  <2>2. \A s \in Threads : pc'[s] = "call" => pc[s] = "call"
    BY <1>1, <1>9
  <2>3. \A s \in Threads : job[s].meant \in Nat
    BY <1>2 DEF RingType, JobType
  <2>4. ASSUME NEW s \in Threads, job[s].meant > 0, pc[s] # "idle"
        PROVE  /\ job[s].meant \in 1 .. Len(grants')
               /\ grants'[job[s].meant].handle = job[s].handle
    BY <1>6, <2>4 DEF RingInv, JobHolds
  <2>5. ASSUME NEW s \in Threads, job[s].meant > 0, pc[s] = "call", job[s].op # "create"
        PROVE  \E l \in job[s].meant .. Len(grants') :
                 /\ grants'[l].handle = job[s].handle
                 /\ job[s].fd \in Fds /\ fds[job[s].fd] = grants'[l].file
    <3>1. PICK l \in job[s].meant .. Len(grants) :
            /\ grants[l].handle = job[s].handle
            /\ job[s].fd \in Fds /\ fds[job[s].fd] = grants[l].file
      BY <2>5 DEF RingInv, JobHolds
    <3>2. l \in 1 .. Len(grants) /\ l \in job[s].meant .. Len(grants')
      BY <1>6, <2>3, <2>5
    <3> QED BY <1>6, <3>1, <3>2
  <2> QED BY <1>1, <2>1, <2>2, <2>4, <2>5 DEF JobHolds
<1>18. Owned'
  <2>1. Holding(t) /\ ~Holding(t)' /\ \A s \in Threads \ {t} : Holding(s)' <=> Holding(s)
    BY <1>1, <1>9 DEF Holding
  <2> DEFINE Kept(m) == /\ m \in Fds /\ fds'[m] \in Files
                          /\ \A s \in Threads : Holding(s)' => job'[s].new # m
  <2>2. ASSUME NEW m, Shared(m) PROVE Kept(m)
    BY <1>1, <2>1, <2>2 DEF Shared
  <2>3. Kept(job[t].new)
    BY <1>1, <1>3, <2>1 DEF RingInv, Owned
  <2> HIDE DEF Kept
  <2>4. \A h \in Slots : table'[h] # -1 => Kept(table'[h])
    BY <1>4, <1>8, <2>2, <2>3 DEF RingInv, Owned
  <2>5. \A s \in Threads : /\ job'[s].fd # -1 => Kept(job'[s].fd)
                           /\ job'[s].old # -1 => Kept(job'[s].old)
    BY <1>1, <2>2 DEF RingInv, Owned
  <2>6. \A q, s \in Threads : Holding(q)' /\ Holding(s)' /\ job'[q].new = job'[s].new => q = s
    BY <1>1, <2>1 DEF RingInv, Owned
  <2> QED BY <2>4, <2>5, <2>6 DEF Owned, Shared, Kept
<1> QED BY <1>11, <1>12, <1>15, <1>16, <1>17, <1>18 DEF RingInv

\* The handler returns.
LEMMA ReturnKeeps ==
  ASSUME RingInv, NEW t \in Threads, Return(t)
  PROVE  RingInv'
<1>1. /\ pc[t] = "done" /\ pc' = [pc EXCEPT ![t] = "idle"]
      /\ job' = [job EXCEPT ![t] = NoJob]
      /\ UNCHANGED <<fds, table, count, lock, grants, leaked>>
  BY DEF Return
<1>2. RingType
  BY DEF RingInv
<1>3. job'[t] = NoJob /\ NoJob.meant = 0 /\ NoJob.fd = -1 /\ NoJob.old = -1 /\ \A s \in Threads \ {t} : job'[s] = job[s]
  BY <1>1, <1>2 DEF RingType, NoJob
<1>4. pc'[t] = "idle" /\ \A s \in Threads \ {t} : pc'[s] = pc[s]
  BY <1>1, <1>2 DEF RingType
<1>5. RingType'
  BY <1>1, <1>2, NoJobType DEF RingType, Labels
<1>6. Critical' /\ NewIsOpen' /\ CwdIsTheirs' /\ FirstHolds' /\ NotYet'
  BY <1>1, <1>3, <1>4
     DEF RingInv, Critical, NewIsOpen, Holding, CwdIsTheirs, FirstHolds, NotYet
<1>7. SlotsHold' /\ BelowCount'
  BY <1>1, <1>3, <1>4 DEF RingInv, SlotsHold, BelowCount, Holds
<1>8. JobHolds'
  BY <1>1, <1>3, <1>4 DEF RingInv, JobHolds
<1>9. Owned'
  BY <1>1, <1>3, <1>4, OwnedKept DEF Holding
<1> QED BY <1>5, <1>6, <1>7, <1>8, <1>9 DEF RingInv

-----------------------------------------------------------------------------
(* Every step of either server, and every step of a process that is neither, *)
(* keeps the invariant.                                                      *)

\* The steps that both servers share.
LEMMA CommonKeeps ==
  ASSUME RingInv, NEW t \in Threads, Common(t)
  PROVE  RingInv'
BY TestKeeps, LoadKeeps, LockKeeps, BumpKeeps, StoreKeeps, ReturnKeeps DEF Common

\* A step that changes nothing keeps the invariant.
LEMMA StutterKeeps ==
  ASSUME RingInv, UNCHANGED vars
  PROVE  RingInv'
<1>1. UNCHANGED <<fds, table, count, lock, pc, job, grants, leaked>>
  BY DEF vars
<1>2. RingType' /\ Critical' /\ NewIsOpen' /\ CwdIsTheirs' /\ FirstHolds' /\ NotYet'
  BY <1>1 DEF RingInv, RingType, Critical, NewIsOpen, Holding, CwdIsTheirs, FirstHolds, NotYet
<1>3. SlotsHold' /\ BelowCount' /\ JobHolds'
  BY <1>1 DEF RingInv, SlotsHold, BelowCount, JobHolds, Holds
<1>4. Owned'
  BY <1>1, OwnedKept DEF Holding
<1> QED BY <1>2, <1>3, <1>4 DEF RingInv

\* Every step of any of the servers keeps the invariant.
LEMMA RingNext == RingInv /\ [Next]_<<vars, rump, server>> => RingInv'
<1> SUFFICES ASSUME RingInv, [Next]_<<vars, rump, server>> PROVE RingInv'
  OBVIOUS
<1>1. RingType
  BY DEF RingInv
<1>2. CASE Ext2fsNext
  <2>1. PICK t \in Threads : Ext2fsArrive(t) \/ Ext2fsOp(t) \/ Common(t)
    BY <1>2 DEF Ext2fsNext
  <2>2. CASE Common(t)
    BY <2>2, CommonKeeps
  <2>3. CASE ~Common(t)
    <3>1. \/ Arrived(t) \/ Answered(t) \/ Opened(t)
          \/ ListFails(t) \/ ListDone(t) \/ Rename(t)
      BY <1>1, <2>1, <2>3, Ext2fsSteps
    <3> QED BY <3>1, ArrivedKeeps, AnsweredKeeps, OpenedKeeps, ListFailsKeeps, ListDoneKeeps,
               RenameKeeps
  <2> QED BY <2>2, <2>3
<1>3. CASE PfinetNext
  <2>1. PICK t \in Threads :
          PfinetArrive(t) \/ Create(t) \/ Accept(t) \/ SocketOp(t) \/ Common(t)
    BY <1>3 DEF PfinetNext
  <2>2. CASE Common(t)
    BY <2>2, CommonKeeps
  <2>3. CASE ~Common(t)
    <3>1. Arrived(t) \/ Answered(t) \/ Opened(t)
      BY <1>1, <2>1, <2>3, PfinetSteps
    <3> QED BY <3>1, ArrivedKeeps, AnsweredKeeps, OpenedKeeps
  <2> QED BY <2>2, <2>3
<1>4. CASE UNCHANGED vars
  BY <1>4, StutterKeeps
<1> QED BY <1>2, <1>3, <1>4 DEF Next

\* The invariant holds throughout.
LEMMA RingInvariant == Spec => []RingInv
<1>1. ServerInit => RingInv
  BY RingInit DEF ServerInit
<1> QED BY <1>1, RingNext, PTL DEF Spec

-----------------------------------------------------------------------------
(***************************************************************************)
(* While no slot has been handed out twice, fd_to_port never gives a       *)
(* handle to two objects and never loses one, for any number of handlers   *)
(* in it at once and any size of the table.                                *)
(***************************************************************************)
THEOREM HandlesAlwaysResolve == Spec => []HandlesResolve
<1>1. RingInv => HandlesResolve
  <2> SUFFICES ASSUME RingInv, count <= MaxFiles, NEW g \in 1 .. Len(grants)
               PROVE  FileAt(grants[g].handle) = grants[g].file
    BY DEF HandlesResolve
  <2>1. Holds(grants[g].handle, g)
    BY DEF RingInv, BelowCount
  <2> QED BY <2>1 DEF Holds, FileAt, Slot, Reached
<1> QED BY <1>1, RingInvariant, PTL

(***************************************************************************)
(* Although port_to_fd reads the slot twice and without the lock, and the  *)
(* ring reuses slots that are in use, a request with a handle of the       *)
(* server always reaches an object that this slot was given out for, at    *)
(* that grant or a later one.                                              *)
(***************************************************************************)
THEOREM RequestsAlwaysReach == Spec => []RequestsReachTheirSlot
<1>1. RingInv => RequestsReachTheirSlot
  <2> SUFFICES ASSUME RingInv, NEW t \in Threads,
                      pc[t] = "call", job[t].meant > 0, job[t].op # "create"
               PROVE  \E l \in job[t].meant .. Len(grants) :
                        /\ grants[l].handle = job[t].handle
                        /\ Reached(fds, job[t].fd) = grants[l].file
    BY DEF RequestsReachTheirSlot
  <2>1. PICK l \in job[t].meant .. Len(grants) :
          /\ grants[l].handle = job[t].handle
          /\ job[t].fd \in Fds /\ fds[job[t].fd] = grants[l].file
    BY DEF RingInv, JobHolds
  <2> QED BY <2>1 DEF Reached
<1> QED BY <1>1, RingInvariant, PTL

(***************************************************************************)
(* The fallback of the directory handlers of ext2fs to the working         *)
(* directory of the server is taken only for numbers that are not handles  *)
(* of the server.                                                          *)
(***************************************************************************)
THEOREM StrangersOnly == Spec => []OnlyStrangersReachCwd
<1>1. RingInv => OnlyStrangersReachCwd
  BY DEF RingInv, CwdIsTheirs, OnlyStrangersReachCwd
<1> QED BY <1>1, RingInvariant, PTL

-----------------------------------------------------------------------------
(* Where the descriptors are.                                              *)

HeldFds    == {job[t].new : t \in {s \in Threads : Holding(s)}}
StoredFds  == {table[i] : i \in Slots} \ {-1}
LostFds    == OpenFds(fds) \ (StoredFds \cup HeldFds)
OtherFds   == OpenFds(fds) \ HeldFds

\* The next index is the number of handles given out.
NextIsKnown ==
  /\ (\A t \in Threads : pc[t] \notin {"bump", "store"}) => count = Len(grants)
  /\ \A t \in Threads : pc[t] \in {"bump", "store"} => job[t].idx = Len(grants)

\* The slots are filled in turn.
SlotsInTurn == \A i \in Slots : table[i] # -1 <=> i < Len(grants)

\* A descriptor is in one slot.
InOneSlot == \A i, j \in Slots : table[i] # -1 /\ table[i] = table[j] => i = j

Beyond(n) == IF n > MaxFiles THEN n - MaxFiles ELSE 0

\* Every handle that was given out cost a descriptor, and every one beyond the
\* table's size has lost one; so has every failed list.
CountsAgree ==
  /\ Cardinality(OtherFds) = Len(grants) + leaked
  /\ Cardinality(LostFds) = Beyond(Len(grants)) + leaked

LedgerInv == NextIsKnown /\ SlotsInTurn /\ InOneSlot /\ CountsAgree

\* Sets of descriptors are finite.
LEMMA FdSetsFinite ==
  ASSUME NEW S, S \subseteq OpenFds(fds)
  PROVE  IsFiniteSet(S) /\ Cardinality(S) \in Nat /\ Cardinality(S) <= NFds
<1>1. IsFiniteSet(Fds) /\ Cardinality(Fds) = NFds
  BY NFdsAssumption, FS_Interval DEF Fds
<1>2. S \in SUBSET Fds
  BY DEF OpenFds
<1> QED BY <1>1, <1>2, FS_Subset, FS_CardinalityType

\* The ledger is right at the start.
LEMMA LedgerInit == Init => LedgerInv
<1> SUFFICES ASSUME Init PROVE LedgerInv
  OBVIOUS
<1>1. /\ \A t \in Threads : pc[t] = "idle" /\ count = 0 /\ Len(grants) = 0
      /\ leaked = 0
      /\ \A i \in Slots : table[i] = -1
      /\ \A n \in Fds : fds[n] = NoFile
  BY DEF Init
<1>2. \A t \in Threads : ~Holding(t)
  BY <1>1 DEF Holding
<1>3. OtherFds = {} /\ LostFds = {}
  BY <1>1 DEF OtherFds, LostFds, OpenFds
<1>4. CountsAgree
  <2>1. Cardinality({}) = 0
    BY FS_EmptySet
  <2>2. Len(grants) = 0
    BY DEF Init
  <2> QED BY <1>1, <1>3, <2>1, <2>2, RingAssumption DEF CountsAgree, Beyond
<1>5. NextIsKnown /\ InOneSlot
  BY <1>1, <1>2 DEF NextIsKnown, InOneSlot, Init
<1>6. SlotsInTurn
  BY <1>1, RingAssumption DEF SlotsInTurn, Slots, Init
<1> QED BY <1>4, <1>5, <1>6 DEF LedgerInv

\* A step that moves no descriptor.
LEMMA QuietLedger ==
  ASSUME LedgerInv, UNCHANGED <<fds, table, grants, leaked>>, NextIsKnown',
         \A t \in Threads : /\ Holding(t)' <=> Holding(t)
                            /\ Holding(t) => job'[t].new = job[t].new
  PROVE  LedgerInv'
<1>1. HeldFds' = HeldFds
  <2>1. \A n : n \in HeldFds <=> \E t \in Threads : Holding(t) /\ job[t].new = n
    BY DEF HeldFds
  <2>2. \A n : n \in HeldFds' <=> \E t \in Threads : Holding(t)' /\ job'[t].new = n
    BY DEF HeldFds
  <2> QED BY <2>1, <2>2
<1>2. OtherFds' = OtherFds /\ LostFds' = LostFds
  BY <1>1 DEF OtherFds, LostFds, StoredFds
<1>3. CountsAgree'
  BY <1>2 DEF LedgerInv, CountsAgree
<1>4. SlotsInTurn' /\ InOneSlot'
  BY DEF LedgerInv, SlotsInTurn, InOneSlot
<1> QED BY <1>3, <1>4 DEF LedgerInv

\* A step of a thread that is not in fd_to_port, and does not get there.
LEMMA OutsideLedger ==
  ASSUME RingInv, LedgerInv, NEW t \in Threads,
         UNCHANGED <<fds, table, grants, count, leaked>>,
         ~Holding(t), ~Holding(t)',
         \A s \in Threads \ {t} : pc'[s] = pc[s] /\ job'[s] = job[s]
  PROVE  LedgerInv'
<1>1. \A s \in Threads : /\ Holding(s)' <=> Holding(s)
                         /\ Holding(s) => job'[s] = job[s] /\ pc'[s] = pc[s]
  BY DEF Holding
<1>2. \A s \in Threads : pc'[s] \in {"bump", "store"} <=> pc[s] \in {"bump", "store"}
  BY DEF Holding
<1>3. \A s \in Threads : pc[s] \in {"bump", "store"} => job'[s] = job[s]
  BY <1>1 DEF Holding
<1>4. NextIsKnown'
  BY <1>2, <1>3 DEF LedgerInv, NextIsKnown
<1> QED BY <1>1, <1>4, QuietLedger

\* A handler opens a descriptor.
LEMMA OpenedLedger ==
  ASSUME RingInv, LedgerInv, NEW t \in Threads, Opened(t)
  PROVE  LedgerInv'
<1>1. PICK at \in Places, f \in Files :
        /\ fds' = AfterOpen(fds, f)
        /\ job' = [job EXCEPT ![t].new = NewFd(fds), ![t].at = at]
  BY DEF Opened
<1>2. /\ \E l \in {"list", "lock"} : pc' = [pc EXCEPT ![t] = l]
      /\ pc[t] = "call" /\ CanOpen(fds)
      /\ UNCHANGED <<table, count, lock, grants, leaked>>
  BY DEF Opened
<1>3. RingType /\ job[t] \in JobType /\ fds \in FdTables
  BY DEF RingInv, RingType
<1> DEFINE n == NewFd(fds)
<1>4. /\ n \in Fds /\ fds[n] = NoFile /\ fds' \in FdTables /\ fds'[n] \in Files
      /\ \A m \in Fds : m # n => fds'[m] = fds[m]
  BY <1>1, <1>2, <1>3, OpenKeeps
<1>5. job'[t].new = n /\ \A s \in Threads \ {t} : job'[s] = job[s]
  BY <1>1, <1>3 DEF RingType, JobType
<1>6. pc'[t] \in {"list", "lock"} /\ \A s \in Threads \ {t} : pc'[s] = pc[s]
  BY <1>2, <1>3 DEF RingType
<1> HIDE DEF n
<1>7. OpenFds(fds') = OpenFds(fds) \cup {n} /\ n \notin OpenFds(fds)
  BY <1>4, NoFileAssumption DEF OpenFds
<1>8. ~Holding(t) /\ Holding(t)' /\ \A s \in Threads \ {t} : Holding(s)' <=> Holding(s)
  BY <1>2, <1>6 DEF Holding
<1>9. HeldFds' = HeldFds \cup {n}
  <2>1. \A m : m \in HeldFds <=> \E s \in Threads : Holding(s) /\ job[s].new = m
    BY DEF HeldFds
  <2>2. \A m : m \in HeldFds' <=> \E s \in Threads : Holding(s)' /\ job'[s].new = m
    BY DEF HeldFds
  <2>3. \A m : (\E s \in Threads : Holding(s)' /\ job'[s].new = m)
                 <=> m = n \/ \E s \in Threads : Holding(s) /\ job[s].new = m
    BY <1>5, <1>8
  <2> QED BY <2>1, <2>2, <2>3
<1>10. \A s \in Threads : Holding(s) => job[s].new # n
  BY <1>4, NoFileAssumption DEF RingInv, NewIsOpen
<1>11. \A i \in Slots : table[i] # n
  <2>1. n # -1
    BY <1>4, NFdsAssumption DEF Fds
  <2> QED BY <1>4, <2>1, NoFileAssumption DEF RingInv, Owned, Shared
<1>12. n \notin HeldFds /\ n \notin StoredFds
  BY <1>10, <1>11 DEF HeldFds, StoredFds
<1>13. OtherFds' = OtherFds /\ LostFds' = LostFds
  BY <1>2, <1>7, <1>9, <1>12 DEF OtherFds, LostFds, StoredFds
<1>14. CountsAgree'
  BY <1>2, <1>13 DEF LedgerInv, CountsAgree
<1>15. SlotsInTurn' /\ InOneSlot'
  BY <1>2 DEF LedgerInv, SlotsInTurn, InOneSlot
<1>16. NextIsKnown'
  <2>1. \A s \in Threads : pc'[s] \in {"bump", "store"} <=> pc[s] \in {"bump", "store"}
    BY <1>2, <1>6
  <2>2. \A s \in Threads : pc[s] \in {"bump", "store"} => job'[s] = job[s]
    BY <1>2, <1>5
  <2> QED BY <1>2, <2>1, <2>2 DEF LedgerInv, NextIsKnown
<1> QED BY <1>14, <1>15, <1>16 DEF LedgerInv

\* fd_to_port reads the count, and no other handler is between its two stores.
LEMMA LockLedger ==
  ASSUME RingInv, LedgerInv, NEW t \in Threads, LockTable(t)
  PROVE  LedgerInv'
<1>1. /\ pc[t] = "lock" /\ pc' = [pc EXCEPT ![t] = "bump"] /\ lock = NoThread
      /\ job' = [job EXCEPT ![t].idx = count]
      /\ UNCHANGED <<fds, table, count, grants, leaked>>
  BY DEF LockTable
<1>2. RingType /\ job[t] \in JobType
  BY DEF RingInv, RingType
<1>3. /\ job'[t].idx = count /\ job'[t].new = job[t].new
      /\ \A s \in Threads \ {t} : job'[s] = job[s]
  BY <1>1, <1>2 DEF RingType, JobType
<1>4. pc'[t] = "bump" /\ \A s \in Threads \ {t} : pc'[s] = pc[s]
  BY <1>1, <1>2 DEF RingType
<1>5. \A s \in Threads : pc[s] \notin {"bump", "store"}
  BY <1>1, RingAssumption DEF RingInv, Critical
<1>6. count = Len(grants)
  BY <1>5 DEF LedgerInv, NextIsKnown
<1>7. NextIsKnown'
  BY <1>1, <1>3, <1>4, <1>5, <1>6 DEF NextIsKnown
<1>8. \A s \in Threads : /\ Holding(s)' <=> Holding(s)
                         /\ Holding(s) => job'[s].new = job[s].new
  BY <1>1, <1>3, <1>4 DEF Holding
<1> QED BY <1>1, <1>7, <1>8, QuietLedger

\* fd_to_port writes the next count.
LEMMA BumpLedger ==
  ASSUME RingInv, LedgerInv, NEW t \in Threads, Bump(t)
  PROVE  LedgerInv'
<1>1. /\ pc[t] = "bump" /\ pc' = [pc EXCEPT ![t] = "store"]
      /\ UNCHANGED <<fds, table, job, grants, leaked>>
  BY DEF Bump
<1>2. pc'[t] = "store" /\ \A s \in Threads \ {t} : pc'[s] = pc[s]
  BY <1>1 DEF RingInv, RingType
<1>3. \A s \in Threads : pc'[s] \in {"bump", "store"} <=> pc[s] \in {"bump", "store"}
  BY <1>1, <1>2
<1>4. NextIsKnown'
  BY <1>1, <1>2, <1>3 DEF LedgerInv, NextIsKnown
<1>5. \A s \in Threads : /\ Holding(s)' <=> Holding(s)
                         /\ Holding(s) => job'[s].new = job[s].new
  BY <1>1, <1>2 DEF Holding
<1> QED BY <1>1, <1>4, <1>5, QuietLedger

\* fd_to_port stores the descriptor: into an empty slot, or over another one.
LEMMA StoreLedger ==
  ASSUME RingInv, LedgerInv, NEW t \in Threads, Store(t)
  PROVE  LedgerInv'
<1> DEFINE i == job[t].idx % MaxFiles
           n == job[t].new
           L == Len(grants)
<1>1. /\ pc[t] = "store" /\ pc' = [pc EXCEPT ![t] = "done"]
      /\ table' = [table EXCEPT ![i] = n]
      /\ grants' = Append(grants, [handle |-> i, file |-> fds[n]])
      /\ UNCHANGED <<fds, count, job, leaked>>
  BY DEF Store
<1>2. RingType /\ job[t] \in JobType
  BY DEF RingInv, RingType
<1>3. /\ lock = t /\ count = job[t].idx + 1 /\ n \in Fds /\ fds[n] \in Files
      /\ leaked \in Nat
  BY <1>1, <1>2 DEF RingInv, Critical, NewIsOpen, Holding, RingType
<1>4. job[t].idx = L /\ L \in Nat
  BY <1>1, <1>2, GrantTypes DEF LedgerInv, NextIsKnown
<1>5. i \in Slots /\ (L < MaxFiles => i = L) /\ MaxFiles \in Nat \ {0}
  BY <1>4, Remainder, RingAssumption
<1>6. Len(grants') = L + 1
  <2>1. [handle |-> i, file |-> fds[n]] \in [handle : Slots, file : Files]
    BY <1>3, <1>5
  <2> QED BY <1>1, <1>2, <2>1, Appending DEF RingType
<1>7. n \in OpenFds(fds) /\ n # -1
  BY <1>3, NoFileAssumption, NFdsAssumption DEF OpenFds, Fds
<1> HIDE DEF i, n, L
<1>8. table'[i] = n /\ \A h \in Slots \ {i} : table'[h] = table[h]
  BY <1>1, <1>2, <1>5 DEF RingType
<1>9. pc'[t] = "done" /\ \A s \in Threads \ {t} : pc'[s] = pc[s]
  BY <1>1, <1>2 DEF RingType
<1>10. Holding(t) /\ ~Holding(t)' /\ \A s \in Threads \ {t} : Holding(s)' <=> Holding(s)
  BY <1>1, <1>9 DEF Holding
<1>11. /\ \A h \in Slots : table[h] # n
       /\ \A s \in Threads \ {t} : Holding(s) => job[s].new # n
  <2>1. \A h \in Slots : table[h] # n
    BY <1>7, <1>10 DEF RingInv, Owned, Shared, n
  <2> QED BY <1>10, <2>1 DEF RingInv, Owned, n
<1>12. HeldFds' = HeldFds \ {n} /\ n \in HeldFds
  <2>1. \A m : m \in HeldFds <=> \E s \in Threads : Holding(s) /\ job[s].new = m
    BY DEF HeldFds
  <2>2. \A m : m \in HeldFds' <=> \E s \in Threads : Holding(s)' /\ job[s].new = m
    BY <1>1 DEF HeldFds
  <2>3. \A m : (\E s \in Threads : Holding(s)' /\ job[s].new = m)
                 <=> m # n /\ \E s \in Threads : Holding(s) /\ job[s].new = m
    BY <1>10, <1>11 DEF n
  <2>4. \E s \in Threads : Holding(s) /\ job[s].new = n
    BY <1>10 DEF n
  <2> QED BY <2>1, <2>2, <2>3, <2>4
<1>13. OtherFds' = OtherFds \cup {n} /\ n \notin OtherFds
  BY <1>1, <1>7, <1>12 DEF OtherFds
<1>14. Cardinality(OtherFds') = L + 1 + leaked
  <2>1. IsFiniteSet(OtherFds)
    BY FdSetsFinite DEF OtherFds
  <2>2. Cardinality(OtherFds) = L + leaked
    BY DEF LedgerInv, CountsAgree, L
  <2>3. Cardinality(OtherFds') = Cardinality(OtherFds) + 1
    BY <1>13, <2>1, FS_AddElement
  <2> QED BY <1>3, <1>4, <2>2, <2>3
<1>15. \A m : m \in StoredFds <=> m # -1 /\ \E h \in Slots : table[h] = m
  BY DEF StoredFds
<1>16. \A m : m \in StoredFds' <=> m # -1 /\ \E h \in Slots : table'[h] = m
  BY DEF StoredFds
<1>17. Cardinality(LostFds) = Beyond(L) + leaked /\ IsFiniteSet(LostFds)
  BY FdSetsFinite DEF LedgerInv, CountsAgree, LostFds, L
<1>18. table[i] # -1 <=> i < L
  BY <1>5 DEF LedgerInv, SlotsInTurn, L
<1>19. Cardinality(LostFds') = Beyond(L + 1) + leaked
  <2>1. CASE L < MaxFiles
    <3>1. table[i] = -1
      BY <1>4, <1>5, <1>18, <2>1
    <3>2. StoredFds' = StoredFds \cup {n}
      <4>1. \A m : m # -1 => ((\E h \in Slots : table'[h] = m)
                                <=> m = n \/ \E h \in Slots : table[h] = m)
        BY <1>5, <1>8, <3>1
      <4> QED BY <1>7, <1>15, <1>16, <4>1
    <3>3. LostFds' = LostFds
      BY <1>1, <1>12, <3>2 DEF LostFds
    <3>4. Beyond(L + 1) = Beyond(L)
      BY <1>4, <1>5, <2>1 DEF Beyond
    <3> QED BY <1>17, <3>3, <3>4
  <2>2. CASE L >= MaxFiles
    <3> DEFINE o == table[i]
    <3>1. o # -1 /\ o \in OpenFds(fds)
      <4>1. i < L
        BY <1>4, <1>5, <2>2 DEF Slots
      <4> QED BY <1>5, <1>18, <4>1, NoFileAssumption DEF RingInv, Owned, Shared, OpenFds
    <3>2. o \in StoredFds /\ o # n /\ o \notin HeldFds
      <4>1. o \in StoredFds /\ o # n
        BY <1>5, <1>11, <1>15, <3>1
      <4>2. o \notin HeldFds
        BY <1>5, <3>1 DEF RingInv, Owned, Shared, HeldFds
      <4> QED BY <4>1, <4>2
    <3>3. \A h \in Slots : table[h] = o => h = i
      BY <1>5, <3>1 DEF LedgerInv, InOneSlot
    <3> HIDE DEF o
    <3>4. StoredFds' = (StoredFds \ {o}) \cup {n}
      <4>1. \A m : m # -1 => ((\E h \in Slots : table'[h] = m)
                                <=> m = n \/ (m # o /\ \E h \in Slots : table[h] = m))
        BY <1>5, <1>8, <3>3 DEF o
      <4> QED BY <1>7, <1>15, <1>16, <4>1
    <3>5. LostFds' = LostFds \cup {o} /\ o \notin LostFds
      BY <1>1, <1>12, <3>1, <3>2, <3>4 DEF LostFds
    <3>6. Cardinality(LostFds') = Beyond(L) + 1 + leaked
      <4>1. Beyond(L) \in Nat
        BY <1>4, <1>5 DEF Beyond
      <4>2. Cardinality(LostFds') = Cardinality(LostFds) + 1
        BY <1>17, <3>5, FS_AddElement
      <4> QED BY <1>3, <1>17, <4>1, <4>2
    <3>7. Beyond(L + 1) = Beyond(L) + 1
      BY <1>4, <1>5, <2>2 DEF Beyond
    <3> QED BY <3>6, <3>7
  <2> QED BY <1>4, <1>5, <2>1, <2>2
<1>20. CountsAgree'
  BY <1>1, <1>6, <1>14, <1>19 DEF CountsAgree, Beyond
<1>21. SlotsInTurn'
  <2> SUFFICES ASSUME NEW h \in Slots PROVE table'[h] # -1 <=> h < L + 1
    BY <1>6 DEF SlotsInTurn
  <2>1. table[h] # -1 <=> h < L
    BY DEF LedgerInv, SlotsInTurn, L
  <2>2. h \in Nat /\ h < MaxFiles
    BY <1>5 DEF Slots
  <2>3. CASE h = i
    <3>1. i < L + 1
      BY <1>4, <1>5, <2>2, <2>3
    <3> QED BY <1>7, <1>8, <2>3, <3>1
  <2>4. CASE h # i
    <3>1. h < L <=> h < L + 1
      BY <1>4, <1>5, <2>2, <2>4
    <3> QED BY <1>8, <2>1, <2>4, <3>1
  <2> QED BY <2>3, <2>4
<1>22. InOneSlot'
  BY <1>5, <1>8, <1>11 DEF LedgerInv, InOneSlot
<1>23. NextIsKnown'
  <2>1. \A s \in Threads \ {t} : pc[s] \notin {"bump", "store"}
    BY <1>3 DEF RingInv, Critical
  <2>2. \A s \in Threads : pc'[s] \notin {"bump", "store"}
    BY <1>9, <2>1
  <2>3. count' = Len(grants')
    BY <1>1, <1>3, <1>4, <1>6
  <2> QED BY <2>2, <2>3 DEF NextIsKnown
<1> QED BY <1>20, <1>21, <1>22, <1>23 DEF LedgerInv

\* A request arrives, goes on or is answered without opening anything.
LEMMA ServedLedger ==
  ASSUME RingInv, LedgerInv, NEW t \in Threads, Arrived(t) \/ Answered(t) \/ Rename(t)
  PROVE  LedgerInv'
<1>1. RingType
  BY DEF RingInv
<1>2. CASE Arrived(t)
  <2>1. PICK op \in Ops \ {"none"}, resolves \in BOOLEAN : Request(t, op, resolves)
    BY <1>2 DEF Arrived
  <2>2. PICK j : job' = [job EXCEPT ![t] = j]
    BY <2>1 DEF Request
  <2>3. /\ pc[t] = "idle" /\ pc' = [pc EXCEPT ![t] = IF resolves THEN "test" ELSE "call"]
        /\ UNCHANGED <<fds, table, grants, count, leaked>>
    BY <2>1 DEF Request
  <2>4. \A s \in Threads \ {t} : pc'[s] = pc[s] /\ job'[s] = job[s]
    BY <1>1, <2>2, <2>3 DEF RingType
  <2>5. pc'[t] \in {"test", "call"}
    BY <1>1, <2>3 DEF RingType
  <2>6. ~Holding(t) /\ ~Holding(t)'
    BY <2>3, <2>5 DEF Holding
  <2> QED BY <2>3, <2>4, <2>6, OutsideLedger
<1>3. CASE Answered(t)
  <2>1. /\ pc[t] = "call" /\ pc' = [pc EXCEPT ![t] = "done"]
        /\ \A s \in Threads \ {t} : job'[s] = job[s]
        /\ UNCHANGED <<fds, table, grants, count, leaked>>
    BY <1>1, <1>3 DEF Answered, End, RingType
  <2>2. \A s \in Threads \ {t} : pc'[s] = pc[s]
    BY <1>1, <2>1 DEF RingType
  <2>3. ~Holding(t) /\ ~Holding(t)'
    BY <1>1, <2>1 DEF Holding, RingType
  <2> QED BY <2>1, <2>2, <2>3, OutsideLedger
<1>4. CASE Rename(t)
  <2>1. /\ pc[t] = "call" /\ pc' = [pc EXCEPT ![t] = "test"]
        /\ \A s \in Threads \ {t} : job'[s] = job[s]
        /\ UNCHANGED <<fds, table, grants, count, leaked>>
    BY ZenonT(40), <1>1, <1>4 DEF Rename, RingType
  <2>2. \A s \in Threads \ {t} : pc'[s] = pc[s]
    BY <1>1, <2>1 DEF RingType
  <2>3. ~Holding(t) /\ ~Holding(t)'
    BY <1>1, <2>1 DEF Holding, RingType
  <2> QED BY <2>1, <2>2, <2>3, OutsideLedger
<1> QED BY <1>2, <1>3, <1>4

\* A listing ends: its descriptor is closed, or lost.
LEMMA ListedLedger ==
  ASSUME RingInv, LedgerInv, NEW t \in Threads, ListFails(t) \/ ListDone(t)
  PROVE  LedgerInv'
<1> DEFINE n == job[t].new
<1>1. /\ pc[t] = "list" /\ pc' = [pc EXCEPT ![t] = "done"]
      /\ UNCHANGED <<table, count, lock, job, grants>>
  BY DEF ListFails, ListDone
<1>2. RingType /\ leaked \in Nat /\ Len(grants) \in Nat
  BY GrantTypes DEF RingInv, RingType
<1>3. pc'[t] = "done" /\ \A s \in Threads \ {t} : pc'[s] = pc[s]
  BY <1>1, <1>2 DEF RingType
<1>4. Holding(t) /\ ~Holding(t)' /\ \A s \in Threads \ {t} : Holding(s)' <=> Holding(s)
  BY <1>1, <1>3 DEF Holding
<1>5. n \in OpenFds(fds) /\ n # -1
  BY <1>4, NoFileAssumption, NFdsAssumption DEF RingInv, NewIsOpen, OpenFds, Fds
<1>6. HeldFds' = HeldFds \ {n} /\ n \in HeldFds
  <2>1. \A m : m \in HeldFds <=> \E s \in Threads : Holding(s) /\ job[s].new = m
    BY DEF HeldFds
  <2>2. \A m : m \in HeldFds' <=> \E s \in Threads : Holding(s)' /\ job[s].new = m
    BY <1>1 DEF HeldFds
  <2>3. \A s \in Threads \ {t} : Holding(s) => job[s].new # n
    BY <1>4 DEF RingInv, Owned
  <2>4. \A m : (\E s \in Threads : Holding(s)' /\ job[s].new = m)
                 <=> m # n /\ \E s \in Threads : Holding(s) /\ job[s].new = m
    BY <1>4, <2>3
  <2> QED BY <1>4, <2>1, <2>2, <2>4
<1>7. StoredFds' = StoredFds /\ n \notin StoredFds
  <2>1. \A h \in Slots : table[h] # n
    BY <1>4, <1>5 DEF RingInv, Owned, Shared
  <2> QED BY <1>1, <2>1 DEF StoredFds
<1>8. NextIsKnown' /\ SlotsInTurn' /\ InOneSlot'
  <2>1. \A s \in Threads : pc'[s] \in {"bump", "store"} <=> pc[s] \in {"bump", "store"}
    BY <1>1, <1>3
  <2> QED BY <1>1, <2>1 DEF LedgerInv, NextIsKnown, SlotsInTurn, InOneSlot
<1> HIDE DEF n
<1>9. CASE ListFails(t)
  <2>1. fds' = fds /\ leaked' = leaked + 1
    BY <1>9 DEF ListFails
  <2>2. /\ OtherFds' = OtherFds \cup {n} /\ n \notin OtherFds
        /\ LostFds' = LostFds \cup {n} /\ n \notin LostFds
    BY <1>5, <1>6, <1>7, <2>1 DEF OtherFds, LostFds
  <2>3. IsFiniteSet(OtherFds) /\ IsFiniteSet(LostFds)
    BY FdSetsFinite DEF OtherFds, LostFds
  <2>4. /\ Cardinality(OtherFds') = Cardinality(OtherFds) + 1
        /\ Cardinality(LostFds') = Cardinality(LostFds) + 1
    BY <2>2, <2>3, FS_AddElement
  <2>5. Beyond(Len(grants)) \in Nat
    BY <1>2, RingAssumption DEF Beyond
  <2>6. CountsAgree'
    BY <1>1, <1>2, <2>1, <2>4, <2>5 DEF LedgerInv, CountsAgree, Beyond
  <2> QED BY <1>8, <2>6 DEF LedgerInv
<1>10. CASE ListDone(t)
  <2>1. fds' = AfterClose(fds, n) /\ leaked' = leaked
    BY <1>10 DEF ListDone, n
  <2>2. OpenFds(fds') = OpenFds(fds) \ {n}
    BY <1>5, <2>1 DEF OpenFds, AfterClose
  <2>3. OtherFds' = OtherFds /\ LostFds' = LostFds
    BY <1>6, <1>7, <2>2 DEF OtherFds, LostFds
  <2>4. CountsAgree'
    BY <1>1, <2>1, <2>3 DEF LedgerInv, CountsAgree
  <2> QED BY <1>8, <2>4 DEF LedgerInv
<1> QED BY <1>9, <1>10

\* port_to_fd and fd_to_port.
LEMMA CommonLedger ==
  ASSUME RingInv, LedgerInv, NEW t \in Threads, Common(t)
  PROVE  LedgerInv'
<1>1. RingType
  BY DEF RingInv
<1>2. CASE TestSlot(t)
  <2>1. /\ pc[t] = "test"
        /\ pc' = [pc EXCEPT ![t] = IF table[Slot(job[t].handle)] >= 0 THEN "load" ELSE "call"]
        /\ UNCHANGED <<fds, table, grants, count, leaked, job>>
    BY <1>2 DEF TestSlot
  <2>2. pc'[t] \in {"load", "call"} /\ \A s \in Threads \ {t} : pc'[s] = pc[s]
    BY <1>1, <2>1 DEF RingType
  <2>3. ~Holding(t) /\ ~Holding(t)'
    BY <2>1, <2>2 DEF Holding
  <2> QED BY <2>1, <2>2, <2>3, OutsideLedger
<1>3. CASE LoadSlot(t)
  <2>1. /\ pc[t] = "load" /\ pc' = [pc EXCEPT ![t] = "call"]
        /\ job' = [job EXCEPT ![t].fd = table[Slot(job[t].handle)]]
        /\ UNCHANGED <<fds, table, grants, count, leaked>>
    BY <1>3 DEF LoadSlot
  <2>2. pc'[t] = "call" /\ \A s \in Threads \ {t} : pc'[s] = pc[s] /\ job'[s] = job[s]
    BY <1>1, <2>1 DEF RingType
  <2>3. ~Holding(t) /\ ~Holding(t)'
    BY <2>1, <2>2 DEF Holding
  <2> QED BY <2>1, <2>2, <2>3, OutsideLedger
<1>4. CASE Return(t)
  <2>1. /\ pc[t] = "done" /\ pc' = [pc EXCEPT ![t] = "idle"]
        /\ job' = [job EXCEPT ![t] = NoJob]
        /\ UNCHANGED <<fds, table, grants, count, leaked>>
    BY <1>4 DEF Return
  <2>2. pc'[t] = "idle" /\ \A s \in Threads \ {t} : pc'[s] = pc[s] /\ job'[s] = job[s]
    BY <1>1, <2>1 DEF RingType
  <2>3. ~Holding(t) /\ ~Holding(t)'
    BY <2>1, <2>2 DEF Holding
  <2> QED BY <2>1, <2>2, <2>3, OutsideLedger
<1> QED BY <1>2, <1>3, <1>4, LockLedger, BumpLedger, StoreLedger DEF Common

\* Every step of any of the servers keeps the ledger right.
LEMMA LedgerNext == RingInv /\ LedgerInv /\ [Next]_<<vars, rump, server>> => LedgerInv'
<1> SUFFICES ASSUME RingInv, LedgerInv, [Next]_<<vars, rump, server>> PROVE LedgerInv'
  OBVIOUS
<1>1. RingType
  BY DEF RingInv
<1>2. CASE Ext2fsNext
  <2>1. PICK t \in Threads : Ext2fsArrive(t) \/ Ext2fsOp(t) \/ Common(t)
    BY <1>2 DEF Ext2fsNext
  <2>2. CASE Common(t)
    BY <2>2, CommonLedger
  <2>3. CASE ~Common(t)
    <3>1. \/ Arrived(t) \/ Answered(t) \/ Opened(t)
          \/ ListFails(t) \/ ListDone(t) \/ Rename(t)
      BY <1>1, <2>1, <2>3, Ext2fsSteps
    <3> QED BY <3>1, ServedLedger, OpenedLedger, ListedLedger
  <2> QED BY <2>2, <2>3
<1>3. CASE PfinetNext
  <2>1. PICK t \in Threads :
          PfinetArrive(t) \/ Create(t) \/ Accept(t) \/ SocketOp(t) \/ Common(t)
    BY <1>3 DEF PfinetNext
  <2>2. CASE Common(t)
    BY <2>2, CommonLedger
  <2>3. CASE ~Common(t)
    <3>1. Arrived(t) \/ Answered(t) \/ Opened(t)
      BY <1>1, <2>1, <2>3, PfinetSteps
    <3> QED BY <3>1, ServedLedger, OpenedLedger
  <2> QED BY <2>2, <2>3
<1>4. CASE UNCHANGED vars
  <2>1. UNCHANGED <<fds, table, count, pc, job, grants, leaked>>
    BY <1>4 DEF vars
  <2>2. NextIsKnown'
    BY <2>1 DEF LedgerInv, NextIsKnown
  <2>3. \A t \in Threads : /\ Holding(t)' <=> Holding(t)
                           /\ Holding(t) => job'[t].new = job[t].new
    BY <2>1 DEF Holding
  <2> QED BY <2>1, <2>2, <2>3, QuietLedger
<1> QED BY <1>2, <1>3, <1>4 DEF Next

\* The ledger is right throughout.
LEMMA LedgerInvariant == Spec => [](RingInv /\ LedgerInv)
<1>1. ServerInit => RingInv /\ LedgerInv
  BY RingInit, LedgerInit DEF ServerInit
<1>2. (RingInv /\ LedgerInv) /\ [Next]_<<vars, rump, server>> => (RingInv /\ LedgerInv)'
  BY RingNext, LedgerNext
<1> QED BY <1>1, <1>2, PTL DEF Spec

(***************************************************************************)
(* No handler closes a descriptor of the table, so the table's size        *)
(* decides what fd_to_port loses: nothing while the slots are handed out   *)
(* for the first time, and one descriptor for every handle after that.     *)
(* Beyond these, exactly the descriptors are lost that dir_readdir left    *)
(* open, whichever handlers run at the time, and what it does close is     *)
(* neither in a slot nor in another handler's hands.                       *)
(***************************************************************************)
THEOREM DescriptorsStayAccounted == Spec => []DescriptorsAreAccounted
<1>1. RingInv /\ LedgerInv => DescriptorsAreAccounted
  <2> SUFFICES ASSUME RingInv, LedgerInv PROVE DescriptorsAreAccounted
    OBVIOUS
  <2>1. Cardinality(LostFds) = Beyond(Len(grants)) + leaked
    BY DEF LedgerInv, CountsAgree
  <2>2. leaked \in Nat /\ Beyond(Len(grants)) \in Nat
    BY GrantTypes, RingAssumption DEF RingInv, RingType, Beyond
  <2>3. Cardinality(LostFds) = leaked + Beyond(Len(grants))
    BY <2>1, <2>2
  <2> QED BY <2>3 DEF LostFds, StoredFds, HeldFds, Holding, Beyond, DescriptorsAreAccounted
<1> QED BY <1>1, LedgerInvariant, PTL

-----------------------------------------------------------------------------
(* The shape of the servers' state.                                        *)

LockIsKnown == lock \in Threads \cup {NoThread}

\* The lock is free or a thread's.
LEMMA LockNext == LockIsKnown /\ [Next]_<<vars, rump, server>> => LockIsKnown'
<1> SUFFICES ASSUME LockIsKnown, [Next]_<<vars, rump, server>> PROVE LockIsKnown'
  OBVIOUS
<1>1. ASSUME NEW t \in Threads, Common(t) PROVE LockIsKnown'
  BY <1>1 DEF Common, TestSlot, LoadSlot, LockTable, Bump, Store, Return, LockIsKnown
<1>2. ASSUME NEW t \in Threads, Ext2fsArrive(t) \/ Ext2fsOp(t) PROVE LockIsKnown'
  BY <1>2 DEF Ext2fsArrive, Request, Ext2fsOp, Lookup, Readdir, ListFails, ListDone, Mkfile,
              DirOp, Rename, RenameTo, FileOp, OpenFrom, End, LockIsKnown
<1>3. ASSUME NEW t \in Threads, PfinetArrive(t) \/ Create(t) \/ Accept(t) \/ SocketOp(t)
      PROVE  LockIsKnown'
  BY <1>3 DEF PfinetArrive, Request, Create, Accept, SocketOp, OpenFrom, End, LockIsKnown
<1>4. CASE Ext2fsNext
  BY <1>1, <1>2, <1>4 DEF Ext2fsNext
<1>5. CASE PfinetNext
  BY <1>1, <1>3, <1>5 DEF PfinetNext
<1>6. CASE UNCHANGED vars
  BY <1>6 DEF vars, LockIsKnown
<1> QED BY <1>4, <1>5, <1>6 DEF Next

\* There are never more handles in hand than descriptors.
LEMMA CountIsBounded == RingInv /\ LedgerInv => count \in 0 .. NFds /\ leaked \in 0 .. NFds
<1> SUFFICES ASSUME RingInv, LedgerInv PROVE count \in 0 .. NFds /\ leaked \in 0 .. NFds
  OBVIOUS
<1>1. count \in Nat /\ leaked \in Nat /\ Len(grants) \in Nat /\ NFds \in Nat
  BY GrantTypes, NFdsAssumption DEF RingInv, RingType
<1>2. /\ OtherFds \subseteq OpenFds(fds) /\ IsFiniteSet(OtherFds)
      /\ Cardinality(OtherFds) = Len(grants) + leaked
  BY FdSetsFinite DEF OtherFds, LedgerInv, CountsAgree
<1>3. Len(grants) + leaked <= NFds /\ Len(grants) <= NFds /\ leaked <= NFds
  BY <1>1, <1>2, FdSetsFinite
<1>4. CASE \A t \in Threads : pc[t] \notin {"bump", "store"}
  BY <1>1, <1>3, <1>4 DEF LedgerInv, NextIsKnown
<1>5. ASSUME NEW t \in Threads, pc[t] = "bump" PROVE count <= NFds
  <2>1. count = job[t].idx /\ job[t].idx = Len(grants)
    BY <1>5 DEF RingInv, Critical, LedgerInv, NextIsKnown
  <2> QED BY <1>3, <2>1
<1>6. ASSUME NEW t \in Threads, pc[t] = "store" PROVE count <= NFds
  <2>1. count = job[t].idx + 1 /\ job[t].idx = Len(grants)
    BY <1>6 DEF RingInv, Critical, LedgerInv, NextIsKnown
  <2> DEFINE n == job[t].new
  <2>2. n \in Fds /\ fds[n] \in Files
    BY <1>6 DEF RingInv, NewIsOpen, Holding
  <2>3. n \in OpenFds(fds)
    BY <2>2, NoFileAssumption DEF OpenFds
  <2>4. n \in HeldFds
    BY <1>6 DEF HeldFds, Holding
  <2> HIDE DEF n
  <2>5. n \notin OtherFds
    BY <2>4 DEF OtherFds
  <2>6. Cardinality(OtherFds \cup {n}) = Len(grants) + leaked + 1
    BY <1>1, <1>2, <2>5, FS_AddElement
  <2>7. Cardinality(OtherFds \cup {n}) <= NFds
    BY <1>2, <2>3, FdSetsFinite
  <2> QED BY <1>1, <2>1, <2>6, <2>7
<1> QED BY <1>1, <1>3, <1>4, <1>5, <1>6

\* The ring's state has its shape throughout.
LEMMA RingTypes == Spec => []TypeOK
<1>1. ServerInit => LockIsKnown
  BY DEF ServerInit, Init, LockIsKnown
<1>2. RingInv /\ LedgerInv /\ LockIsKnown => TypeOK
  <2> SUFFICES ASSUME RingInv, LedgerInv, LockIsKnown PROVE TypeOK
    OBVIOUS
  <2>1. RingType /\ count \in 0 .. NFds /\ leaked \in 0 .. NFds
    BY CountIsBounded DEF RingInv
  <2>2. \A t \in Threads : {job[t].fd, job[t].new, job[t].old} \subseteq Fds \cup {-1}
    BY <2>1 DEF RingType, JobType
  <2>3. \A g \in 1 .. Len(grants) : grants[g].handle \in Handles /\ grants[g].file \in Files
    BY <2>1, GrantTypes DEF Handles
  <2> QED BY <2>1, <2>2, <2>3 DEF RingType, TypeOK, LockIsKnown
<1> QED BY <1>1, <1>2, LockNext, LedgerInvariant, PTL DEF Spec

-----------------------------------------------------------------------------
(* The inductive invariant.                                                *)

RumpLabels == {"idle", "enter", "io", "exit", "try", "unlock", "done"}

RumpJobs == [op : {"none", "read", "write", "held"}, lk : {0, 1}, locked : BOOLEAN,
             off : Nat, start : Nat, iov : Nat \X Nat, i : Nat, total : Nat,
             buf : Seq(Int), held : {0, 1}]

RumpType ==
  /\ file \in Seq(Nat) /\ room \in Nat
  /\ writer \in Threads \cup {NoThread} /\ readers \in SUBSET Threads
  /\ rump_pc \in [Threads -> RumpLabels] /\ rump_job \in [Threads -> RumpJobs]
  /\ moved \in [Threads -> BOOLEAN]

\* Who holds the lock, and in which mode: a write holds it for writing, a read
\* that takes it, for reading.
Inside(t) == \/ rump_pc[t] \in {"io", "exit"} /\ rump_job[t].locked
             \/ rump_pc[t] = "unlock"

Modes(t) ==
  /\ rump_pc[t] = "enter" => rump_job[t].locked /\ rump_job[t].op \in {"read", "write"}
  /\ rump_pc[t] \in {"enter", "io", "exit"} =>
       /\ rump_job[t].op = "write" => rump_job[t].lk = 1 /\ rump_job[t].locked
       /\ rump_job[t].op = "read" => rump_job[t].lk = 0
  /\ rump_pc[t] \in {"io", "exit"} /\ rump_job[t].locked =>
       IF rump_job[t].lk = 1 THEN writer = t ELSE t \in readers
  /\ rump_pc[t] \in {"try", "unlock"} => rump_job[t].op = "held"

LockInv ==
  /\ writer # NoThread => readers = {}
  /\ \A t \in Threads : (t = writer \/ t \in readers <=> Inside(t)) /\ Modes(t)

\* The buffers of iov after n1 bytes of the first entry and n2 of the second.
Filled(start, iov, n1, n2) ==
  [k \in 1 .. iov[1] + iov[2] |->
     IF k <= n1 THEN start + k - 1
     ELSE IF iov[1] < k /\ k <= iov[1] + n2 THEN start + n1 + k - iov[1] - 1
     ELSE -1]

\* A read without the lock, during which the file grew.
Disturbed(t) == moved[t] /\ ~rump_job[t].locked

Reading(t, n1, n2) ==
  LET j == rump_job[t] IN
  /\ j.i \in 1 .. 3 /\ n1 <= j.iov[1] /\ n2 <= j.iov[2]
  /\ j.i = 1 => n1 = 0
  /\ j.i < 3 => n2 = 0
  /\ j.total = n1 + n2 /\ j.off = j.start + j.total
  /\ j.buf = Filled(j.start, j.iov, n1, n2)
  /\ n1 < j.iov[1] /\ n2 > 0 => Disturbed(t)
  /\ rump_pc[t] = "io" /\ j.i = 2 /\ n1 < j.iov[1] => Len(file) <= j.off \/ Disturbed(t)

ReadOk(t) ==
  rump_pc[t] \in {"enter", "io", "exit", "done"} /\ rump_job[t].op = "read" =>
    /\ rump_pc[t] = "enter" => rump_job[t].i = 1
    /\ rump_pc[t] = "io" => rump_job[t].i < 3
    /\ \E n1, n2 \in Nat : Reading(t, n1, n2)

WriteOk(t) ==
  LET j == rump_job[t] IN
  rump_pc[t] \in {"enter", "io", "exit"} /\ j.op = "write" =>
    /\ j.i \in 1 .. 3
    /\ rump_pc[t] = "enter" => j.i = 1
    /\ rump_pc[t] = "io" => j.i < 3
    /\ j.i = 1 => j.total = 0
    /\ j.i = 2 => j.total <= j.iov[1]
    /\ j.off = j.start + j.total /\ j.off <= Len(file)
    /\ ~moved[t] =>
         /\ \A p \in j.start + 1 .. j.start + j.total : file[p] = p - 1
         /\ rump_pc[t] = "io" /\ j.i = 2 /\ j.total < j.iov[1] =>
              room = 0 /\ j.off = Len(file)

RumpInv == RumpType /\ LockInv /\ \A t \in Threads : ReadOk(t) /\ WriteOk(t)

-----------------------------------------------------------------------------
\* The invariant holds before the first call.
LEMMA RumpInit == ServerInit => RumpInv
<1> SUFFICES ASSUME Rump!Init PROVE RumpInv
  BY DEF ServerInit
<1>1. RumpType
  BY RumpAssumption DEF Rump!Init, RumpType, Rump!NoJob, RumpJobs, RumpLabels
<1>2. LockInv
  BY RingAssumption DEF Rump!Init, LockInv, Inside, Modes
<1>3. \A t \in Threads : ReadOk(t) /\ WriteOk(t)
  BY DEF Rump!Init, ReadOk, WriteOk
<1> QED BY <1>1, <1>2, <1>3 DEF RumpInv

\* A step of one thread.
LEMMA RumpThread ==
  ASSUME RumpType, NEW t \in Threads, NEW l \in RumpLabels, NEW j \in RumpJobs,
         rump_pc' = [rump_pc EXCEPT ![t] = l], rump_job' = [rump_job EXCEPT ![t] = j]
  PROVE  /\ rump_pc'[t] = l /\ rump_job'[t] = j
         /\ \A s \in Threads \ {t} : rump_pc'[s] = rump_pc[s] /\ rump_job'[s] = rump_job[s]
         /\ rump_pc' \in [Threads -> RumpLabels] /\ rump_job' \in [Threads -> RumpJobs]
BY DEF RumpType

\* A thread that does nothing while the file and the room stay.
LEMMA IoFrame ==
  ASSUME NEW s \in Threads, ReadOk(s), WriteOk(s), UNCHANGED <<file, room>>,
         moved'[s] = moved[s], rump_pc'[s] = rump_pc[s], rump_job'[s] = rump_job[s]
  PROVE  ReadOk(s)' /\ WriteOk(s)'
<1>1. ReadOk(s)'
  BY DEF ReadOk, Reading, Disturbed
<1>2. WriteOk(s)'
  BY DEF WriteOk
<1> QED BY <1>1, <1>2

\* A step that moves no bytes.
LEMMA LockStepKeeps ==
  ASSUME RumpInv, NEW t \in Threads, NEW l \in RumpLabels, NEW j \in RumpJobs,
         rump_pc' = [rump_pc EXCEPT ![t] = l], rump_job' = [rump_job EXCEPT ![t] = j],
         UNCHANGED <<file, room>>, moved' \in [Threads -> BOOLEAN],
         \A s \in Threads \ {t} : moved'[s] = moved[s],
         writer' \in Threads \cup {NoThread}, readers' \in SUBSET Threads,
         LockInv', ReadOk(t)', WriteOk(t)'
  PROVE  RumpInv'
<1>1. RumpType /\ LockInv /\ \A s \in Threads : ReadOk(s) /\ WriteOk(s)
  BY DEF RumpInv
<1>2. /\ \A s \in Threads \ {t} : rump_pc'[s] = rump_pc[s] /\ rump_job'[s] = rump_job[s]
      /\ rump_pc' \in [Threads -> RumpLabels] /\ rump_job' \in [Threads -> RumpJobs]
  BY <1>1, RumpThread
<1>3. RumpType'
  BY <1>1, <1>2 DEF RumpType
<1>4. \A s \in Threads \ {t} : ReadOk(s)' /\ WriteOk(s)'
  BY <1>1, <1>2, IoFrame
<1> QED BY <1>3, <1>4 DEF RumpInv

-----------------------------------------------------------------------------
(* The lock.                                                               *)

\* The lock as another thread sees it.
LEMMA OthersInside ==
  ASSUME NEW s \in Threads, (s = writer \/ s \in readers <=> Inside(s)) /\ Modes(s),
         rump_pc'[s] = rump_pc[s], rump_job'[s] = rump_job[s],
         s = writer' <=> s = writer, s \in readers' <=> s \in readers
  PROVE  (s = writer \/ s \in readers <=> Inside(s))' /\ Modes(s)'
BY DEF Inside, Modes

\* rumpuser_rw_enter takes the lock only when it is free in the mode of the call.
LEMMA EnterKeeps ==
  ASSUME RumpInv, NEW t \in Threads, Rump!Enter(t)
  PROVE  RumpInv'
<1>1. /\ rump_pc[t] = "enter" /\ rump_pc' = [rump_pc EXCEPT ![t] = "io"]
      /\ Rump!Take(t, rump_job[t].lk)
      /\ UNCHANGED <<file, room, rump_job, moved>>
  BY DEF Rump!Enter
<1>2. RumpType /\ LockInv /\ ReadOk(t) /\ WriteOk(t)
  BY DEF RumpInv
<1>3. /\ rump_job[t] \in RumpJobs /\ "io" \in RumpLabels
      /\ rump_job' = [rump_job EXCEPT ![t] = rump_job[t]]
  BY <1>1, <1>2 DEF RumpType, RumpLabels
<1>4. /\ rump_pc'[t] = "io" /\ rump_job'[t] = rump_job[t]
      /\ \A s \in Threads \ {t} : rump_pc'[s] = rump_pc[s] /\ rump_job'[s] = rump_job[s]
  BY <1>1, <1>2, <1>3, RumpThread
<1>5. rump_job[t].locked /\ rump_job[t].op \in {"read", "write"}
  BY <1>1, <1>2 DEF LockInv, Modes
<1>6. LockInv' /\ writer' \in Threads \cup {NoThread} /\ readers' \in SUBSET Threads
  <2>1. CASE /\ rump_job[t].lk = 1 /\ writer = NoThread /\ readers = {}
             /\ writer' = t /\ readers' = readers
    <3>1. \A s \in Threads \ {t} : (s = writer \/ s \in readers <=> Inside(s))' /\ Modes(s)'
      BY <1>2, <1>4, <2>1, RingAssumption, OthersInside DEF LockInv
    <3>2. (t = writer \/ t \in readers <=> Inside(t))' /\ Modes(t)'
      BY <1>1, <1>2, <1>4, <1>5, <2>1 DEF LockInv, Inside, Modes
    <3> QED BY <1>2, <2>1, <3>1, <3>2 DEF LockInv, RumpType
  <2>2. CASE /\ rump_job[t].lk # 1 /\ writer = NoThread
             /\ readers' = readers \cup {t} /\ writer' = writer
    <3>1. \A s \in Threads \ {t} : (s = writer \/ s \in readers <=> Inside(s))' /\ Modes(s)'
      BY <1>2, <1>4, <2>2, OthersInside DEF LockInv
    <3>2. (t = writer \/ t \in readers <=> Inside(t))' /\ Modes(t)'
      BY <1>1, <1>2, <1>4, <1>5, <2>2 DEF LockInv, Inside, Modes
    <3> QED BY <1>2, <2>2, <3>1, <3>2 DEF LockInv, RumpType
  <2> QED BY <1>1, <2>1, <2>2 DEF Rump!Take, Rump!FreeToWrite, Rump!FreeToRead
<1>7. ReadOk(t)'
  <2> SUFFICES ASSUME rump_job[t].op = "read"
               PROVE  rump_job[t].i < 3 /\ \E n1, n2 \in Nat : Reading(t, n1, n2)'
    BY <1>4, Zenon DEF ReadOk
  <2>1. PICK n1, n2 \in Nat : Reading(t, n1, n2)
    BY <1>1, <1>2 DEF ReadOk
  <2>2. rump_job[t].i = 1
    BY <1>1, <1>2 DEF ReadOk
  <2>3. Reading(t, n1, n2)'
    BY <1>1, <1>4, <2>1, <2>2 DEF Reading, Disturbed
  <2> QED BY <2>2, <2>3
<1>8. WriteOk(t)'
  BY <1>1, <1>2, <1>4 DEF WriteOk
<1> QED BY <1>1, <1>2, <1>3, <1>6, <1>7, <1>8, LockStepKeeps DEF RumpType

\* rumpuser_rw_exit gives up what the thread holds and nothing else.
LEMMA ExitKeeps ==
  ASSUME RumpInv, NEW t \in Threads, Rump!Exit(t)
  PROVE  RumpInv'
<1>1. /\ rump_pc[t] = "exit" /\ rump_pc' = [rump_pc EXCEPT ![t] = "done"]
      /\ IF rump_job[t].locked THEN Rump!Drop(t) ELSE UNCHANGED <<writer, readers>>
      /\ UNCHANGED <<file, room, rump_job, moved>>
  BY DEF Rump!Exit
<1>2. RumpType /\ LockInv /\ ReadOk(t) /\ WriteOk(t)
  BY DEF RumpInv
<1>3. /\ rump_job[t] \in RumpJobs /\ "done" \in RumpLabels
      /\ rump_job' = [rump_job EXCEPT ![t] = rump_job[t]]
  BY <1>1, <1>2 DEF RumpType, RumpLabels
<1>4. /\ rump_pc'[t] = "done" /\ rump_job'[t] = rump_job[t]
      /\ \A s \in Threads \ {t} : rump_pc'[s] = rump_pc[s] /\ rump_job'[s] = rump_job[s]
  BY <1>1, <1>2, <1>3, RumpThread
<1>5. /\ writer' = IF writer = t THEN NoThread ELSE writer
      /\ readers' = readers \ {t}
  BY <1>1, <1>2 DEF Rump!Drop, LockInv, Inside
<1>6. LockInv'
  <2>1. \A s \in Threads \ {t} : (s = writer \/ s \in readers <=> Inside(s))' /\ Modes(s)'
    BY <1>2, <1>4, <1>5, RingAssumption, OthersInside DEF LockInv
  <2>2. (t = writer \/ t \in readers <=> Inside(t))' /\ Modes(t)'
    BY <1>1, <1>2, <1>4, <1>5, RingAssumption DEF LockInv, Inside, Modes
  <2> QED BY <1>2, <1>5, <2>1, <2>2 DEF LockInv
<1>7. writer' \in Threads \cup {NoThread} /\ readers' \in SUBSET Threads
  BY <1>2, <1>5 DEF RumpType
<1>8. ReadOk(t)'
  BY <1>1, <1>2, <1>4 DEF ReadOk, Reading, Disturbed
<1>9. WriteOk(t)'
  BY <1>4 DEF WriteOk
<1> QED BY <1>1, <1>2, <1>3, <1>6, <1>7, <1>8, <1>9, LockStepKeeps DEF RumpType

\* The second half of rumpuser_rw_held gives back what the first half took.
LEMMA HeldUnlockKeeps ==
  ASSUME RumpInv, NEW t \in Threads, Rump!HeldUnlock(t)
  PROVE  RumpInv'
<1>1. /\ rump_pc[t] = "unlock" /\ rump_pc' = [rump_pc EXCEPT ![t] = "done"]
      /\ writer' = IF writer = t THEN NoThread ELSE writer
      /\ readers' = readers \ {t}
      /\ UNCHANGED <<file, room, rump_job, moved>>
  BY DEF Rump!HeldUnlock, Rump!Drop
<1>2. RumpType /\ LockInv /\ ReadOk(t) /\ WriteOk(t)
  BY DEF RumpInv
<1>3. /\ rump_job[t] \in RumpJobs /\ "done" \in RumpLabels
      /\ rump_job' = [rump_job EXCEPT ![t] = rump_job[t]]
  BY <1>1, <1>2 DEF RumpType, RumpLabels
<1>4. /\ rump_pc'[t] = "done" /\ rump_job'[t] = rump_job[t]
      /\ \A s \in Threads \ {t} : rump_pc'[s] = rump_pc[s] /\ rump_job'[s] = rump_job[s]
  BY <1>1, <1>2, <1>3, RumpThread
<1>5. LockInv'
  <2>1. \A s \in Threads \ {t} : (s = writer \/ s \in readers <=> Inside(s))' /\ Modes(s)'
    BY <1>1, <1>2, <1>4, RingAssumption, OthersInside DEF LockInv
  <2>2. (t = writer \/ t \in readers <=> Inside(t))' /\ Modes(t)'
    BY <1>1, <1>2, <1>4, RingAssumption DEF LockInv, Inside, Modes
  <2> QED BY <1>1, <1>2, <2>1, <2>2 DEF LockInv
<1>6. writer' \in Threads \cup {NoThread} /\ readers' \in SUBSET Threads
  BY <1>1, <1>2 DEF RumpType
<1>7. rump_job[t].op = "held"
  BY <1>1, <1>2 DEF LockInv, Modes
<1>8. ReadOk(t)' /\ WriteOk(t)'
  BY <1>4, <1>7 DEF ReadOk, WriteOk
<1> QED BY <1>1, <1>2, <1>3, <1>5, <1>6, <1>8, LockStepKeeps DEF RumpType

\* The first half of rumpuser_rw_held takes the lock, or nothing.
LEMMA HeldKeeps ==
  ASSUME RumpInv, NEW t \in Threads, Rump!Held(t)
  PROVE  RumpInv'
<1>1. rump_pc[t] = "try" /\ UNCHANGED <<file, room, moved>>
  BY DEF Rump!Held
<1>2. RumpType /\ LockInv
  BY DEF RumpInv
<1>3. rump_job[t] \in RumpJobs /\ rump_job[t].op = "held"
  BY <1>1, <1>2 DEF RumpType, LockInv, Modes
<1>4. ~Inside(t) /\ t # writer /\ t \notin readers
  BY <1>1, <1>2 DEF LockInv, Inside
<1>5. CASE /\ Rump!Take(t, rump_job[t].lk)
           /\ rump_pc' = [rump_pc EXCEPT ![t] = "unlock"]
           /\ rump_job' = [rump_job EXCEPT ![t].held = 0]
  <2>1. PICK j \in RumpJobs : j = [rump_job[t] EXCEPT !.held = 0]
    BY <1>3 DEF RumpJobs
  <2>2. rump_job' = [rump_job EXCEPT ![t] = j] /\ j.op = "held" /\ "unlock" \in RumpLabels
    BY <1>3, <1>5, <2>1 DEF RumpLabels, RumpJobs
  <2>3. /\ rump_pc'[t] = "unlock" /\ rump_job'[t] = j
        /\ \A s \in Threads \ {t} : rump_pc'[s] = rump_pc[s] /\ rump_job'[s] = rump_job[s]
    BY <1>2, <1>5, <2>2, RumpThread
  <2>4. LockInv' /\ writer' \in Threads \cup {NoThread} /\ readers' \in SUBSET Threads
    <3>1. CASE /\ rump_job[t].lk = 1 /\ writer = NoThread /\ readers = {}
               /\ writer' = t /\ readers' = readers
      <4>1. \A s \in Threads \ {t} : (s = writer \/ s \in readers <=> Inside(s))' /\ Modes(s)'
        BY <1>2, <2>3, <3>1, RingAssumption, OthersInside DEF LockInv
      <4>2. (t = writer \/ t \in readers <=> Inside(t))' /\ Modes(t)'
        BY <2>2, <2>3, <3>1 DEF Inside, Modes
      <4> QED BY <1>2, <3>1, <4>1, <4>2 DEF LockInv, RumpType
    <3>2. CASE /\ rump_job[t].lk # 1 /\ writer = NoThread
               /\ readers' = readers \cup {t} /\ writer' = writer
      <4>1. \A s \in Threads \ {t} : (s = writer \/ s \in readers <=> Inside(s))' /\ Modes(s)'
        BY <1>2, <2>3, <3>2, OthersInside DEF LockInv
      <4>2. (t = writer \/ t \in readers <=> Inside(t))' /\ Modes(t)'
        BY <2>2, <2>3, <3>2 DEF Inside, Modes
      <4> QED BY <1>2, <3>2, <4>1, <4>2 DEF LockInv, RumpType
    <3> QED BY <1>5, <3>1, <3>2 DEF Rump!Take, Rump!FreeToWrite, Rump!FreeToRead
  <2>5. ReadOk(t)' /\ WriteOk(t)'
    BY <2>2, <2>3 DEF ReadOk, WriteOk
  <2> QED BY <1>1, <1>2, <1>5, <2>2, <2>4, <2>5, LockStepKeeps DEF RumpType
<1>6. CASE /\ rump_pc' = [rump_pc EXCEPT ![t] = "done"]
           /\ rump_job' = [rump_job EXCEPT ![t].held = 1]
           /\ UNCHANGED <<writer, readers>>
  <2>1. PICK j \in RumpJobs : j = [rump_job[t] EXCEPT !.held = 1]
    BY <1>3 DEF RumpJobs
  <2>2. rump_job' = [rump_job EXCEPT ![t] = j] /\ j.op = "held" /\ "done" \in RumpLabels
    BY <1>3, <1>6, <2>1 DEF RumpLabels, RumpJobs
  <2>3. /\ rump_pc'[t] = "done" /\ rump_job'[t] = j
        /\ \A s \in Threads \ {t} : rump_pc'[s] = rump_pc[s] /\ rump_job'[s] = rump_job[s]
    BY <1>2, <1>6, <2>2, RumpThread
  <2>4. LockInv'
    <3>1. \A s \in Threads \ {t} : (s = writer \/ s \in readers <=> Inside(s))' /\ Modes(s)'
      BY <1>2, <1>6, <2>3, OthersInside DEF LockInv
    <3>2. (t = writer \/ t \in readers <=> Inside(t))' /\ Modes(t)'
      BY <1>4, <1>6, <2>3 DEF Inside, Modes
    <3> QED BY <1>2, <1>6, <3>1, <3>2 DEF LockInv
  <2>5. ReadOk(t)' /\ WriteOk(t)'
    BY <2>2, <2>3 DEF ReadOk, WriteOk
  <2> QED BY <1>1, <1>2, <1>6, <2>2, <2>4, <2>5, LockStepKeeps DEF RumpType
<1> QED BY <1>5, <1>6 DEF Rump!Held

\* A call that ends early reports what was transferred before.
LEMMA EntryFailsKeeps ==
  ASSUME RumpInv, NEW t \in Threads, Rump!EntryFails(t)
  PROVE  RumpInv'
<1>1. /\ rump_pc[t] = "io" /\ rump_pc' = [rump_pc EXCEPT ![t] = "exit"]
      /\ UNCHANGED <<file, room, writer, readers, rump_job, moved>>
  BY DEF Rump!EntryFails
<1>2. RumpType /\ LockInv /\ ReadOk(t) /\ WriteOk(t)
  BY DEF RumpInv
<1>3. /\ rump_job[t] \in RumpJobs /\ "exit" \in RumpLabels
      /\ rump_job' = [rump_job EXCEPT ![t] = rump_job[t]]
  BY <1>1, <1>2 DEF RumpType, RumpLabels
<1>4. /\ rump_pc'[t] = "exit" /\ rump_job'[t] = rump_job[t]
      /\ \A s \in Threads \ {t} : rump_pc'[s] = rump_pc[s] /\ rump_job'[s] = rump_job[s]
  BY <1>1, <1>2, <1>3, RumpThread
<1>5. LockInv'
  <2>1. \A s \in Threads \ {t} : (s = writer \/ s \in readers <=> Inside(s))' /\ Modes(s)'
    BY <1>1, <1>2, <1>4, OthersInside DEF LockInv
  <2>2. (t = writer \/ t \in readers <=> Inside(t))' /\ Modes(t)'
    BY <1>1, <1>2, <1>4 DEF LockInv, Inside, Modes
  <2> QED BY <1>1, <1>2, <2>1, <2>2 DEF LockInv
<1>6. ReadOk(t)'
  BY <1>1, <1>2, <1>4 DEF ReadOk, Reading, Disturbed
<1>7. WriteOk(t)'
  BY <1>1, <1>2, <1>4 DEF WriteOk
<1> QED BY <1>1, <1>2, <1>3, <1>5, <1>6, <1>7, LockStepKeeps DEF RumpType

\* A call that ends leaves nothing behind.
LEMMA FinishKeeps ==
  ASSUME RumpInv, NEW t \in Threads, Rump!Finish(t)
  PROVE  RumpInv'
<1>1. /\ rump_pc[t] = "done" /\ rump_pc' = [rump_pc EXCEPT ![t] = "idle"]
      /\ rump_job' = [rump_job EXCEPT ![t] = Rump!NoJob]
      /\ moved' = [moved EXCEPT ![t] = FALSE]
      /\ UNCHANGED <<file, room, writer, readers>>
  BY DEF Rump!Finish
<1>2. RumpType /\ LockInv
  BY DEF RumpInv
<1>3. Rump!NoJob \in RumpJobs /\ "idle" \in RumpLabels
  BY DEF Rump!NoJob, RumpJobs, RumpLabels
<1>4. /\ rump_pc'[t] = "idle" /\ rump_job'[t] = Rump!NoJob
      /\ \A s \in Threads \ {t} : rump_pc'[s] = rump_pc[s] /\ rump_job'[s] = rump_job[s]
  BY <1>1, <1>2, <1>3, RumpThread
<1>5. LockInv'
  <2>1. \A s \in Threads \ {t} : (s = writer \/ s \in readers <=> Inside(s))' /\ Modes(s)'
    BY <1>1, <1>2, <1>4, OthersInside DEF LockInv
  <2>2. (t = writer \/ t \in readers <=> Inside(t))' /\ Modes(t)'
    BY <1>1, <1>2, <1>4 DEF LockInv, Inside, Modes
  <2> QED BY <1>1, <1>2, <2>1, <2>2 DEF LockInv
<1>6. ReadOk(t)' /\ WriteOk(t)'
  BY <1>4 DEF ReadOk, WriteOk
<1>7. moved' \in [Threads -> BOOLEAN] /\ \A s \in Threads \ {t} : moved'[s] = moved[s]
  BY <1>1, <1>2 DEF RumpType
<1> QED BY <1>1, <1>2, <1>3, <1>5, <1>6, <1>7, LockStepKeeps DEF RumpType

-----------------------------------------------------------------------------
(* The calls.                                                              *)

\* A call as it begins.
Fresh(j) ==
  /\ j \in RumpJobs /\ j.i = 1 /\ j.total = 0 /\ j.off = j.start
  /\ j.op \in {"read", "write", "held"}
  /\ j.op = "read" => j.lk = 0 /\ j.buf = Filled(j.start, j.iov, 0, 0)
  /\ j.op = "write" => j.lk = 1 /\ j.locked /\ j.off <= Len(file)

\* A thread that begins a call is outside the lock, with nothing transferred.
LEMMA BeginKeeps ==
  ASSUME RumpInv, NEW t \in Threads, NEW j, Fresh(j), NEW where,
         where = CASE j.op = "held" -> "try" [] j.op # "held" /\ j.locked -> "enter"
                   [] j.op # "held" /\ ~j.locked -> "io",
         Rump!Begin(t, j, where)
  PROVE  RumpInv'
<1>1. /\ rump_pc[t] = "idle" /\ rump_pc' = [rump_pc EXCEPT ![t] = where]
      /\ rump_job' = [rump_job EXCEPT ![t] = j]
      /\ moved' = [moved EXCEPT ![t] = FALSE]
      /\ UNCHANGED <<file, room, writer, readers>>
  BY DEF Rump!Begin
<1>2. RumpType /\ LockInv
  BY DEF RumpInv
<1>3. j \in RumpJobs /\ j.locked \in BOOLEAN /\ where \in RumpLabels
  BY DEF Fresh, RumpJobs, RumpLabels
<1>4. /\ rump_pc'[t] = where /\ rump_job'[t] = j
      /\ \A s \in Threads \ {t} : rump_pc'[s] = rump_pc[s] /\ rump_job'[s] = rump_job[s]
  BY <1>1, <1>2, <1>3, RumpThread
<1>5. LockInv'
  <2>1. \A s \in Threads \ {t} : (s = writer \/ s \in readers <=> Inside(s))' /\ Modes(s)'
    BY <1>1, <1>2, <1>4, OthersInside DEF LockInv
  <2>2. t # writer /\ t \notin readers
    BY <1>1, <1>2 DEF LockInv, Inside
  <2>3. (t = writer \/ t \in readers <=> Inside(t))' /\ Modes(t)'
    BY <1>1, <1>3, <1>4, <2>2 DEF Fresh, Inside, Modes
  <2> QED BY <1>1, <1>2, <2>1, <2>3 DEF LockInv
<1>6. moved' \in [Threads -> BOOLEAN] /\ \A s \in Threads \ {t} : moved'[s] = moved[s]
  BY <1>1, <1>2 DEF RumpType
<1>7. ReadOk(t)'
  <2> SUFFICES ASSUME j.op = "read" PROVE Reading(t, 0, 0)'
    BY <1>4 DEF ReadOk, Fresh
  <2> QED BY <1>4 DEF Reading, Fresh, RumpJobs
<1>8. WriteOk(t)'
  BY <1>1, <1>4 DEF WriteOk, Fresh, RumpJobs
<1> QED BY <1>1, <1>2, <1>3, <1>5, <1>6, <1>7, <1>8, LockStepKeeps DEF RumpType

\* The buffers of a call that begins are unfilled.
LEMMA Unfilled ==
  ASSUME NEW off \in Nat, NEW iov \in Rump!Iovs,
         NEW buf, buf = [k \in 1 .. iov[1] + iov[2] |-> Rump!Gap]
  PROVE  buf \in Seq(Int) /\ buf = Filled(off, iov, 0, 0) /\ iov \in Nat \X Nat
<1>1. iov \in Nat \X Nat
  BY RumpAssumption DEF Rump!Iovs
<1>2. buf \in Seq(Int)
  BY <1>1 DEF Rump!Gap
<1>3. buf = Filled(off, iov, 0, 0)
  BY <1>1 DEF Filled, Rump!Gap
<1> QED BY <1>1, <1>2, <1>3

\* Each of the three calls begins fresh.
LEMMA BeginsKeep ==
  ASSUME RumpInv, NEW t \in Threads,
         Rump!BeginRead(t) \/ Rump!BeginWrite(t) \/ Rump!BeginHeld(t)
  PROVE  RumpInv'
<1>1. CASE Rump!BeginRead(t)
  <2>1. PICK off \in 0 .. MaxSize, iov \in Rump!Iovs, locked \in BOOLEAN :
          Rump!Begin(t, Rump!Vector("read", 0, locked, off, iov),
                          IF locked THEN "enter" ELSE "io")
    BY <1>1 DEF Rump!BeginRead
  <2>2. off \in Nat
    BY RumpAssumption
  <2>3. PICK buf : buf = [k \in 1 .. iov[1] + iov[2] |-> Rump!Gap]
    OBVIOUS
  <2>4. buf \in Seq(Int) /\ buf = Filled(off, iov, 0, 0) /\ iov \in Nat \X Nat
    BY <2>2, <2>3, Unfilled
  <2>5. PICK j : j = Rump!Vector("read", 0, locked, off, iov)
    OBVIOUS
  <2>6. j = [op |-> "read", lk |-> 0, locked |-> locked, off |-> off, start |-> off,
             iov |-> iov, i |-> 1, total |-> 0, buf |-> buf, held |-> 0]
    BY <2>3, <2>5 DEF Rump!Vector, Rump!NoJob
  <2>7. j \in RumpJobs
    BY <2>2, <2>4, <2>6 DEF RumpJobs
  <2>8. Fresh(j)
    BY <2>1, <2>4, <2>6, <2>7 DEF Fresh
  <2>9. Rump!Begin(t, j, IF locked THEN "enter" ELSE "io")
    BY <2>1, <2>5
  <2> QED BY <2>6, <2>8, <2>9, BeginKeeps
<1>2. CASE Rump!BeginWrite(t)
  <2>1. PICK off \in 0 .. MaxSize, iov \in Rump!Iovs :
          off <= Len(file) /\ Rump!Begin(t, Rump!Vector("write", 1, TRUE, off, iov),
                          "enter")
    BY <1>2 DEF Rump!BeginWrite
  <2>2. off \in Nat
    BY RumpAssumption
  <2>3. PICK buf : buf = [k \in 1 .. iov[1] + iov[2] |-> Rump!Gap]
    OBVIOUS
  <2>4. buf \in Seq(Int) /\ buf = Filled(off, iov, 0, 0) /\ iov \in Nat \X Nat
    BY <2>2, <2>3, Unfilled
  <2>5. PICK j : j = Rump!Vector("write", 1, TRUE, off, iov)
    OBVIOUS
  <2>6. j = [op |-> "write", lk |-> 1, locked |-> TRUE, off |-> off, start |-> off,
             iov |-> iov, i |-> 1, total |-> 0, buf |-> buf, held |-> 0]
    BY <2>3, <2>5 DEF Rump!Vector, Rump!NoJob
  <2>7. j \in RumpJobs
    BY <2>2, <2>4, <2>6 DEF RumpJobs
  <2>8. Fresh(j)
    BY <2>1, <2>4, <2>6, <2>7 DEF Fresh
  <2>9. Rump!Begin(t, j, "enter")
    BY <2>1, <2>5
  <2> QED BY <2>6, <2>8, <2>9, BeginKeeps
<1>3. CASE Rump!BeginHeld(t)
  <2>1. PICK lk \in {0, 1} : Rump!Begin(t, [Rump!NoJob EXCEPT !.op = "held", !.lk = lk], "try")
    BY <1>3 DEF Rump!BeginHeld
  <2>2. PICK j : j = [Rump!NoJob EXCEPT !.op = "held", !.lk = lk]
    OBVIOUS
  <2>3. j = [op |-> "held", lk |-> lk, locked |-> FALSE, off |-> 0, start |-> 0,
             iov |-> <<0, 0>>, i |-> 1, total |-> 0, buf |-> <<>>, held |-> 0]
    BY <2>2 DEF Rump!NoJob
  <2>4. j \in RumpJobs
    BY <2>3 DEF RumpJobs
  <2>5. Fresh(j) /\ j.op = "held"
    BY <2>3, <2>4 DEF Fresh
  <2>6. Rump!Begin(t, j, "try")
    BY <2>1, <2>2
  <2> QED BY <2>5, <2>6, BeginKeeps
<1> QED BY <1>1, <1>2, <1>3

-----------------------------------------------------------------------------
(* The host calls of a vector.                                             *)

\* A buffer holds positions and gaps.
LEMMA FilledType ==
  ASSUME NEW start \in Nat, NEW iov \in Nat \X Nat, NEW n1 \in Nat, NEW n2 \in Nat
  PROVE  Filled(start, iov, n1, n2) \in Seq(Int)
<1>1. PICK m \in Nat : m = iov[1] + iov[2]
  OBVIOUS
<1>2. Filled(start, iov, n1, n2) \in [1 .. m -> Int]
  BY <1>1 DEF Filled
<1> QED BY <1>2

\* What pread transfers.
LEMMA ReadableBound ==
  ASSUME file \in Seq(Nat), NEW j \in RumpJobs, j.i \in {1, 2},
         NEW n, n = Rump!Readable(j)
  PROVE  n \in Nat /\ n <= j.iov[j.i] /\ (Len(file) <= j.off => n = 0)
         /\ (n < j.iov[j.i] => Len(file) <= j.off + n)
<1>1. j.off \in Nat /\ j.iov[j.i] \in Nat /\ Len(file) \in Nat
  BY DEF RumpJobs
<1> QED BY SMTT(30), <1>1 DEF Rump!Readable, Rump!Least, Rump!Len_

\* pread fills the front of one entry, and less of it only at the end of the file.
LEMMA ReadEntryKeeps ==
  ASSUME RumpInv, NEW t \in Threads, Rump!ReadEntry(t)
  PROVE  RumpInv'
<1>1. rump_pc[t] = "io" /\ rump_job[t].op = "read"
      /\ UNCHANGED <<file, room, writer, readers, moved>>
  BY DEF Rump!ReadEntry
<1>2. RumpType /\ LockInv /\ ReadOk(t)
  BY DEF RumpInv
<1>3. PICK j \in RumpJobs : j = rump_job[t]
  BY <1>2 DEF RumpType
<1>4. PICK n1, n2 \in Nat : Reading(t, n1, n2) /\ j.i < 3
  BY <1>1, <1>2, <1>3 DEF ReadOk
<1>5. /\ j.start \in Nat /\ j.off \in Nat /\ j.total \in Nat /\ j.iov \in Nat \X Nat
      /\ j.i \in {1, 2}
  BY <1>3, <1>4 DEF RumpJobs, Reading
<1>6. /\ n2 = 0 /\ n1 <= j.iov[1] /\ (j.i = 1 => n1 = 0)
      /\ j.total = n1 /\ j.off = j.start + n1 /\ j.buf = Filled(j.start, j.iov, n1, 0)
  BY <1>3, <1>4, <1>5 DEF Reading
<1>7. PICK n : n = Rump!Readable(j)
  OBVIOUS
<1>8. n \in Nat /\ n <= j.iov[j.i]
  BY <1>2, <1>5, <1>7, ReadableBound DEF RumpType
<1>9. /\ Len(file) <= j.off => n = 0
      /\ n < j.iov[j.i] => Len(file) <= j.off + n
      /\ j.i = 2 /\ n1 < j.iov[1] => Len(file) <= j.off \/ Disturbed(t)
  BY <1>1, <1>2, <1>3, <1>4, <1>5, <1>7, ReadableBound DEF RumpType, Reading
<1>10. PICK base : base = Rump!Base(j.iov, j.i)
  OBVIOUS
<1>11. PICK buf : buf = [k \in 1 .. Len(j.buf) |->
                          IF base < k /\ k <= base + n THEN j.off + k - base - 1 ELSE j.buf[k]]
  OBVIOUS
<1>12. PICK l : l = Rump!After(j)
  OBVIOUS
<1>13. PICK k : k = [Rump!Advance(j, n) EXCEPT !.buf = buf]
  OBVIOUS
<1>14. rump_job' = [rump_job EXCEPT ![t] = k] /\ rump_pc' = [rump_pc EXCEPT ![t] = l]
  BY <1>3, <1>7, <1>10, <1>11, <1>12, <1>13 DEF Rump!ReadEntry
<1>15. l \in RumpLabels /\ l = IF j.i = 2 THEN "exit" ELSE "io"
  BY <1>12 DEF Rump!After, RumpLabels
<1>16. /\ k.op = j.op /\ k.lk = j.lk /\ k.locked = j.locked /\ k.start = j.start
       /\ k.iov = j.iov /\ k.off = j.off + n /\ k.total = j.total + n /\ k.i = j.i + 1
       /\ k.buf = buf
  BY <1>13 DEF Rump!Advance, RumpJobs
<1>17. buf = IF j.i = 1 THEN Filled(j.start, j.iov, n, 0) ELSE Filled(j.start, j.iov, n1, n)
  <2>1. CASE j.i = 1
    <3>1. base = 0 /\ j.off = j.start /\ n <= j.iov[1] /\ j.buf = Filled(j.start, j.iov, 0, 0)
      BY <1>5, <1>6, <1>8, <1>10, <2>1 DEF Rump!Base
    <3>2. Len(j.buf) = j.iov[1] + j.iov[2]
      BY <1>5, <3>1 DEF Filled
    <3>3. buf = Filled(j.start, j.iov, n, 0)
      BY <1>5, <1>8, <1>11, <3>1, <3>2 DEF Filled
    <3> QED BY <2>1, <3>3
  <2>2. CASE j.i = 2
    <3>1. base = j.iov[1] /\ n <= j.iov[2]
      BY <1>8, <1>10, <2>2 DEF Rump!Base
    <3>2. Len(j.buf) = j.iov[1] + j.iov[2]
      BY <1>5, <1>6 DEF Filled
    <3>3. buf = Filled(j.start, j.iov, n1, n)
      BY SMTT(30), <1>5, <1>6, <1>8, <1>11, <3>1, <3>2 DEF Filled
    <3> QED BY <2>2, <3>3
  <2> QED BY <1>5, <2>1, <2>2
<1>18. k \in RumpJobs
  <2>1. buf \in Seq(Int)
    BY <1>5, <1>8, <1>17, FilledType
  <2>2. PICK a : a = Rump!Advance(j, n)
    OBVIOUS
  <2>3. a \in RumpJobs
    <3>1. j.total + n \in Nat /\ j.off + n \in Nat /\ j.i + 1 \in Nat
      BY <1>5, <1>8
    <3> QED BY <2>2, <3>1 DEF Rump!Advance, RumpJobs
  <2>4. k = [a EXCEPT !.buf = buf]
    BY <1>13, <2>2
  <2> QED BY <2>1, <2>3, <2>4 DEF RumpJobs
<1>19. /\ rump_pc'[t] = l /\ rump_job'[t] = k
       /\ \A s \in Threads \ {t} : rump_pc'[s] = rump_pc[s] /\ rump_job'[s] = rump_job[s]
  BY <1>2, <1>14, <1>15, <1>18, RumpThread
<1>20. LockInv'
  <2>1. \A s \in Threads \ {t} : (s = writer \/ s \in readers <=> Inside(s))' /\ Modes(s)'
    BY <1>1, <1>2, <1>19, OthersInside DEF LockInv
  <2>2. (t = writer \/ t \in readers <=> Inside(t))' /\ Modes(t)'
    BY <1>1, <1>2, <1>3, <1>15, <1>16, <1>19 DEF LockInv, Inside, Modes
  <2> QED BY <1>1, <1>2, <2>1, <2>2 DEF LockInv
<1>21. ReadOk(t)'
  <2>1. Disturbed(t)' = Disturbed(t)
    BY <1>1, <1>3, <1>16, <1>19 DEF Disturbed
  <2>2. CASE j.i = 1
    <3>1. Reading(t, n, 0)'
      BY <1>1, <1>5, <1>6, <1>8, <1>9, <1>16, <1>17, <1>19, <2>2 DEF Reading
    <3> QED BY <1>8, <1>15, <1>16, <1>19, <2>2, <3>1 DEF ReadOk
  <2>3. CASE j.i = 2
    <3>1. l = "exit" /\ (n1 < j.iov[1] /\ n > 0 => Disturbed(t))
      BY <1>5, <1>6, <1>8, <1>9, <1>15, <2>3
    <3>2. Reading(t, n1, n)'
      BY <1>1, <1>5, <1>6, <1>8, <1>16, <1>17, <1>19, <2>1, <2>3, <3>1 DEF Reading
    <3> QED BY <1>8, <1>19, <3>1, <3>2 DEF ReadOk
  <2> QED BY <1>5, <2>2, <2>3
<1>22. WriteOk(t)'
  BY <1>1, <1>3, <1>16, <1>19 DEF WriteOk
<1> QED BY <1>1, <1>2, <1>14, <1>15, <1>18, <1>20, <1>21, <1>22, LockStepKeeps DEF RumpType

\* The threads that a write leaves alone.
LEMMA OthersSeeWrite ==
  ASSUME RumpInv, NEW t \in Threads, writer = t, NEW s \in Threads \ {t},
         rump_pc'[s] = rump_pc[s], rump_job'[s] = rump_job[s],
         Len(file) \in Nat, Len(file') \in Nat, Len(file) <= Len(file'),
         moved'[s] \in BOOLEAN, (moved[s] => moved'[s]),
         rump_pc[s] = "io" /\ Len(file') > Len(file) => moved'[s]
  PROVE  ReadOk(s)' /\ WriteOk(s)'
<1>1. RumpType /\ LockInv /\ ReadOk(s) /\ WriteOk(s)
  BY DEF RumpInv
<1>2. ~Inside(s)
  BY <1>1, RingAssumption DEF LockInv
<1>3. ReadOk(s)'
  <2> SUFFICES ASSUME rump_pc[s] \in {"enter", "io", "exit", "done"}, rump_job[s].op = "read"
               PROVE  \E n1, n2 \in Nat : Reading(s, n1, n2)'
    BY <1>1 DEF ReadOk
  <2>1. PICK n1, n2 \in Nat : Reading(s, n1, n2)
    BY <1>1 DEF ReadOk
  <2>2. Disturbed(s) => Disturbed(s)'
    BY DEF Disturbed
  <2>3. rump_pc[s] = "io" /\ Len(file') > Len(file) => Disturbed(s)'
    BY <1>2 DEF Disturbed, Inside
  <2>4. rump_job[s].off \in Nat
    BY <1>1 DEF RumpType, RumpJobs
  <2>5. ASSUME rump_pc[s] = "io", rump_job[s].i = 2, n1 < rump_job[s].iov[1]
        PROVE  Len(file') <= rump_job[s].off \/ Disturbed(s)'
    <3>1. Len(file) <= rump_job[s].off \/ Disturbed(s)
      BY <2>1, <2>5 DEF Reading
    <3> QED BY <2>2, <2>3, <2>4, <2>5, <3>1
  <2>6. Reading(s, n1, n2)'
    BY <2>1, <2>2, <2>5 DEF Reading
  <2> QED BY <2>6
<1>4. WriteOk(s)'
  <2> SUFFICES ASSUME rump_pc[s] \in {"enter", "io", "exit"}, rump_job[s].op = "write"
               PROVE  WriteOk(s)'
    BY DEF WriteOk
  <2>1. rump_pc[s] = "enter"
    BY <1>1, <1>2 DEF LockInv, Modes, Inside
  <2>2. /\ rump_job[s].i = 1 /\ rump_job[s].total = 0 /\ rump_job[s].off \in Nat
        /\ rump_job[s].start \in Nat /\ rump_job[s].off = rump_job[s].start + rump_job[s].total
        /\ rump_job[s].off <= Len(file)
    BY <1>1, <2>1 DEF RumpType, RumpJobs, WriteOk
  <2> QED BY <2>1, <2>2 DEF WriteOk
<1> QED BY <1>3, <1>4

\* pwrite stores the front of one entry, and less of it only without room.
LEMMA WriteEntryKeeps ==
  ASSUME RumpInv, NEW t \in Threads, Rump!WriteEntry(t)
  PROVE  RumpInv'
<1>1. rump_pc[t] = "io" /\ rump_job[t].op = "write" /\ UNCHANGED <<writer, readers>>
  BY DEF Rump!WriteEntry
<1>2. RumpType /\ LockInv /\ WriteOk(t)
  BY DEF RumpInv
<1>3. PICK j \in RumpJobs : j = rump_job[t]
  BY <1>2 DEF RumpType
<1>4. j.locked /\ j.lk = 1 /\ writer = t
  BY <1>1, <1>2, <1>3 DEF LockInv, Modes
<1>5. PICK end \in Nat : end = Len(file)
  BY <1>2 DEF RumpType
<1>6. /\ j.start \in Nat /\ j.off \in Nat /\ j.total \in Nat /\ j.iov \in Nat \X Nat
      /\ j.i \in {1, 2} /\ j.off = j.start + j.total /\ j.off <= end
  BY <1>1, <1>2, <1>3, <1>5 DEF RumpJobs, WriteOk
<1>7. /\ j.i = 1 => j.total = 0
      /\ j.i = 2 => j.total <= j.iov[1]
  BY <1>1, <1>2, <1>3 DEF WriteOk
<1>8. ~moved[t] =>
        /\ \A p \in j.start + 1 .. j.start + j.total : file[p] = p - 1
        /\ j.i = 2 /\ j.total < j.iov[1] => room = 0 /\ j.off = end
  BY <1>1, <1>2, <1>3, <1>5 DEF WriteOk
<1>9. PICK len \in Nat : len = Rump!Len_(j)
  BY <1>6 DEF Rump!Len_
<1>10. PICK n : n = Rump!Least(len, end - j.off + room)
  OBVIOUS
<1>11. PICK size : size = IF j.off + n > end THEN j.off + n ELSE end
  OBVIOUS
<1>12. PICK left : left = room - (size - end)
  OBVIOUS
<1>13. /\ n \in Nat /\ n <= len /\ size \in Nat /\ end <= size /\ j.off + n <= size
       /\ left \in Nat
       /\ j.off + n < size => size = end
       /\ n < len => left = 0 /\ j.off + n = size
       /\ room = 0 /\ j.off = end => n = 0
  <2>1. room \in Nat
    BY <1>2 DEF RumpType
  <2> QED BY <1>6, <1>10, <1>11, <1>12, <2>1 DEF Rump!Least
<1>14. PICK source : source = j.start + Rump!Base(j.iov, j.i)
  OBVIOUS
<1>15. source \in Nat /\ source = IF j.i = 1 THEN j.start ELSE j.start + j.iov[1]
  BY <1>6, <1>14 DEF Rump!Base
<1>16. PICK bytes :
         bytes = [p \in 1 .. size |->
                    IF j.off < p /\ p <= j.off + n THEN source + p - j.off - 1 ELSE file[p]]
  OBVIOUS
<1>17. PICK k : k = Rump!Advance(j, n)
  OBVIOUS
<1>18. PICK l : l = Rump!After(j)
  OBVIOUS
<1>19. /\ file' = bytes /\ room' = left
       /\ rump_job' = [rump_job EXCEPT ![t] = k] /\ rump_pc' = [rump_pc EXCEPT ![t] = l]
       /\ moved' = [s \in Threads |-> moved[s] \/ (s # t /\ rump_pc[s] = "io" /\ size > end)]
  BY <1>3, <1>5, <1>9, <1>10, <1>11, <1>12, <1>14, <1>16, <1>17, <1>18
  DEF Rump!WriteEntry
<1>20. l \in RumpLabels /\ l = IF j.i = 2 THEN "exit" ELSE "io"
  BY <1>18 DEF Rump!After, RumpLabels
<1>21. /\ k.op = j.op /\ k.lk = j.lk /\ k.locked = j.locked /\ k.start = j.start
       /\ k.iov = j.iov /\ k.off = j.off + n /\ k.total = j.total + n /\ k.i = j.i + 1
  BY <1>17 DEF Rump!Advance, RumpJobs
<1>22. k \in RumpJobs
  <2>1. j.total + n \in Nat /\ j.off + n \in Nat /\ j.i + 1 \in Nat
    BY <1>6, <1>13
  <2> QED BY <1>17, <2>1 DEF Rump!Advance, RumpJobs
<1>23. /\ rump_pc'[t] = l /\ rump_job'[t] = k
       /\ \A s \in Threads \ {t} : rump_pc'[s] = rump_pc[s] /\ rump_job'[s] = rump_job[s]
       /\ rump_pc' \in [Threads -> RumpLabels] /\ rump_job' \in [Threads -> RumpJobs]
  BY <1>2, <1>19, <1>20, <1>22, RumpThread
<1>24. bytes \in Seq(Nat) /\ Len(bytes) = size
  <2>1. \A p \in 1 .. size : bytes[p] \in Nat
    <3> SUFFICES ASSUME NEW p \in 1 .. size PROVE bytes[p] \in Nat
      OBVIOUS
    <3>1. CASE j.off < p /\ p <= j.off + n
      <4>1. p \in Nat /\ p - j.off - 1 \in Nat
        BY <1>6, <1>13, <3>1
      <4>2. bytes[p] = source + (p - j.off - 1)
        BY <1>6, <1>15, <1>16, <3>1, <4>1
      <4> QED BY <1>15, <4>1, <4>2
    <3>2. CASE ~(j.off < p /\ p <= j.off + n)
      <4>1. p \in 1 .. Len(file)
        BY <1>5, <1>6, <1>13, <3>2
      <4> QED BY <1>2, <1>16, <3>2, <4>1 DEF RumpType
    <3> QED BY <3>1, <3>2
  <2> QED BY <1>13, <1>16, <2>1
<1>25. moved'[t] = moved[t] /\ moved' \in [Threads -> BOOLEAN]
  BY <1>2, <1>19 DEF RumpType
<1>26. RumpType'
  BY <1>1, <1>2, <1>13, <1>19, <1>23, <1>24, <1>25 DEF RumpType
<1>27. LockInv'
  <2>1. \A s \in Threads \ {t} : (s = writer \/ s \in readers <=> Inside(s))' /\ Modes(s)'
    BY <1>1, <1>2, <1>23, OthersInside DEF LockInv
  <2>2. (t = writer \/ t \in readers <=> Inside(t))' /\ Modes(t)'
    BY <1>1, <1>2, <1>3, <1>20, <1>21, <1>23 DEF LockInv, Inside, Modes
  <2> QED BY <1>1, <1>2, <2>1, <2>2 DEF LockInv
<1>28. \A s \in Threads \ {t} : ReadOk(s)' /\ WriteOk(s)'
  <2> SUFFICES ASSUME NEW s \in Threads \ {t} PROVE ReadOk(s)' /\ WriteOk(s)'
    OBVIOUS
  <2>1. /\ Len(file) \in Nat /\ Len(file') \in Nat /\ Len(file) <= Len(file')
        /\ Len(file') = size /\ Len(file) = end
    BY <1>5, <1>13, <1>19, <1>24
  <2>2. /\ moved'[s] \in BOOLEAN /\ (moved[s] => moved'[s])
        /\ rump_pc[s] = "io" /\ Len(file') > Len(file) => moved'[s]
    BY <1>19, <1>25, <2>1
  <2> QED BY <1>4, <1>23, <2>1, <2>2, OthersSeeWrite
<1>29. ReadOk(t)'
  BY <1>1, <1>3, <1>21, <1>23 DEF ReadOk
<1>30. WriteOk(t)'
  <2>1. /\ k.i \in 1 .. 3 /\ (l = "io" => k.i < 3) /\ l # "enter" /\ k.i # 1
        /\ k.off = k.start + k.total /\ k.off <= Len(file')
    <3>1. k.i \in 1 .. 3 /\ k.i # 1 /\ (l = "io" => k.i < 3) /\ l # "enter"
      BY <1>6, <1>20, <1>21
    <3>2. k.off = k.start + k.total /\ k.off <= size
      BY <1>6, <1>13, <1>21
    <3> QED BY <1>19, <1>24, <3>1, <3>2
  <2>2. k.i = 2 => k.total = n /\ k.total <= k.iov[1]
    BY <1>6, <1>7, <1>9, <1>13, <1>21 DEF Rump!Len_
  <2>3. ASSUME ~moved[t] PROVE \A p \in k.start + 1 .. k.start + k.total : bytes[p] = p - 1
    <3> SUFFICES ASSUME NEW p \in j.start + 1 .. j.off + n PROVE bytes[p] = p - 1
      BY <1>6, <1>13, <1>21
    <3>1. p \in 1 .. size
      BY <1>6, <1>13
    <3>2. CASE p <= j.off
      BY <1>6, <1>8, <1>16, <2>3, <3>1, <3>2
    <3>3. CASE p > j.off
      <4>1. source = j.off \/ n = 0
        BY <1>6, <1>7, <1>8, <1>13, <1>15, <2>3
      <4> QED BY <1>6, <1>13, <1>15, <1>16, <3>1, <3>3, <4>1
    <3> QED BY <1>6, <3>2, <3>3
  <2>4. k.i = 2 /\ k.total < k.iov[1] => left = 0 /\ k.off = size
    BY <1>6, <1>7, <1>9, <1>13, <1>21 DEF Rump!Len_
  <2> QED BY <1>19, <1>23, <1>24, <1>25, <2>1, <2>2, <2>3, <2>4 DEF WriteOk
<1> QED BY <1>26, <1>27, <1>28, <1>29, <1>30 DEF RumpInv

\* Room that comes back marks the calls that it may disturb.
LEMMA FreeRoomKeeps ==
  ASSUME RumpInv, Rump!FreeRoom
  PROVE  RumpInv'
<1>1. /\ room < MaxRoom /\ room' = room + 1
      /\ moved' = [t \in Threads |-> moved[t] \/ rump_pc[t] = "io"]
      /\ UNCHANGED <<file, writer, readers, rump_pc, rump_job>>
  BY DEF Rump!FreeRoom
<1>2. RumpType /\ LockInv
  BY DEF RumpInv
<1>3. RumpType'
  BY <1>1, <1>2 DEF RumpType
<1>4. LockInv'
  BY <1>1, <1>2 DEF LockInv, Inside, Modes
<1>5. \A t \in Threads : ReadOk(t)' /\ WriteOk(t)'
  <2> SUFFICES ASSUME NEW t \in Threads PROVE ReadOk(t)' /\ WriteOk(t)'
    OBVIOUS
  <2>1. ReadOk(t) /\ WriteOk(t)
    BY DEF RumpInv
  <2>2. (moved[t] => moved'[t]) /\ (rump_pc[t] = "io" => moved'[t])
    BY <1>1
  <2>3. ReadOk(t)'
    BY <1>1, <2>1, <2>2 DEF ReadOk, Reading, Disturbed
  <2>4. WriteOk(t)'
    BY <1>1, <2>1, <2>2 DEF WriteOk
  <2> QED BY <2>3, <2>4
<1> QED BY <1>3, <1>4, <1>5 DEF RumpInv

-----------------------------------------------------------------------------
(***************************************************************************)
(* The lock, the buffers and the file stay as the invariant describes them *)
(* whatever the threads call, and whenever the host runs out of room.      *)
(***************************************************************************)
THEOREM HypercallsInvariant == Spec => []RumpInv
<1>1. ServerInit => RumpInv
  BY RumpInit
<1>2. RumpInv /\ [Next]_<<vars, rump, server>> => RumpInv'
  <2> SUFFICES ASSUME RumpInv, [Next]_<<vars, rump, server>> PROVE RumpInv'
    OBVIOUS
  <2>1. CASE UNCHANGED rump
    <3>1. /\ UNCHANGED <<file, room, writer, readers>>
          /\ rump_pc' = rump_pc /\ rump_job' = rump_job /\ moved' = moved
      BY <2>1 DEF rump
    <3>2. RumpType' /\ LockInv'
      BY <3>1 DEF RumpInv, RumpType, LockInv, Inside, Modes
    <3>3. \A t \in Threads : ReadOk(t)' /\ WriteOk(t)'
      BY <3>1, IoFrame DEF RumpInv
    <3> QED BY <3>2, <3>3 DEF RumpInv
  <2>2. CASE Rump!Next
    <3>1. ASSUME NEW t \in Threads, Rump!BeginRead(t) \/ Rump!BeginWrite(t) \/ Rump!BeginHeld(t)
          PROVE  RumpInv'
      BY <3>1, BeginsKeep
    <3>2. ASSUME NEW t \in Threads, Rump!Finish(t) PROVE RumpInv'
      BY <3>2, FinishKeeps
    <3>3. ASSUME NEW t \in Threads, Rump!Enter(t) PROVE RumpInv'
      BY <3>3, EnterKeeps
    <3>4. ASSUME NEW t \in Threads, Rump!Exit(t) PROVE RumpInv'
      BY <3>4, ExitKeeps
    <3>5. ASSUME NEW t \in Threads, Rump!Held(t) PROVE RumpInv'
      BY <3>5, HeldKeeps
    <3>6. ASSUME NEW t \in Threads, Rump!HeldUnlock(t) PROVE RumpInv'
      BY <3>6, HeldUnlockKeeps
    <3>7. ASSUME NEW t \in Threads, Rump!ReadEntry(t) PROVE RumpInv'
      BY <3>7, ReadEntryKeeps
    <3>8. ASSUME NEW t \in Threads, Rump!WriteEntry(t) PROVE RumpInv'
      BY <3>8, WriteEntryKeeps
    <3>9. ASSUME NEW t \in Threads, Rump!EntryFails(t) PROVE RumpInv'
      BY <3>9, EntryFailsKeeps
    <3>10. CASE Rump!FreeRoom
      BY <3>10, FreeRoomKeeps
    <3> QED BY <2>2, <3>1, <3>2, <3>3, <3>4, <3>5, <3>6, <3>7, <3>8, <3>9, <3>10 DEF Rump!Next
  <2> QED BY <2>1, <2>2 DEF Next
<1> QED BY <1>1, <1>2, PTL DEF Spec

(***************************************************************************)
(* The threads inside the lock are the ones that hold it, for every number *)
(* of threads that take it and probe it (rumpuser_rw_enter, _exit, _held). *)
(***************************************************************************)
THEOREM LockIsKept == Spec => []LockIsHeldByItsUsers
<1>1. RumpInv => LockIsHeldByItsUsers
  BY DEF RumpInv, LockInv, Inside, LockIsHeldByItsUsers, Rump!LockIsHeldByItsUsers
<1> QED BY <1>1, HypercallsInvariant, PTL

(***************************************************************************)
(* A gathered write misplaces a byte only after room came back during it,  *)
(* for every file, every offset and all lengths of its two entries         *)
(* (rumpuser_iovwrite).                                                    *)
(***************************************************************************)
THEOREM WritesAreInPlace == Spec => []WriteGapsNeedRoom
<1>1. RumpInv => WriteGapsNeedRoom
  BY DEF RumpInv, WriteOk, WriteGapsNeedRoom, Rump!WriteGapsNeedRoom
<1> QED BY <1>1, HypercallsInvariant, PTL

\* RumpUser counts with the same Cardinality.
LEMMA SameCardinality == \A S : Rump!Cardinality(S) = Cardinality(S)
  BY Zenon DEF Rump!Cardinality, Cardinality

\* The places that a vector has filled.
Stored(buf) == {k \in 1 .. Len(buf) : buf[k] # Rump!Gap}

\* As many places are filled as bytes were transferred: two intervals, disjoint.
LEMMA FilledCount ==
  ASSUME NEW start \in Nat, NEW iov \in Nat \X Nat, NEW n1 \in Nat, NEW n2 \in Nat,
         n1 <= iov[1], n2 <= iov[2], NEW buf, buf = Filled(start, iov, n1, n2)
  PROVE  Cardinality(Stored(buf)) = n1 + n2
<1>1. Len(buf) = iov[1] + iov[2]
  BY DEF Filled
<1>2. PICK a \in Nat : a = iov[1]
  OBVIOUS
<1>3. PICK front, rear : front = 1 .. n1 /\ rear = a + 1 .. a + n2
  OBVIOUS
<1>4. Stored(buf) = front \cup rear
  <2>1. \A k \in 1 .. Len(buf) : buf[k] # Rump!Gap <=> k <= n1 \/ (a < k /\ k <= a + n2)
    BY <1>1, <1>2 DEF Filled, Rump!Gap
  <2>2. \A k : k \in front \cup rear <=>
                 k \in 1 .. Len(buf) /\ (k <= n1 \/ (a < k /\ k <= a + n2))
    BY <1>1, <1>2, <1>3
  <2> QED BY <2>1, <2>2 DEF Stored
<1>5. /\ IsFiniteSet(front) /\ Cardinality(front) = n1
      /\ IsFiniteSet(rear) /\ Cardinality(rear) = n2
  <2>1. Cardinality(front) = n1 /\ IsFiniteSet(front)
    BY <1>3, FS_Interval
  <2>2. a + 1 \in Int /\ a + n2 \in Int
    BY <1>2
  <2>3. IsFiniteSet(rear) /\
        Cardinality(rear) = IF a + 1 > a + n2 THEN 0 ELSE (a + n2) - (a + 1) + 1
    BY <1>3, <2>2, FS_Interval
  <2> QED BY <1>2, <2>1, <2>3
<1>6. front \cap rear = {}
  BY <1>2, <1>3
<1>7. Cardinality(front \cup rear) = n1 + n2
  <2>1. Cardinality(front \cap rear) = 0
    BY <1>6, FS_EmptySet
  <2>2. Cardinality(front \cup rear)
          = Cardinality(front) + Cardinality(rear) - Cardinality(front \cap rear)
    BY <1>5, FS_Union
  <2> QED BY <1>5, <2>1, <2>2
<1> QED BY <1>4, <1>7

(***************************************************************************)
(* A scattered read reports what it stored, and leaves a gap in what it    *)
(* reports only when it took no lock and the file grew during it, for      *)
(* every file, every offset and all lengths of its two entries             *)
(* (rumpuser_iovread).                                                     *)
(***************************************************************************)
THEOREM ReadsHaveNoGap == Spec => []ReadGapsNeedGrowth
<1>1. ASSUME RumpInv, NEW t \in Threads,
             rump_pc[t] \in {"exit", "done"}, rump_job[t].op = "read"
      PROVE  /\ rump_job[t].total = Cardinality(Stored(rump_job[t].buf))
             /\ Rump!ReadInOrder(rump_job[t]) \/ (moved[t] /\ ~rump_job[t].locked)
  <2>1. PICK j \in RumpJobs : j = rump_job[t]
    BY <1>1 DEF RumpInv, RumpType
  <2>2. PICK n1, n2 \in Nat : Reading(t, n1, n2)
    BY <1>1 DEF RumpInv, ReadOk
  <2>3. j.start \in Nat /\ j.iov \in Nat \X Nat
    BY <2>1 DEF RumpJobs
  <2>4. /\ n1 <= j.iov[1] /\ n2 <= j.iov[2] /\ j.total = n1 + n2
        /\ j.buf = Filled(j.start, j.iov, n1, n2)
    BY <2>1, <2>2 DEF Reading
  <2>5. Cardinality(Stored(j.buf)) = n1 + n2
    BY <2>3, <2>4, FilledCount
  <2>6. n1 < j.iov[1] /\ n2 > 0 => moved[t] /\ ~j.locked
    BY <2>1, <2>2 DEF Reading, Disturbed
  <2>7. n1 = j.iov[1] \/ n2 = 0 => Rump!ReadInOrder(j)
    <3> SUFFICES ASSUME n1 = j.iov[1] \/ n2 = 0, NEW k \in 1 .. n1 + n2
                 PROVE  j.buf[k] = j.start + k - 1
      BY <2>4 DEF Rump!ReadInOrder
    <3>1. k \in 1 .. j.iov[1] + j.iov[2]
      BY <2>3, <2>4
    <3>2. j.buf[k] = IF k <= n1 THEN j.start + k - 1
                     ELSE IF j.iov[1] < k /\ k <= j.iov[1] + n2
                            THEN j.start + n1 + k - j.iov[1] - 1 ELSE -1
      BY <2>4, <3>1 DEF Filled
    <3> QED BY <2>3, <3>2
  <2>8. Rump!ReadInOrder(j) \/ (moved[t] /\ ~j.locked)
    BY <2>3, <2>4, <2>6, <2>7
  <2> QED BY <2>1, <2>4, <2>5, <2>8
<1>2. RumpInv => ReadGapsNeedGrowth
  <2> SUFFICES ASSUME RumpInv,
                      NEW t \in Threads, rump_pc[t] \in {"exit", "done"}, rump_job[t].op = "read"
               PROVE  /\ rump_job[t].total = Rump!Cardinality({k \in 1 .. Len(rump_job[t].buf) :
                                                                 rump_job[t].buf[k] # Rump!Gap})
                      /\ Rump!ReadInOrder(rump_job[t]) \/ (moved[t] /\ ~rump_job[t].locked)
    BY Zenon DEF ReadGapsNeedGrowth, Rump!ReadGapsNeedGrowth
  <2> QED BY <1>1, SameCardinality, Zenon DEF Stored
<1> QED BY <1>2, HypercallsInvariant, PTL

-----------------------------------------------------------------------------
(* The bounds of the file and of the calls.                                *)

\* A call stays inside the file's bound, and a write does so to its last byte.
Sized(j) ==
  /\ j.off <= MaxSize /\ j.total <= j.off
  /\ j.op = "write" => j.start + j.iov[1] + j.iov[2] <= MaxSize

SizeInv ==
  /\ file \in Seq(0 .. MaxSize) /\ Len(file) <= MaxSize /\ room <= MaxRoom
  /\ \A t \in Threads : Sized(rump_job[t])

\* A thread with no call in hand, or with a probe, has moved nothing.
LEMMA SizeOfNoJob ==
  Sized(Rump!NoJob) /\ \A lk : Sized([Rump!NoJob EXCEPT !.op = "held", !.lk = lk])
BY RumpAssumption DEF Sized, Rump!NoJob

\* The bounds hold before the first call.
LEMMA SizeInit == ServerInit => SizeInv
<1> SUFFICES ASSUME Rump!Init PROVE SizeInv
  BY DEF ServerInit
<1>1. room = MaxRoom /\ \A t \in Threads : rump_job[t] = Rump!NoJob
  BY DEF Rump!Init
<1>2. PICK n \in 0 .. MaxSize : file = [p \in 1 .. n |-> p - 1]
  BY DEF Rump!Init
<1>3. n \in Nat /\ MaxSize \in Nat /\ n <= MaxSize
  BY <1>2, RumpAssumption
<1>4. \A p \in 1 .. n : p - 1 \in 0 .. MaxSize
  BY <1>3
<1>5. file \in [1 .. n -> 0 .. MaxSize] /\ Len(file) = n
  BY <1>2, <1>3, <1>4
<1>6. file \in Seq(0 .. MaxSize)
  BY <1>3, <1>5
<1>7. \A t \in Threads : Sized(rump_job[t])
  BY <1>1, SizeOfNoJob
<1>8. Len(file) <= MaxSize /\ room <= MaxRoom
  BY <1>1, <1>3, <1>5, RumpAssumption
<1> QED BY <1>6, <1>7, <1>8 DEF SizeInv

\* A step that leaves the file and the room alone.
LEMMA QuietSizes ==
  ASSUME RumpType, SizeInv, NEW t \in Threads, NEW j, Sized(j),
         rump_job' = [rump_job EXCEPT ![t] = j], UNCHANGED <<file, room>>
  PROVE  SizeInv'
<1>1. \A s \in Threads : rump_job'[s] = IF s = t THEN j ELSE rump_job[s]
  BY DEF RumpType
<1> QED BY <1>1 DEF SizeInv

\* A call begins inside the bounds.
LEMMA BeginSizes ==
  ASSUME RumpType, SizeInv, NEW t \in Threads,
         Rump!BeginRead(t) \/ Rump!BeginWrite(t) \/ Rump!BeginHeld(t)
  PROVE  SizeInv'
<1>1. CASE Rump!BeginRead(t)
  <2>1. PICK off \in 0 .. MaxSize, iov \in Rump!Iovs, locked \in BOOLEAN :
          Rump!Begin(t, Rump!Vector("read", 0, locked, off, iov),
                          IF locked THEN "enter" ELSE "io")
    BY <1>1 DEF Rump!BeginRead
  <2>2. PICK j : j = Rump!Vector("read", 0, locked, off, iov)
    OBVIOUS
  <2>3. j.off = off /\ j.total = 0 /\ j.op = "read"
    BY <2>2 DEF Rump!Vector, Rump!NoJob
  <2>4. Sized(j)
    BY <2>3, RumpAssumption DEF Sized
  <2>5. rump_job' = [rump_job EXCEPT ![t] = j] /\ UNCHANGED <<file, room>>
    BY <2>1, <2>2 DEF Rump!Begin
  <2> QED BY <2>4, <2>5, QuietSizes
<1>2. CASE Rump!BeginWrite(t)
  <2>1. PICK off \in 0 .. MaxSize, iov \in Rump!Iovs :
          /\ off + iov[1] + iov[2] <= MaxSize
          /\ Rump!Begin(t, Rump!Vector("write", 1, TRUE, off, iov), "enter")
    BY <1>2 DEF Rump!BeginWrite
  <2>2. PICK j : j = Rump!Vector("write", 1, TRUE, off, iov)
    OBVIOUS
  <2>3. j.off = off /\ j.start = off /\ j.total = 0 /\ j.op = "write" /\ j.iov = iov
    BY <2>2 DEF Rump!Vector, Rump!NoJob
  <2>4. Sized(j)
    BY <2>1, <2>3, RumpAssumption DEF Sized
  <2>5. rump_job' = [rump_job EXCEPT ![t] = j] /\ UNCHANGED <<file, room>>
    BY <2>1, <2>2 DEF Rump!Begin
  <2> QED BY <2>4, <2>5, QuietSizes
<1>3. CASE Rump!BeginHeld(t)
  <2>1. PICK lk : Rump!Begin(t, [Rump!NoJob EXCEPT !.op = "held", !.lk = lk], "try")
    BY <1>3 DEF Rump!BeginHeld
  <2>2. PICK j : j = [Rump!NoJob EXCEPT !.op = "held", !.lk = lk]
    OBVIOUS
  <2>3. Sized(j)
    BY <2>2, SizeOfNoJob
  <2>4. rump_job' = [rump_job EXCEPT ![t] = j] /\ UNCHANGED <<file, room>>
    BY <2>1, <2>2 DEF Rump!Begin
  <2> QED BY <2>3, <2>4, QuietSizes
<1> QED BY <1>1, <1>2, <1>3

\* pread never takes the offset beyond the end of the file.
LEMMA ReadSizes ==
  ASSUME RumpInv, SizeInv, NEW t \in Threads, Rump!ReadEntry(t)
  PROVE  SizeInv'
<1>1. rump_pc[t] = "io" /\ rump_job[t].op = "read" /\ UNCHANGED <<file, room>>
  BY DEF Rump!ReadEntry
<1>2. RumpType /\ file \in Seq(Nat)
  BY DEF RumpInv, RumpType
<1>3. PICK j \in RumpJobs : j = rump_job[t]
  BY <1>2 DEF RumpType
<1>4. Sized(j) /\ j.off \in Nat /\ j.total \in Nat /\ j.op = "read"
  BY <1>1, <1>3 DEF SizeInv, RumpJobs
<1>5. PICK n1, n2 \in Nat : Reading(t, n1, n2) /\ j.i < 3
  BY <1>1, <1>3 DEF RumpInv, ReadOk
<1>6. j.i \in {1, 2}
  BY <1>3, <1>5 DEF Reading
<1>7. PICK n : n = Rump!Readable(j)
  OBVIOUS
<1>8. n \in Nat /\ (n > 0 => j.off + n <= Len(file))
  <2>1. Len(file) \in Nat /\ j.iov[j.i] \in Nat
    BY <1>2, <1>6 DEF RumpJobs
  <2> QED BY <1>4, <1>7, <2>1 DEF Rump!Readable, Rump!Least, Rump!Len_
<1>9. PICK buf : rump_job' = [rump_job EXCEPT ![t] = [Rump!Advance(j, n) EXCEPT !.buf = buf]]
  BY <1>3, <1>7 DEF Rump!ReadEntry
<1>10. PICK k : k = [Rump!Advance(j, n) EXCEPT !.buf = buf]
  OBVIOUS
<1>11. k.off = j.off + n /\ k.total = j.total + n /\ k.op = j.op
  BY <1>10 DEF Rump!Advance, RumpJobs
<1>12. Sized(k)
  <2>1. MaxSize \in Nat /\ Len(file) \in Nat /\ Len(file) <= MaxSize
    BY <1>2, RumpAssumption DEF SizeInv
  <2> QED BY <1>4, <1>8, <1>11, <2>1 DEF Sized
<1> QED BY <1>1, <1>2, <1>9, <1>10, <1>12, QuietSizes

\* pwrite stays inside the bytes of its vector.
LEMMA WriteSizes ==
  ASSUME RumpInv, SizeInv, NEW t \in Threads, Rump!WriteEntry(t)
  PROVE  SizeInv'
<1>1. rump_pc[t] = "io" /\ rump_job[t].op = "write"
  BY DEF Rump!WriteEntry
<1>2. RumpType /\ WriteOk(t)
  BY DEF RumpInv
<1>3. PICK j \in RumpJobs : j = rump_job[t]
  BY <1>2 DEF RumpType
<1>4. PICK end \in Nat : end = Len(file)
  BY <1>2 DEF RumpType
<1>5. /\ j.start \in Nat /\ j.off \in Nat /\ j.total \in Nat
      /\ j.i \in {1, 2} /\ j.off = j.start + j.total /\ j.off <= end
      /\ j.i = 1 => j.total = 0
      /\ j.i = 2 => j.total <= j.iov[1]
  BY <1>1, <1>2, <1>3, <1>4 DEF RumpJobs, WriteOk
<1>6. PICK a, b \in Nat : a = j.iov[1] /\ b = j.iov[2]
  BY DEF RumpJobs
<1>7. /\ MaxSize \in Nat /\ end <= MaxSize /\ j.total <= j.off
      /\ j.start + a + b <= MaxSize /\ room \in Nat /\ room <= MaxRoom /\ MaxRoom \in Nat
  BY <1>1, <1>2, <1>3, <1>4, <1>6, RumpAssumption DEF SizeInv, Sized, RumpType
<1>8. PICK len \in Nat : len = Rump!Len_(j)
  BY <1>5 DEF Rump!Len_, RumpJobs
<1>9. PICK n : n = Rump!Least(len, end - j.off + room)
  OBVIOUS
<1>10. PICK size : size = IF j.off + n > end THEN j.off + n ELSE end
  OBVIOUS
<1>11. PICK source : source = j.start + Rump!Base(j.iov, j.i)
  OBVIOUS
<1>12. n \in Nat /\ n <= len /\ len = (IF j.i = 1 THEN a ELSE b)
  BY <1>5, <1>6, <1>7, <1>8, <1>9 DEF Rump!Least, Rump!Len_
<1>13. source \in Nat /\ source = IF j.i = 1 THEN j.start ELSE j.start + a
  BY <1>5, <1>6, <1>11 DEF Rump!Base
<1>14. source + n <= MaxSize /\ j.off + n <= MaxSize
  <2>1. CASE j.i = 1
    BY <1>5, <1>7, <1>12, <1>13, <2>1
  <2>2. CASE j.i = 2
    <3>1. j.total <= a /\ n <= b /\ source = j.start + a
      BY <1>5, <1>6, <1>12, <1>13, <2>2
    <3> QED BY <1>5, <1>7, <1>12, <3>1
  <2> QED BY <1>5, <2>1, <2>2
<1>15. size \in Nat /\ size <= MaxSize /\ end <= size
  BY <1>5, <1>7, <1>10, <1>12, <1>14
<1>16. PICK bytes :
         bytes = [p \in 1 .. size |->
                    IF j.off < p /\ p <= j.off + n THEN source + p - j.off - 1 ELSE file[p]]
  OBVIOUS
<1>17. PICK k : k = Rump!Advance(j, n)
  OBVIOUS
<1>18. /\ file' = bytes /\ room' = room - (size - end)
       /\ rump_job' = [rump_job EXCEPT ![t] = k]
  BY <1>3, <1>4, <1>8, <1>9, <1>10, <1>11, <1>16, <1>17 DEF Rump!WriteEntry
<1>19. bytes \in Seq(0 .. MaxSize) /\ Len(bytes) = size
  <2>1. \A p \in 1 .. size : bytes[p] \in 0 .. MaxSize
    <3> SUFFICES ASSUME NEW p \in 1 .. size PROVE bytes[p] \in 0 .. MaxSize
      OBVIOUS
    <3>1. CASE j.off < p /\ p <= j.off + n
      <4>1. p \in Nat /\ p - j.off - 1 \in Nat /\ p - j.off - 1 < n
        BY <1>5, <1>12, <1>15, <3>1
      <4>2. bytes[p] = source + (p - j.off - 1)
        BY <1>5, <1>13, <1>16, <3>1, <4>1
      <4> QED BY <1>7, <1>12, <1>13, <1>14, <4>1, <4>2
    <3>2. CASE ~(j.off < p /\ p <= j.off + n)
      <4>1. p \in 1 .. Len(file)
        BY <1>4, <1>5, <1>10, <1>12, <1>15, <3>2
      <4>2. file[p] \in 0 .. MaxSize
        <5>1. PICK S : S = 0 .. MaxSize
          OBVIOUS
        <5>2. file \in Seq(S)
          BY <5>1 DEF SizeInv
        <5>3. file[p] \in S
          BY <4>1, <5>2
        <5> QED BY <5>1, <5>3
      <4> QED BY <1>16, <3>2, <4>2
    <3> QED BY <3>1, <3>2
  <2> QED BY <1>15, <1>16, <2>1
<1>20. k.off = j.off + n /\ k.total = j.total + n /\ k.op = j.op /\ k.start = j.start
       /\ k.iov = j.iov
  BY <1>17 DEF Rump!Advance, RumpJobs
<1>21. Sized(k)
  BY <1>5, <1>6, <1>7, <1>12, <1>14, <1>20 DEF Sized
<1>22. \A s \in Threads : rump_job'[s] = IF s = t THEN k ELSE rump_job[s]
  BY <1>2, <1>18 DEF RumpType
<1>23. room' <= MaxRoom
  BY <1>4, <1>7, <1>15, <1>18
<1> QED BY <1>15, <1>18, <1>19, <1>21, <1>22, <1>23 DEF SizeInv

\* Every step of any of the servers stays inside the bounds.
LEMMA SizeNext == RumpInv /\ SizeInv /\ [Next]_<<vars, rump, server>> => SizeInv'
<1> SUFFICES ASSUME RumpInv, SizeInv, [Next]_<<vars, rump, server>> PROVE SizeInv'
  OBVIOUS
<1>1. RumpType
  BY DEF RumpInv
<1>2. CASE UNCHANGED <<file, room, rump_job>>
  BY <1>2 DEF SizeInv
<1>3. ASSUME NEW t \in Threads, Rump!Held(t) PROVE SizeInv'
  <2>1. PICK n : rump_job' = [rump_job EXCEPT ![t].held = n] /\ UNCHANGED <<file, room>>
    BY <1>3 DEF Rump!Held
  <2>2. Sized(rump_job[t]) /\ rump_job[t] \in RumpJobs
    BY <1>1 DEF SizeInv, RumpType
  <2>3. PICK j : j = [rump_job[t] EXCEPT !.held = n]
    OBVIOUS
  <2>4. Sized(j)
    BY <2>2, <2>3 DEF Sized, RumpJobs
  <2> QED BY <1>1, <2>1, <2>3, <2>4, QuietSizes
<1>4. ASSUME NEW t \in Threads, Rump!Finish(t) PROVE SizeInv'
  <2>1. rump_job' = [rump_job EXCEPT ![t] = Rump!NoJob] /\ UNCHANGED <<file, room>>
    BY <1>4 DEF Rump!Finish
  <2> QED BY <1>1, <2>1, SizeOfNoJob, QuietSizes
<1>5. CASE Rump!FreeRoom
  <2>1. room < MaxRoom /\ room' = room + 1 /\ UNCHANGED <<file, rump_job>>
    BY <1>5 DEF Rump!FreeRoom
  <2>2. room' <= MaxRoom
    BY <1>1, <2>1, RumpAssumption DEF RumpType
  <2> QED BY <2>1, <2>2 DEF SizeInv
<1>6. CASE Rump!Next
  <2>1. ASSUME NEW t \in Threads,
               Rump!Enter(t) \/ Rump!Exit(t) \/ Rump!HeldUnlock(t) \/ Rump!EntryFails(t)
        PROVE  UNCHANGED <<file, room, rump_job>>
    BY <2>1 DEF Rump!Enter, Rump!Exit, Rump!HeldUnlock, Rump!EntryFails
  <2> QED BY <1>1, <1>2, <1>3, <1>4, <1>5, <1>6, <2>1, BeginSizes, ReadSizes, WriteSizes
      DEF Rump!Next
<1>7. CASE UNCHANGED rump
  BY <1>2, <1>7 DEF rump
<1> QED BY <1>6, <1>7 DEF Next

\* The state of the hypercalls has its shape throughout.
LEMMA RumpTypes == Spec => []Rump!TypeOK
<1>1. RumpInv /\ SizeInv => Rump!TypeOK
  <2> SUFFICES ASSUME RumpInv, SizeInv PROVE Rump!TypeOK
    OBVIOUS
  <2>1. RumpType /\ MaxSize \in Nat /\ MaxRoom \in Nat
    BY RumpAssumption DEF RumpInv
  <2>2. ASSUME NEW t \in Threads
        PROVE  /\ rump_job[t].total \in 0 .. MaxSize /\ rump_job[t].off \in 0 .. MaxSize
               /\ rump_job[t].held \in {0, 1}
    <3>1. PICK j \in RumpJobs : j = rump_job[t]
      BY <2>1 DEF RumpType
    <3>2. j.off \in Nat /\ j.total \in Nat /\ j.held \in {0, 1}
      BY DEF RumpJobs
    <3>3. j.off <= MaxSize /\ j.total <= j.off
      BY <3>1 DEF SizeInv, Sized
    <3> QED BY <2>1, <3>1, <3>2, <3>3
  <2>3. room \in 0 .. MaxRoom
    BY <2>1 DEF RumpType, SizeInv
  <2>4. /\ writer \in Threads \cup {NoThread} /\ readers \subseteq Threads
        /\ rump_pc \in [Threads -> {"idle", "enter", "io", "exit", "try", "unlock", "done"}]
    BY <2>1 DEF RumpType, RumpLabels
  <2> QED BY <2>2, <2>3, <2>4 DEF SizeInv, Rump!TypeOK
<1>2. ServerInit => SizeInv
  BY SizeInit
<1> QED BY <1>1, <1>2, SizeNext, HypercallsInvariant, PTL DEF Spec

-----------------------------------------------------------------------------
(***************************************************************************)
(* The tables, the locks, the descriptors and the calls of the three       *)
(* processes keep their shape: no handle leaves the table, no descriptor   *)
(* the host's range, no offset the file's bound.                           *)
(***************************************************************************)
THEOREM TypeCorrect == Spec => []AllTypesOK
BY RingTypes, RumpTypes, PTL DEF AllTypesOK
=============================================================================
