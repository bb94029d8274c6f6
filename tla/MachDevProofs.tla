--------------------------- MODULE MachDevProofs ---------------------------
(***************************************************************************)
(* What the device table of machdev guarantees for every size of it, every *)
(* number of threads and devices and every size of the descriptor table.   *)
(***************************************************************************)
EXTENDS MachDev, FiniteSetTheorems, FunctionTheorems, WellFoundedInduction, TLAPS

-----------------------------------------------------------------------------
(* The descriptor table of the host, for every size of it.                 *)

\* The smallest of a set of natural numbers is one of them.
LEMMA MinIsMember ==
  ASSUME NEW S \in SUBSET Nat, S # {}
  PROVE  Min(S) \in S
<1> DEFINE R == {ss \in Nat \X Nat : ss[1] < ss[2]}
<1>1. IsWellFoundedOn(R, Nat)
  BY NatLessThanWellFounded DEF OpToRel
<1> HIDE DEF R
<1>2. PICK x \in S : \A y \in S : ~(<<y, x>> \in R)
  BY <1>1, WFMin
<1>3. ASSUME NEW y \in S PROVE x <= y
  <2>1. x \in Nat /\ y \in Nat
    OBVIOUS
  <2>2. ~(y < x)
    BY <1>2, <2>1 DEF R
  <2> QED BY <2>1, <2>2
<1> QED BY <1>3 DEF Min

\* open() takes a free number and leaves every other alone.
LEMMA OpenKeeps ==
  ASSUME NEW tab \in FdTables, CanOpen(tab), NEW f \in Files
  PROVE  /\ AfterOpen(tab, f) \in FdTables
         /\ NewFd(tab) \in Fds /\ tab[NewFd(tab)] = NoFile
         /\ AfterOpen(tab, f)[NewFd(tab)] = f
         /\ \A n \in Fds : n # NewFd(tab) => AfterOpen(tab, f)[n] = tab[n]
         /\ \A n \in Fds : tab[n] \in Files => AfterOpen(tab, f)[n] = tab[n]
<1>1. Fds \ OpenFds(tab) \in SUBSET Nat /\ Fds \ OpenFds(tab) # {}
  BY NFdsAssumption DEF CanOpen, OpenFds, Fds
<1>2. NewFd(tab) \in Fds \ OpenFds(tab)
  BY <1>1, MinIsMember DEF NewFd
<1>3. tab[NewFd(tab)] = NoFile
  BY <1>2 DEF OpenFds
<1> QED BY <1>2, <1>3, NoFileAssumption DEF AfterOpen, FdTables

\* close() frees its number and leaves every other alone.
LEMMA CloseKeeps ==
  ASSUME NEW tab \in FdTables, NEW n
  PROVE  /\ AfterClose(tab, n) \in FdTables
         /\ n \in Fds => AfterClose(tab, n)[n] = NoFile
         /\ \A m \in Fds : m # n => AfterClose(tab, n)[m] = tab[m]
BY DEF AfterClose, FdTables

-----------------------------------------------------------------------------
(* Sequences, for any set of elements.                                     *)

\* Sequences, for any set of elements.
LEMMA Elements ==
  ASSUME NEW S, NEW q \in Seq(S)
  PROVE  Len(q) \in Nat /\ \A i \in 1 .. Len(q) : q[i] \in S
OBVIOUS

\* What Append leaves and adds.
LEMMA Appending ==
  ASSUME NEW S, NEW q \in Seq(S), NEW x \in S
  PROVE  /\ Append(q, x) \in Seq(S) /\ Len(Append(q, x)) = Len(q) + 1
         /\ Append(q, x)[Len(q) + 1] = x
         /\ \A i \in 1 .. Len(q) : Append(q, x)[i] = q[i]
OBVIOUS

\* What an update of one place leaves.
LEMMA Replacing ==
  ASSUME NEW S, NEW q \in Seq(S), NEW i \in 1 .. Len(q), NEW x \in S
  PROVE  /\ [q EXCEPT ![i] = x] \in Seq(S) /\ Len([q EXCEPT ![i] = x]) = Len(q)
         /\ [q EXCEPT ![i] = x][i] = x
         /\ \A k \in 1 .. Len(q) : k # i => [q EXCEPT ![i] = x][k] = q[k]
OBVIOUS

-----------------------------------------------------------------------------
(* The inductive invariant.                                                *)

DevType == [name : Names, file : Files, fd : Fds \cup {-1},
            shut : BOOLEAN, again : BOOLEAN]

JobType == [file : Files \cup {NoFile}, name : Names \cup {NoFile}, fd : Fds \cup {-1},
            dev : Nat, i : Nat, todo : SUBSET {"slot", "count"},
            got : Files \cup {NoFile}, handle : Handles]

MachType == TypeOK /\ job \in [Threads -> JobType]

IsDev(d) == d \in 1 .. Len(dev)
Busy(t) == pc[t] \in {"register", "storing"}

\* The number of slots that are filled, also while one more is being stored.
Base == IF lock = NoThread THEN count ELSE job[lock].i

LockIsHeld == \A t \in Threads : pc[t] = "storing" <=> lock = t

\* Between lock and unlock, device_count and the slot tell which of the two
\* stores are done.
StoresAreKnown ==
  \A t \in Threads : pc[t] = "storing" =>
    /\ job[t].i \in Slots
    /\ count = IF "count" \in job[t].todo THEN job[t].i ELSE job[t].i + 1
    /\ "slot" \notin job[t].todo => devices[job[t].i] = job[t].dev

BusyHaveDevices ==
  /\ \A t \in Threads : Busy(t) => IsDev(job[t].dev)
  /\ \A s, t \in Threads : Busy(s) /\ Busy(t) /\ job[s].dev = job[t].dev => s = t

BaseIsFilled ==
  /\ \A i \in 0 .. Base - 1 : IsDev(devices[i])
  /\ \A i, k \in 0 .. Base - 1 : devices[i] = devices[k] => i = k
  /\ \A i \in 0 .. Base - 1, t \in Threads : Busy(t) => devices[i] # job[t].dev

TableHoldsDevices == \A i \in Slots : devices[i] = NULL \/ IsDev(devices[i])

NoneIsForgotten ==
  count # MaxDevices =>
    \A d \in 1 .. Len(dev) : \/ \E i \in 0 .. Base - 1 : devices[i] = d
                             \/ \E t \in Threads : Busy(t) /\ job[t].dev = d

OpenedAreListed == \A t \in Threads : opened[t] # NULL => IsDev(opened[t]) /\ Base > 0

TableInv == /\ LockIsHeld /\ StoresAreKnown /\ BusyHaveDevices /\ BaseIsFilled
            /\ TableHoldsDevices /\ NoneIsForgotten /\ OpenedAreListed

\* Number n is open on file f.
OpenOn(n, f) == n \in Fds /\ f \in Files /\ fds[n] = f

\* A device that is not closed owns its descriptor.
DevicesAreBacked ==
  /\ \A d \in 1 .. Len(dev) : ~dev[d].shut => OpenOn(dev[d].fd, dev[d].file)
  /\ \A d, e \in 1 .. Len(dev) :
       ~dev[d].shut /\ ~dev[e].shut /\ dev[d].fd = dev[e].fd => d = e

\* So does a call that has opened one and not made its device yet.
BuiltAreBacked ==
  /\ \A t \in Threads : pc[t] = "built_fd" => OpenOn(job[t].fd, job[t].file)
  /\ \A s, t \in Threads :
       pc[s] = "built_fd" /\ pc[t] = "built_fd" /\ job[s].fd = job[t].fd => s = t
  /\ \A d \in 1 .. Len(dev), t \in Threads :
       ~dev[d].shut /\ pc[t] = "built_fd" => dev[d].fd # job[t].fd

\* The second close of a device may take the number of another owner.
Backed == DevicesAreBacked /\ BuiltAreBacked

BuiltHaveNumbers ==
  \A t \in Threads : pc[t] = "built_fd" =>
    job[t].fd \in Fds /\ job[t].file \in Files /\ job[t].name \in Names

NoneIsUnowned ==
  \A n \in Fds : fds[n] # NoFile =>
    \/ \E d \in 1 .. Len(dev) : ~dev[d].shut /\ dev[d].fd = n
    \/ \E t \in Threads : pc[t] = "built_fd" /\ job[t].fd = n

\* The number that was tested is the device's until somebody closes it, and
\* only a device that was closed is marked.
ClosersKnow ==
  /\ \A t \in Threads : pc[t] = "closing" =>
       /\ IsDev(job[t].dev) /\ job[t].fd \in Fds
       /\ ~dev[job[t].dev].shut => job[t].fd = dev[job[t].dev].fd
  /\ \A t \in Threads : pc[t] = "marking" => IsDev(job[t].dev) /\ dev[job[t].dev].shut

DescInv == (~ClosedTwice => Backed) /\ BuiltHaveNumbers /\ NoneIsUnowned /\ ClosersKnow

\* What a device_read or device_write knows on its way.
ThreadOk(t) ==
  /\ pc[t] \in {"scan", "fault"} /\ job[t].handle = Port => opened[t] # NULL /\ job[t].i = 0
  /\ pc[t] = "fault" => job[t].handle # Port
  /\ pc[t] \in {"load_fd", "io", "done"} => IsDev(job[t].dev)
  /\ pc[t] = "io" /\ ~dev[job[t].dev].shut => job[t].fd = dev[job[t].dev].fd
  /\ pc[t] = "done" /\ ~dev[job[t].dev].shut /\ ~ClosedTwice =>
       job[t].got = dev[job[t].dev].file

ThreadInv == \A t \in Threads : ThreadOk(t)

MachInv == MachType /\ TableInv /\ DescInv /\ ThreadInv

-----------------------------------------------------------------------------
(* Types and frames.                                                       *)

\* A thread with nothing to do has a job of the type.
LEMMA NoJobType == NoJob \in JobType
BY DEF NoJob, JobType, NULL, Port, Handles

\* The parts of the type invariant, each on its own.
LEMMA Types ==
  ASSUME MachType
  PROVE  /\ fds \in FdTables /\ dev \in Seq(DevType) /\ Len(dev) \in Nat
         /\ Len(dev) <= MaxCreated
         /\ devices \in [Slots -> Devs \cup {NULL}]
         /\ count \in Nat /\ count <= MaxDevices
         /\ lock \in Threads \cup {NoThread}
         /\ pc \in [Threads -> Labels] /\ job \in [Threads -> JobType]
         /\ opened \in [Threads -> Devs \cup {NULL}]
         /\ \A d \in 1 .. Len(dev) : dev[d] \in DevType /\ d \in Devs /\ d \in Nat /\ d # NULL
         /\ \A i \in Slots : i \in Nat /\ i < MaxDevices
         /\ \A i \in Nat : i < MaxDevices => i \in Slots
<1>1. dev \in Seq(DevType)
  BY DEF MachType, TypeOK, DevType
<1>2. Len(dev) \in Nat /\ \A d \in 1 .. Len(dev) : dev[d] \in DevType
  BY <1>1, Elements
<1> QED BY <1>1, <1>2, DevAssumption DEF MachType, TypeOK, Slots, Devs, NULL

\* The slots that are filled are slots.
LEMMA BaseInRange ==
  ASSUME MachType, TableInv
  PROVE  /\ Base \in Nat /\ Base <= count /\ Base <= MaxDevices
         /\ \A i \in 0 .. Base - 1 : i \in Slots
<1>1. count \in Nat /\ count <= MaxDevices /\ MaxDevices \in Nat
  BY Types, DevAssumption
<1>2. Base \in Nat /\ Base <= count
  <2>1. CASE lock = NoThread
    BY <1>1, <2>1 DEF Base
  <2>2. CASE lock # NoThread
    <3>1. lock \in Threads /\ pc[lock] = "storing"
      BY <2>2, Types DEF TableInv, LockIsHeld
    <3>2. job[lock].i \in Slots /\ (count = job[lock].i \/ count = job[lock].i + 1)
      BY <3>1 DEF TableInv, StoresAreKnown
    <3>3. job[lock].i \in Nat
      BY <3>2, Types
    <3> QED BY <1>1, <2>2, <3>2, <3>3 DEF Base
  <2> QED BY <2>1, <2>2
<1> HIDE DEF Base
<1>3. \A i \in 0 .. Base - 1 : i \in Nat /\ i < MaxDevices
  BY <1>1, <1>2
<1> QED BY <1>1, <1>2, <1>3, Types

\* A step of one thread changes that thread only.
LEMMA OneThread ==
  ASSUME MachType, NEW t \in Threads, NEW l \in Labels, NEW j \in JobType,
         pc' = [pc EXCEPT ![t] = l], job' = [job EXCEPT ![t] = j]
  PROVE  /\ pc'[t] = l /\ job'[t] = j
         /\ \A s \in Threads \ {t} : pc'[s] = pc[s] /\ job'[s] = job[s]
         /\ pc' \in [Threads -> Labels] /\ job' \in [Threads -> JobType]
BY Types

\* The invariant holds at the start.
LEMMA MachInit == Init => MachInv
<1> SUFFICES ASSUME Init PROVE MachInv
  OBVIOUS
<1>1. dev = <<>> /\ Len(dev) = 0
  BY DEF Init
<1>2. MachType
  BY NoJobType, DevAssumption, <1>1
     DEF Init, MachType, TypeOK, FdTables, Labels
<1>3. count = 0 /\ lock = NoThread /\ Base = 0 /\ \A t \in Threads : pc[t] = "idle"
  BY DEF Init, Base
<1>4. TableInv
  BY <1>1, <1>3, DevAssumption
     DEF Init, TableInv, LockIsHeld, StoresAreKnown, BusyHaveDevices, BaseIsFilled,
         TableHoldsDevices, NoneIsForgotten, OpenedAreListed, Busy
<1>5. DescInv
  BY <1>1, <1>3, DevAssumption
     DEF Init, DescInv, Backed, DevicesAreBacked, BuiltAreBacked, BuiltHaveNumbers,
         NoneIsUnowned, ClosersKnow
<1>6. ThreadInv
  BY <1>3 DEF ThreadInv, ThreadOk
<1> QED BY <1>2, <1>4, <1>5, <1>6 DEF MachInv

\* The table is not concerned.
LEMMA TableFrame ==
  ASSUME MachType, TableInv, UNCHANGED <<devices, count, lock, opened>>,
         Len(dev') = Len(dev),
         \A s \in Threads : /\ Busy(s)' <=> Busy(s)
                            /\ pc'[s] = "storing" <=> pc[s] = "storing"
                            /\ Busy(s) => job'[s] = job[s]
  PROVE  TableInv'
<1>1. Base' = Base
  <2>1. lock # NoThread => job'[lock] = job[lock]
    BY Types DEF TableInv, LockIsHeld, Busy
  <2> QED BY <2>1 DEF Base
<1>2. LockIsHeld' /\ StoresAreKnown' /\ BusyHaveDevices'
  BY DEF TableInv, LockIsHeld, StoresAreKnown, BusyHaveDevices, Busy, IsDev
<1>3. BaseIsFilled' /\ TableHoldsDevices'
  BY <1>1 DEF TableInv, BaseIsFilled, TableHoldsDevices, IsDev
<1>4. NoneIsForgotten' /\ OpenedAreListed'
  BY <1>1 DEF TableInv, NoneIsForgotten, OpenedAreListed, IsDev
<1> QED BY <1>2, <1>3, <1>4 DEF TableInv

\* The descriptors are not concerned.
LEMMA DescFrame ==
  ASSUME DescInv, UNCHANGED <<fds, dev>>,
         \A s \in Threads :
           {pc[s], pc'[s]} \cap {"built_fd", "closing", "marking"} # {} =>
             pc'[s] = pc[s] /\ job'[s] = job[s]
  PROVE  DescInv'
<1>1. \A s \in Threads, l \in {"built_fd", "closing", "marking"} :
        /\ pc'[s] = l <=> pc[s] = l
        /\ pc[s] = l => job'[s] = job[s]
  OBVIOUS
<1>2. ~ClosedTwice' => Backed'
  <2>1. SUFFICES ASSUME ~ClosedTwice' PROVE Backed'
    OBVIOUS
  <2>2. Backed
    BY <2>1 DEF DescInv, ClosedTwice
  <2>3. DevicesAreBacked'
    BY <2>2 DEF Backed, DevicesAreBacked, OpenOn
  <2>4. BuiltAreBacked'
    BY <1>1, <2>2 DEF Backed, BuiltAreBacked, OpenOn
  <2> QED BY <2>3, <2>4 DEF Backed
<1>3. BuiltHaveNumbers'
  BY <1>1 DEF DescInv, BuiltHaveNumbers
<1>4. NoneIsUnowned'
  BY <1>1 DEF DescInv, NoneIsUnowned
<1>5. ClosersKnow'
  BY <1>1 DEF DescInv, ClosersKnow, IsDev
<1> QED BY <1>2, <1>3, <1>4, <1>5 DEF DescInv

\* Devices are only added and closed.
DevsGrow ==
  /\ Len(dev) <= Len(dev')
  /\ \A d \in 1 .. Len(dev) :
       /\ d \in 1 .. Len(dev') /\ dev'[d].file = dev[d].file
       /\ dev[d].shut => dev'[d].shut
       /\ dev[d].again => dev'[d].again
       /\ ~dev'[d].shut => dev'[d].fd = dev[d].fd

\* A thread that does nothing while devices are only added.
LEMMA ThreadFrame ==
  ASSUME NEW s \in Threads, ThreadOk(s), DevsGrow,
         pc'[s] = pc[s], job'[s] = job[s], opened'[s] = opened[s]
  PROVE  ThreadOk(s)'
<1>1. ClosedTwice => ClosedTwice'
  BY DEF ClosedTwice, DevsGrow
<1> QED BY <1>1 DEF ThreadOk, DevsGrow, IsDev

\* A step of a thread that is neither creating, registering nor closing.
LEMMA MoveKeeps ==
  ASSUME MachInv, NEW t \in Threads,
         NEW l \in Labels \ {"built_fd", "register", "storing", "closing", "marking"},
         NEW j \in JobType,
         pc[t] \notin {"built_fd", "register", "storing", "closing", "marking"},
         pc' = [pc EXCEPT ![t] = l], job' = [job EXCEPT ![t] = j],
         UNCHANGED <<fds, dev, devices, count, lock, opened>>,
         ThreadOk(t)'
  PROVE  MachInv'
<1>1. MachType /\ TableInv /\ DescInv /\ ThreadInv
  BY DEF MachInv
<1>2. /\ pc'[t] = l /\ job'[t] = j
      /\ \A s \in Threads \ {t} : pc'[s] = pc[s] /\ job'[s] = job[s]
      /\ pc' \in [Threads -> Labels] /\ job' \in [Threads -> JobType]
  BY <1>1, OneThread
<1>3. MachType'
  BY <1>1, <1>2 DEF MachType, TypeOK
<1>4. \A s \in Threads : /\ Busy(s)' <=> Busy(s)
                         /\ pc'[s] = "storing" <=> pc[s] = "storing"
                         /\ Busy(s) => job'[s] = job[s]
  BY <1>2 DEF Busy
<1>5. TableInv'
  BY <1>1, <1>4, TableFrame
<1>6. DescInv'
  BY <1>1, <1>2, DescFrame
<1>7. DevsGrow
  BY <1>1, Types DEF DevsGrow
<1>8. ThreadInv'
  BY <1>1, <1>2, <1>7, ThreadFrame DEF ThreadInv
<1> QED BY <1>3, <1>5, <1>6, <1>8 DEF MachInv

-----------------------------------------------------------------------------
(* device_read and device_write.                                           *)

\* A call returns.
LEMMA ReturnKeeps ==
  ASSUME MachInv, NEW t \in Threads,
         pc[t] \notin {"built_fd", "register", "storing", "closing", "marking"},
         Return(t),
         UNCHANGED <<fds, dev, devices, count, lock, opened>>
  PROVE  MachInv'
<1>1. pc' = [pc EXCEPT ![t] = "idle"] /\ job' = [job EXCEPT ![t] = NoJob]
  BY DEF Return, Goto
<1>2. pc'[t] = "idle" /\ "idle" \in Labels
  BY <1>1, Types DEF MachInv, Labels
<1>3. ThreadOk(t)'
  BY <1>2 DEF ThreadOk
<1> QED BY <1>1, <1>2, <1>3, NoJobType, MoveKeeps

\* A request begins its scan.
LEMMA AccessKeeps ==
  ASSUME MachInv, NEW t \in Threads, Access(t)
  PROVE  MachInv'
<1>1. PICK h \in Handles : /\ h = Port => opened[t] # NULL
                           /\ job' = [job EXCEPT ![t] = [NoJob EXCEPT !.handle = h]]
  BY DEF Access
<1>2. /\ pc[t] = "idle" /\ pc' = [pc EXCEPT ![t] = "scan"]
      /\ UNCHANGED <<fds, dev, devices, count, lock, opened>>
  BY DEF Access, Goto
<1>3. PICK j : j = [NoJob EXCEPT !.handle = h]
  OBVIOUS
<1>4. j \in JobType /\ j.handle = h /\ j.i = 0
  BY <1>3, NoJobType DEF NoJob, JobType
<1>5. job' = [job EXCEPT ![t] = j] /\ "scan" \in Labels
  BY <1>1, <1>3 DEF Labels
<1>6. pc'[t] = "scan" /\ job'[t] = j
  BY <1>2, <1>4, <1>5, OneThread DEF MachInv
<1>7. ThreadOk(t)'
  BY <1>1, <1>2, <1>4, <1>6 DEF ThreadOk
<1> QED BY <1>2, <1>4, <1>5, <1>7, MoveKeeps

\* A slot below device_count is a slot, and one that is not NULL is a device.
LEMMA ScannedSlot ==
  ASSUME MachInv, NEW t \in Threads, job[t].i < count
  PROVE  job[t].i \in Slots /\ (devices[job[t].i] # NULL => IsDev(devices[job[t].i]))
<1>1. job[t].i \in Nat /\ count \in Nat /\ count <= MaxDevices /\ MaxDevices \in Nat
  BY Types, DevAssumption DEF MachInv, JobType
<1>2. job[t].i \in Slots
  BY <1>1, Types DEF MachInv
<1> QED BY <1>2 DEF MachInv, TableInv, TableHoldsDevices

\* The scan meets an empty slot.
LEMMA ScanFaultKeeps ==
  ASSUME MachInv, NEW t \in Threads, ScanFault(t)
  PROVE  MachInv'
<1>1. /\ pc[t] = "scan" /\ job[t].i < count /\ devices[job[t].i] = NULL
      /\ pc' = [pc EXCEPT ![t] = "fault"]
      /\ UNCHANGED <<fds, dev, devices, count, lock, job, opened>>
  BY DEF ScanFault, Goto
<1>2. job[t] \in JobType /\ job' = [job EXCEPT ![t] = job[t]] /\ "fault" \in Labels
  BY <1>1, Types DEF MachInv, Labels
<1>3. pc'[t] = "fault" /\ job'[t] = job[t]
  BY <1>1, <1>2, OneThread DEF MachInv
<1>4. job[t].handle # Port
  <2>1. SUFFICES ASSUME job[t].handle = Port PROVE FALSE
    OBVIOUS
  <2>2. opened[t] # NULL /\ job[t].i = 0
    BY <1>1, <2>1 DEF MachInv, ThreadInv, ThreadOk
  <2>3. Base > 0 /\ Base \in Nat
    BY <2>2, BaseInRange DEF MachInv, TableInv, OpenedAreListed
  <2>4. IsDev(devices[0])
    BY <2>3 DEF MachInv, TableInv, BaseIsFilled
  <2> QED BY <1>1, <2>2, <2>4, Types DEF MachInv, IsDev
<1>5. ThreadOk(t)'
  BY <1>3, <1>4 DEF ThreadOk
<1> QED BY <1>1, <1>2, <1>5, MoveKeeps

\* The scan goes on.
LEMMA ScanNextKeeps ==
  ASSUME MachInv, NEW t \in Threads, ScanNext(t)
  PROVE  MachInv'
<1>1. /\ pc[t] = "scan" /\ job[t].handle # Port
      /\ job' = [job EXCEPT ![t].i = @ + 1]
      /\ UNCHANGED <<fds, dev, devices, count, lock, pc, opened>>
  BY DEF ScanNext
<1>2. PICK j : j = [job[t] EXCEPT !.i = @ + 1]
  OBVIOUS
<1>3. job[t] \in JobType /\ pc' = [pc EXCEPT ![t] = "scan"] /\ "scan" \in Labels
  BY <1>1, Types DEF MachInv, Labels
<1>4. j \in JobType /\ j.handle = job[t].handle
  BY <1>2, <1>3 DEF JobType
<1>5. job' = [job EXCEPT ![t] = j]
  BY <1>1, <1>2
<1>6. pc'[t] = "scan" /\ job'[t] = j
  BY <1>3, <1>4, <1>5, OneThread DEF MachInv
<1>7. ThreadOk(t)'
  BY <1>1, <1>4, <1>6 DEF ThreadOk
<1> QED BY <1>1, <1>3, <1>4, <1>5, <1>7, MoveKeeps

\* The scan ends at a device.
LEMMA ScanFoundKeeps ==
  ASSUME MachInv, NEW t \in Threads, ScanFound(t)
  PROVE  MachInv'
<1>1. /\ pc[t] = "scan" /\ job[t].i < count /\ devices[job[t].i] # NULL
      /\ job' = [job EXCEPT ![t].dev = devices[job[t].i]]
      /\ pc' = [pc EXCEPT ![t] = "load_fd"]
      /\ UNCHANGED <<fds, dev, devices, count, lock, opened>>
  BY DEF ScanFound, Goto
<1>2. PICK j : j = [job[t] EXCEPT !.dev = devices[job[t].i]]
  OBVIOUS
<1>3. IsDev(devices[job[t].i])
  BY <1>1, ScannedSlot
<1>4. job[t] \in JobType /\ devices[job[t].i] \in Nat /\ "load_fd" \in Labels
  BY <1>3, Types DEF MachInv, IsDev, Labels
<1>5. j \in JobType /\ j.dev = devices[job[t].i]
  BY <1>2, <1>4 DEF JobType
<1>6. job' = [job EXCEPT ![t] = j]
  BY <1>1, <1>2
<1>7. pc'[t] = "load_fd" /\ job'[t] = j
  BY <1>1, <1>4, <1>5, <1>6, OneThread DEF MachInv
<1>8. ThreadOk(t)'
  BY <1>1, <1>3, <1>5, <1>7 DEF ThreadOk, IsDev
<1> QED BY <1>1, <1>4, <1>5, <1>6, <1>8, MoveKeeps

\* The descriptor of the device is loaded.
LEMMA LoadFdKeeps ==
  ASSUME MachInv, NEW t \in Threads, LoadFd(t)
  PROVE  MachInv'
<1>1. /\ pc[t] = "load_fd"
      /\ job' = [job EXCEPT ![t].fd = dev[job[t].dev].fd]
      /\ pc' = [pc EXCEPT ![t] = "io"]
      /\ UNCHANGED <<fds, dev, devices, count, lock, opened>>
  BY DEF LoadFd, Goto
<1>2. PICK j : j = [job[t] EXCEPT !.fd = dev[job[t].dev].fd]
  OBVIOUS
<1>3. IsDev(job[t].dev)
  BY <1>1 DEF MachInv, ThreadInv, ThreadOk
<1>4. job[t] \in JobType /\ dev[job[t].dev] \in DevType /\ "io" \in Labels
  BY <1>3, Types DEF MachInv, IsDev, Labels
<1>5. j \in JobType /\ j.dev = job[t].dev /\ j.fd = dev[job[t].dev].fd
  BY <1>2, <1>4 DEF JobType, DevType
<1>6. job' = [job EXCEPT ![t] = j]
  BY <1>1, <1>2
<1>7. pc'[t] = "io" /\ job'[t] = j
  BY <1>1, <1>4, <1>5, <1>6, OneThread DEF MachInv
<1>8. ThreadOk(t)'
  BY <1>1, <1>3, <1>5, <1>7 DEF ThreadOk, IsDev
<1> QED BY <1>1, <1>4, <1>5, <1>6, <1>8, MoveKeeps

\* The descriptor is used.
LEMMA IoKeeps ==
  ASSUME MachInv, NEW t \in Threads, Io(t)
  PROVE  MachInv'
<1>1. /\ pc[t] = "io"
      /\ job' = [job EXCEPT ![t].got = Reached(fds, job[t].fd)]
      /\ pc' = [pc EXCEPT ![t] = "done"]
      /\ UNCHANGED <<fds, dev, devices, count, lock, opened>>
  BY DEF Io, Goto
<1>2. PICK j : j = [job[t] EXCEPT !.got = Reached(fds, job[t].fd)]
  OBVIOUS
<1>3. /\ IsDev(job[t].dev)
      /\ ~dev[job[t].dev].shut => job[t].fd = dev[job[t].dev].fd
  BY <1>1 DEF MachInv, ThreadInv, ThreadOk
<1>4. job[t] \in JobType /\ fds \in FdTables /\ "done" \in Labels
  BY Types DEF MachInv, Labels
<1>5. Reached(fds, job[t].fd) \in Files \cup {NoFile}
  BY <1>4 DEF Reached, FdTables
<1>6. j \in JobType /\ j.dev = job[t].dev /\ j.got = Reached(fds, job[t].fd)
  BY <1>2, <1>4, <1>5 DEF JobType
<1>7. ~dev[job[t].dev].shut /\ ~ClosedTwice =>
        Reached(fds, job[t].fd) = dev[job[t].dev].file
  BY <1>3 DEF MachInv, DescInv, Backed, DevicesAreBacked, OpenOn, Reached, IsDev
<1>8. job' = [job EXCEPT ![t] = j]
  BY <1>1, <1>2
<1>9. pc'[t] = "done" /\ job'[t] = j
  BY <1>1, <1>4, <1>6, <1>8, OneThread DEF MachInv
<1>10. ThreadOk(t)'
  BY <1>1, <1>3, <1>6, <1>7, <1>9 DEF ThreadOk, IsDev, ClosedTwice
<1> QED BY <1>1, <1>4, <1>6, <1>8, <1>10, MoveKeeps

\* The steps of a read or a write, from the scan to the reply.
LEMMA ReadKeeps ==
  ASSUME MachInv, NEW t \in Threads,
         \/ Access(t) \/ ScanEnd(t) \/ ScanFault(t) \/ ScanNext(t) \/ ScanFound(t)
         \/ LoadFd(t) \/ Io(t) \/ Reply(t)
  PROVE  MachInv'
<1>1. CASE ScanEnd(t) \/ Reply(t)
  BY <1>1, ReturnKeeps DEF ScanEnd, Reply
<1> QED BY <1>1, AccessKeeps, ScanFaultKeeps, ScanNextKeeps, ScanFoundKeeps,
        LoadFdKeeps, IoKeeps

-----------------------------------------------------------------------------
(* machdev_create_file_device.                                             *)

\* A step that leaves the other threads to their reads.
LEMMA OthersRead ==
  ASSUME ThreadInv, NEW t \in Threads, DevsGrow, UNCHANGED opened,
         pc'[t] \notin {"scan", "fault", "load_fd", "io", "done"},
         \A s \in Threads \ {t} : pc'[s] = pc[s] /\ job'[s] = job[s]
  PROVE  ThreadInv'
<1>1. ThreadOk(t)'
  BY DEF ThreadOk
<1>2. \A s \in Threads \ {t} : ThreadOk(s)'
  BY ThreadFrame DEF ThreadInv
<1> QED BY <1>1, <1>2 DEF ThreadInv

\* machdev_create_file_device opens the file.
LEMMA CreateOpenKeeps ==
  ASSUME MachInv, NEW t \in Threads, CreateOpen(t)
  PROVE  MachInv'
<1>1. PICK f \in Files, name \in Names :
        /\ fds' = AfterOpen(fds, f)
        /\ job' = [job EXCEPT ![t] = [NoJob EXCEPT !.file = f, !.name = name,
                                                   !.fd = NewFd(fds)]]
  BY DEF CreateOpen
<1>2. /\ pc[t] = "idle" /\ CanOpen(fds) /\ pc' = [pc EXCEPT ![t] = "built_fd"]
      /\ UNCHANGED <<dev, devices, count, lock, opened>>
  BY DEF CreateOpen, Goto
<1>3. PICK n : n = NewFd(fds)
  OBVIOUS
<1>4. PICK j : j = [NoJob EXCEPT !.file = f, !.name = name, !.fd = n]
  OBVIOUS
<1>5. MachType /\ TableInv /\ DescInv /\ ThreadInv /\ fds \in FdTables
  BY Types DEF MachInv
<1>6. /\ fds' \in FdTables /\ n \in Fds /\ fds[n] = NoFile /\ fds'[n] = f
      /\ \A m \in Fds : m # n => fds'[m] = fds[m]
  BY <1>1, <1>2, <1>3, <1>5, OpenKeeps
<1>7. j \in JobType /\ j.file = f /\ j.name = name /\ j.fd = n
  BY <1>4, <1>6, NoJobType DEF NoJob, JobType
<1>8. job' = [job EXCEPT ![t] = j] /\ "built_fd" \in Labels
  BY <1>1, <1>3, <1>4 DEF Labels
<1>9. /\ pc'[t] = "built_fd" /\ job'[t] = j
      /\ \A s \in Threads \ {t} : pc'[s] = pc[s] /\ job'[s] = job[s]
      /\ pc' \in [Threads -> Labels] /\ job' \in [Threads -> JobType]
  BY <1>2, <1>5, <1>7, <1>8, OneThread
<1>10. MachType'
  BY <1>2, <1>5, <1>6, <1>9 DEF MachType, TypeOK
<1>11. TableInv'
  <2>1. \A s \in Threads : /\ Busy(s)' <=> Busy(s)
                           /\ pc'[s] = "storing" <=> pc[s] = "storing"
                           /\ Busy(s) => job'[s] = job[s]
    BY <1>2, <1>9 DEF Busy
  <2> QED BY <1>2, <1>5, <2>1, TableFrame
<1>12. \A m, g : OpenOn(m, g) => m # n /\ OpenOn(m, g)'
  BY <1>6, NoFileAssumption DEF OpenOn
<1>13. DescInv'
  <2>1. ~ClosedTwice' => Backed'
    <3> SUFFICES ASSUME ~ClosedTwice' PROVE Backed'
      OBVIOUS
    <3>1. DevicesAreBacked /\ BuiltAreBacked
      BY <1>2, <1>5 DEF ClosedTwice, DescInv, Backed
    <3>2. DevicesAreBacked'
      <4>1. \A d \in 1 .. Len(dev) : ~dev[d].shut => OpenOn(dev[d].fd, dev[d].file)'
        BY <1>2, <1>12, <3>1 DEF DevicesAreBacked, OpenOn
      <4> QED BY <1>2, <3>1, <4>1 DEF DevicesAreBacked
    <3>3. BuiltAreBacked'
      <4>1. ASSUME NEW s \in Threads, s # t, pc[s] = "built_fd"
            PROVE  OpenOn(job[s].fd, job[s].file)' /\ job'[s].fd # n
        BY <1>9, <1>12, <3>1, <4>1 DEF BuiltAreBacked, OpenOn
      <4>2. OpenOn(job[t].fd, job[t].file)' /\ job'[t].fd = n
        BY <1>6, <1>7, <1>9 DEF OpenOn
      <4>3. \A d \in 1 .. Len(dev) : ~dev[d].shut => dev[d].fd # n
        BY <1>12, <3>1 DEF DevicesAreBacked
      <4> QED BY <1>2, <1>9, <3>1, <4>1, <4>2, <4>3 DEF BuiltAreBacked
    <3> QED BY <3>2, <3>3 DEF Backed
  <2>2. BuiltHaveNumbers'
    BY <1>5, <1>6, <1>7, <1>9 DEF DescInv, BuiltHaveNumbers
  <2>3. NoneIsUnowned'
    <3>1. SUFFICES ASSUME NEW m \in Fds, fds'[m] # NoFile
                   PROVE  \/ \E d \in 1 .. Len(dev) : ~dev[d].shut /\ dev[d].fd = m
                          \/ \E s \in Threads : pc'[s] = "built_fd" /\ job'[s].fd = m
      BY <1>2 DEF NoneIsUnowned
    <3>2. CASE m = n
      BY <1>7, <1>9, <3>2
    <3>3. CASE m # n
      BY <1>2, <1>5, <1>6, <1>9, <3>1, <3>3 DEF DescInv, NoneIsUnowned
    <3> QED BY <3>2, <3>3
  <2>4. ClosersKnow'
    BY <1>2, <1>5, <1>9 DEF DescInv, ClosersKnow, IsDev
  <2> QED BY <2>1, <2>2, <2>3, <2>4 DEF DescInv
<1>14. ThreadInv'
  <2>1. DevsGrow
    BY <1>2, <1>5, Types DEF DevsGrow
  <2> QED BY <1>2, <1>5, <1>9, <2>1, OthersRead
<1> QED BY <1>10, <1>11, <1>13, <1>14 DEF MachInv

\* machdev_create_file_device gives up and closes the file.
LEMMA CreateAbandonKeeps ==
  ASSUME MachInv, NEW t \in Threads, CreateAbandon(t)
  PROVE  MachInv'
<1>1. /\ pc[t] = "built_fd" /\ fds' = AfterClose(fds, job[t].fd)
      /\ pc' = [pc EXCEPT ![t] = "idle"] /\ job' = [job EXCEPT ![t] = NoJob]
      /\ UNCHANGED <<dev, devices, count, lock, opened>>
  BY DEF CreateAbandon, Return, Goto
<1>2. PICK n : n = job[t].fd
  OBVIOUS
<1>3. MachType /\ TableInv /\ DescInv /\ ThreadInv /\ fds \in FdTables /\ "idle" \in Labels
  BY Types DEF MachInv, Labels
<1>4. /\ fds' \in FdTables /\ n \in Fds /\ fds'[n] = NoFile
      /\ \A m \in Fds : m # n => fds'[m] = fds[m]
  BY <1>1, <1>2, <1>3, CloseKeeps DEF DescInv, BuiltHaveNumbers
<1>5. /\ pc'[t] = "idle"
      /\ \A s \in Threads \ {t} : pc'[s] = pc[s] /\ job'[s] = job[s]
      /\ pc' \in [Threads -> Labels] /\ job' \in [Threads -> JobType]
  BY <1>1, <1>3, NoJobType, OneThread
<1>6. MachType'
  BY <1>1, <1>3, <1>4, <1>5 DEF MachType, TypeOK
<1>7. TableInv'
  <2>1. \A s \in Threads : /\ Busy(s)' <=> Busy(s)
                           /\ pc'[s] = "storing" <=> pc[s] = "storing"
                           /\ Busy(s) => job'[s] = job[s]
    BY <1>1, <1>5 DEF Busy
  <2> QED BY <1>1, <1>3, <2>1, TableFrame
<1>8. \A m, g : OpenOn(m, g) /\ m # n => OpenOn(m, g)'
  BY <1>4 DEF OpenOn
<1>9. DescInv'
  <2>1. ~ClosedTwice' => Backed'
    <3> SUFFICES ASSUME ~ClosedTwice' PROVE Backed'
      OBVIOUS
    <3>1. DevicesAreBacked /\ BuiltAreBacked
      BY <1>1, <1>3 DEF ClosedTwice, DescInv, Backed
    <3>2. DevicesAreBacked'
      <4>1. \A d \in 1 .. Len(dev) : ~dev[d].shut => OpenOn(dev[d].fd, dev[d].file)'
        BY <1>1, <1>2, <1>8, <3>1 DEF DevicesAreBacked, BuiltAreBacked, OpenOn
      <4> QED BY <1>1, <3>1, <4>1 DEF DevicesAreBacked
    <3>3. BuiltAreBacked'
      <4>1. ASSUME NEW s \in Threads, s # t, pc[s] = "built_fd"
            PROVE  OpenOn(job[s].fd, job[s].file)'
        BY <1>1, <1>2, <1>5, <1>8, <3>1, <4>1 DEF BuiltAreBacked, OpenOn
      <4> QED BY <1>1, <1>5, <3>1, <4>1 DEF BuiltAreBacked
    <3> QED BY <3>2, <3>3 DEF Backed
  <2>2. BuiltHaveNumbers'
    BY <1>3, <1>5 DEF DescInv, BuiltHaveNumbers
  <2>3. NoneIsUnowned'
    <3>1. SUFFICES ASSUME NEW m \in Fds, fds'[m] # NoFile
                   PROVE  \/ \E d \in 1 .. Len(dev) : ~dev[d].shut /\ dev[d].fd = m
                          \/ \E s \in Threads : pc'[s] = "built_fd" /\ job'[s].fd = m
      BY <1>1 DEF NoneIsUnowned
    <3>2. m # n /\ fds[m] # NoFile
      BY <1>4, <3>1
    <3> QED BY <1>2, <1>3, <1>5, <3>2 DEF DescInv, NoneIsUnowned
  <2>4. ClosersKnow'
    BY <1>1, <1>3, <1>5 DEF DescInv, ClosersKnow, IsDev
  <2> QED BY <2>1, <2>2, <2>3, <2>4 DEF DescInv
<1>10. ThreadInv'
  <2>1. DevsGrow
    BY <1>1, <1>3, Types DEF DevsGrow
  <2> QED BY <1>1, <1>3, <1>5, <2>1, OthersRead
<1> QED BY <1>6, <1>7, <1>9, <1>10 DEF MachInv

\* machdev_create_file_device builds the device.
LEMMA CreateBuildKeeps ==
  ASSUME MachInv, NEW t \in Threads, CreateBuild(t)
  PROVE  MachInv'
<1>1. PICK new : new = [name |-> job[t].name, file |-> job[t].file,
                        fd |-> job[t].fd, shut |-> FALSE, again |-> FALSE]
  OBVIOUS
<1>2. /\ pc[t] = "built_fd" /\ Len(dev) < MaxCreated /\ dev' = Append(dev, new)
      /\ job' = [job EXCEPT ![t].dev = Len(dev) + 1]
      /\ pc' = [pc EXCEPT ![t] = "register"]
      /\ UNCHANGED <<fds, devices, count, lock, opened>>
  BY <1>1 DEF CreateBuild, Goto
<1>3. MachType /\ TableInv /\ DescInv /\ ThreadInv
  BY DEF MachInv
<1>4. /\ job[t].fd \in Fds /\ job[t].file \in Files /\ job[t].name \in Names
      /\ job[t] \in JobType /\ Len(dev) \in Nat /\ dev \in Seq(DevType)
      /\ "register" \in Labels
  BY <1>2, <1>3, Types DEF DescInv, BuiltHaveNumbers, Labels
<1>5. /\ new \in DevType /\ ~new.shut /\ ~new.again /\ new.fd = job[t].fd
      /\ new.file = job[t].file
  BY <1>1, <1>4 DEF DevType
<1>6. /\ dev' \in Seq(DevType) /\ Len(dev') = Len(dev) + 1 /\ dev'[Len(dev) + 1] = new
      /\ \A d \in 1 .. Len(dev) : dev'[d] = dev[d]
  BY <1>2, <1>4, <1>5, Appending
<1>7. PICK j : j = [job[t] EXCEPT !.dev = Len(dev) + 1]
  OBVIOUS
<1>8. j \in JobType /\ j.dev = Len(dev) + 1
  BY <1>4, <1>7 DEF JobType
<1>9. job' = [job EXCEPT ![t] = j]
  BY <1>2, <1>7
<1>10. /\ pc'[t] = "register" /\ job'[t] = j
       /\ \A s \in Threads \ {t} : pc'[s] = pc[s] /\ job'[s] = job[s]
       /\ pc' \in [Threads -> Labels] /\ job' \in [Threads -> JobType]
  BY <1>2, <1>3, <1>4, <1>8, <1>9, OneThread
<1>11. /\ \A d \in 1 .. Len(dev') : d \in 1 .. Len(dev) \/ d = Len(dev) + 1
       /\ \A d \in 1 .. Len(dev) : d \in 1 .. Len(dev') /\ d # Len(dev) + 1
       /\ Len(dev) + 1 \in 1 .. Len(dev')
  BY <1>4, <1>6
<1>12. MachType'
  BY <1>2, <1>3, <1>4, <1>6, <1>10, DevAssumption DEF MachType, TypeOK, DevType
<1>13. TableInv'
  <2>1. Base' = Base
    <3>1. lock # NoThread => lock # t /\ lock \in Threads
      BY <1>2, <1>3, Types DEF TableInv, LockIsHeld
    <3> QED BY <1>2, <1>10, <3>1 DEF Base
  <2>2. LockIsHeld' /\ StoresAreKnown'
    BY <1>2, <1>3, <1>10 DEF TableInv, LockIsHeld, StoresAreKnown
  <2>3. \A d : IsDev(d) => IsDev(d)' /\ d # Len(dev) + 1
    BY <1>11 DEF IsDev
  <2>4. BusyHaveDevices'
    <3>1. ASSUME NEW s \in Threads, s # t, Busy(s)'
          PROVE  Busy(s) /\ IsDev(job[s].dev) /\ job'[s] = job[s]
      BY <1>3, <1>10, <3>1 DEF TableInv, BusyHaveDevices, Busy
    <3> QED BY <1>3, <1>8, <1>10, <1>11, <2>3, <3>1
            DEF TableInv, BusyHaveDevices, Busy, IsDev
  <2>5. BaseIsFilled'
    <3>1. \A i \in 0 .. Base - 1 : IsDev(devices[i])
      BY <1>3 DEF TableInv, BaseIsFilled
    <3>2. \A i \in 0 .. Base - 1 : IsDev(devices[i])'
      BY <1>2, <1>11, <3>1 DEF IsDev
    <3>3. \A i \in 0 .. Base - 1, s \in Threads : Busy(s)' => devices[i] # job'[s].dev
      BY <1>3, <1>8, <1>10, <2>3, <3>1 DEF TableInv, BaseIsFilled, Busy
    <3> QED BY <1>2, <1>3, <2>1, <3>2, <3>3 DEF TableInv, BaseIsFilled
  <2>6. TableHoldsDevices'
    BY <1>2, <1>3, <1>11 DEF TableInv, TableHoldsDevices, IsDev
  <2>7. NoneIsForgotten'
    <3>1. \A s \in Threads : Busy(s) => Busy(s)' /\ job'[s] = job[s]
      BY <1>2, <1>10 DEF Busy
    <3>2. Busy(t)' /\ job'[t].dev = Len(dev) + 1
      BY <1>8, <1>10 DEF Busy
    <3> QED BY <1>2, <1>3, <1>11, <2>1, <3>1, <3>2 DEF TableInv, NoneIsForgotten
  <2>8. OpenedAreListed'
    BY <1>2, <1>3, <1>11, <2>1 DEF TableInv, OpenedAreListed, IsDev
  <2> QED BY <2>2, <2>4, <2>5, <2>6, <2>7, <2>8 DEF TableInv
<1>14. DescInv'
  <2>1. ~ClosedTwice' => Backed'
    <3> SUFFICES ASSUME ~ClosedTwice' PROVE Backed'
      OBVIOUS
    <3>1. DevicesAreBacked /\ BuiltAreBacked
      BY <1>3, <1>6, <1>11 DEF ClosedTwice, DescInv, Backed
    <3>2. DevicesAreBacked'
      <4>1. ASSUME NEW d \in 1 .. Len(dev'), ~dev'[d].shut
            PROVE  /\ OpenOn(dev[d].fd, dev[d].file)'
                   /\ \A e \in 1 .. Len(dev') :
                        ~dev'[e].shut /\ dev'[d].fd = dev'[e].fd => d = e
        BY <1>2, <1>5, <1>6, <1>11, <3>1, <4>1
           DEF DevicesAreBacked, BuiltAreBacked, OpenOn
      <4> QED BY <4>1 DEF DevicesAreBacked
    <3>3. BuiltAreBacked'
      <4>1. \A s \in Threads : pc'[s] = "built_fd" =>
              pc[s] = "built_fd" /\ s # t /\ job'[s] = job[s]
        BY <1>10
      <4>2. \A s \in Threads : pc'[s] = "built_fd" => OpenOn(job[s].fd, job[s].file)'
        BY <1>2, <3>1, <4>1 DEF BuiltAreBacked, OpenOn
      <4>3. ASSUME NEW d \in 1 .. Len(dev'), NEW s \in Threads,
                   ~dev'[d].shut, pc'[s] = "built_fd"
            PROVE  dev'[d].fd # job'[s].fd
        BY <1>2, <1>5, <1>6, <1>11, <3>1, <4>1, <4>3 DEF BuiltAreBacked
      <4> QED BY <3>1, <4>1, <4>2, <4>3 DEF BuiltAreBacked
    <3> QED BY <3>2, <3>3 DEF Backed
  <2>2. BuiltHaveNumbers'
    BY <1>3, <1>10 DEF DescInv, BuiltHaveNumbers
  <2>3. NoneIsUnowned'
    <3>1. ASSUME NEW m \in Fds, fds[m] # NoFile
          PROVE  \/ \E d \in 1 .. Len(dev') : ~dev'[d].shut /\ dev'[d].fd = m
                 \/ \E s \in Threads : pc'[s] = "built_fd" /\ job'[s].fd = m
      <4>1. CASE \E d \in 1 .. Len(dev) : ~dev[d].shut /\ dev[d].fd = m
        BY <1>6, <1>11, <4>1
      <4>2. CASE \E s \in Threads : pc[s] = "built_fd" /\ job[s].fd = m
        BY <1>5, <1>6, <1>10, <1>11, <4>2
      <4> QED BY <1>3, <3>1, <4>1, <4>2 DEF DescInv, NoneIsUnowned
    <3> QED BY <1>2, <3>1 DEF NoneIsUnowned
  <2>4. ClosersKnow'
    <3>1. \A s \in Threads, l \in {"closing", "marking"} :
            /\ pc'[s] = l <=> pc[s] = l
            /\ pc[s] = l => job'[s] = job[s]
      BY <1>2, <1>10
    <3> QED BY <1>3, <1>6, <1>11, <3>1 DEF DescInv, ClosersKnow, IsDev
  <2> QED BY <2>1, <2>2, <2>3, <2>4 DEF DescInv
<1>15. ThreadInv'
  <2>1. DevsGrow
    BY <1>4, <1>6, <1>11 DEF DevsGrow
  <2> QED BY <1>2, <1>3, <1>10, <2>1, OthersRead
<1> QED BY <1>12, <1>13, <1>14, <1>15 DEF MachInv

-----------------------------------------------------------------------------
(* machdev_register.                                                       *)

\* Registering concerns neither the descriptors nor the reads of the others.
LEMMA RegisterFrame ==
  ASSUME MachInv, NEW t \in Threads, NEW j \in JobType,
         NEW l \in {"idle", "register", "storing"}, Busy(t),
         pc' = [pc EXCEPT ![t] = l], job' = [job EXCEPT ![t] = j],
         UNCHANGED <<fds, dev, opened>>
  PROVE  /\ pc'[t] = l /\ job'[t] = j
         /\ \A s \in Threads \ {t} : pc'[s] = pc[s] /\ job'[s] = job[s]
         /\ pc' \in [Threads -> Labels] /\ job' \in [Threads -> JobType]
         /\ DescInv' /\ ThreadInv'
<1>1. MachType /\ DescInv /\ ThreadInv /\ l \in Labels
  BY DEF MachInv, Labels
<1>2. /\ pc'[t] = l /\ job'[t] = j
      /\ \A s \in Threads \ {t} : pc'[s] = pc[s] /\ job'[s] = job[s]
      /\ pc' \in [Threads -> Labels] /\ job' \in [Threads -> JobType]
  BY <1>1, OneThread
<1>3. DescInv'
  BY <1>1, <1>2, DescFrame DEF Busy
<1>4. DevsGrow
  BY <1>1, Types DEF DevsGrow
<1>5. ThreadInv'
  BY <1>1, <1>2, <1>4, OthersRead
<1> QED BY <1>2, <1>3, <1>5

\* A full table refuses the device.
LEMMA RegisterFullKeeps ==
  ASSUME MachInv, NEW t \in Threads, RegisterFull(t)
  PROVE  MachInv'
<1>1. /\ pc[t] = "register" /\ lock = NoThread /\ count >= MaxDevices /\ Busy(t)
      /\ pc' = [pc EXCEPT ![t] = "idle"] /\ job' = [job EXCEPT ![t] = NoJob]
      /\ UNCHANGED <<fds, dev, devices, count, lock, opened>>
  BY DEF RegisterFull, Return, Goto, Busy
<1>2. MachType /\ TableInv
  BY DEF MachInv
<1>3. /\ pc'[t] = "idle"
      /\ \A s \in Threads \ {t} : pc'[s] = pc[s] /\ job'[s] = job[s]
      /\ pc' \in [Threads -> Labels] /\ job' \in [Threads -> JobType]
      /\ DescInv' /\ ThreadInv'
  BY <1>1, NoJobType, RegisterFrame
<1>4. MachType'
  BY <1>1, <1>2, <1>3 DEF MachType, TypeOK
<1>5. count = MaxDevices
  BY <1>1, <1>2, Types, DevAssumption
<1>6. \A s \in Threads : Busy(s)' => Busy(s) /\ s # t /\ job'[s] = job[s]
  BY <1>3 DEF Busy
<1>7. Base' = Base
  BY <1>1 DEF Base
<1>8. LockIsHeld' /\ StoresAreKnown'
  BY <1>1, <1>2, <1>3, DevAssumption DEF TableInv, LockIsHeld, StoresAreKnown
<1>9. BusyHaveDevices' /\ BaseIsFilled'
  BY <1>1, <1>2, <1>6, <1>7 DEF TableInv, BusyHaveDevices, BaseIsFilled, IsDev
<1>10. TableHoldsDevices' /\ NoneIsForgotten' /\ OpenedAreListed'
  BY <1>1, <1>2, <1>5, <1>7
     DEF TableInv, TableHoldsDevices, NoneIsForgotten, OpenedAreListed, IsDev
<1> QED BY <1>3, <1>4, <1>8, <1>9, <1>10 DEF MachInv, TableInv

\* machdev_register takes the lock.
LEMMA RegisterLockKeeps ==
  ASSUME MachInv, NEW t \in Threads, RegisterLock(t)
  PROVE  MachInv'
<1>1. /\ pc[t] = "register" /\ lock = NoThread /\ count < MaxDevices /\ Busy(t)
      /\ lock' = t /\ pc' = [pc EXCEPT ![t] = "storing"]
      /\ job' = [job EXCEPT ![t].i = count, ![t].todo = {"slot", "count"}]
      /\ UNCHANGED <<fds, dev, devices, count, opened>>
  BY DEF RegisterLock, Goto, Busy
<1>2. PICK j : j = [job[t] EXCEPT !.i = count, !.todo = {"slot", "count"}]
  OBVIOUS
<1>3. MachType /\ TableInv /\ job[t] \in JobType /\ count \in Nat /\ count \in Slots
  BY <1>1, Types DEF MachInv
<1>4. /\ j \in JobType /\ j.i = count /\ j.todo = {"slot", "count"}
      /\ j.dev = job[t].dev
  BY <1>2, <1>3 DEF JobType
<1>5. job' = [job EXCEPT ![t] = j]
  BY <1>1, <1>2, <1>3, Types
<1>6. /\ pc'[t] = "storing" /\ job'[t] = j
      /\ \A s \in Threads \ {t} : pc'[s] = pc[s] /\ job'[s] = job[s]
      /\ pc' \in [Threads -> Labels] /\ job' \in [Threads -> JobType]
      /\ DescInv' /\ ThreadInv'
  BY <1>1, <1>4, <1>5, RegisterFrame
<1>7. MachType'
  BY <1>1, <1>3, <1>6 DEF MachType, TypeOK
<1>8. \A s \in Threads : (Busy(s)' <=> Busy(s)) /\ job'[s].dev = job[s].dev
  BY <1>1, <1>4, <1>6 DEF Busy
<1>9. Base' = Base
  BY <1>1, <1>4, <1>6, DevAssumption DEF Base
<1>10. LockIsHeld' /\ StoresAreKnown'
  BY <1>1, <1>3, <1>4, <1>6, DevAssumption DEF TableInv, LockIsHeld, StoresAreKnown
<1>11. BusyHaveDevices' /\ BaseIsFilled'
  <2>1. BusyHaveDevices'
    BY <1>1, <1>3, <1>8 DEF TableInv, BusyHaveDevices, IsDev
  <2>2. BaseIsFilled'
    <3>1. PICK b : b = Base
      OBVIOUS
    <3>2. /\ \A i \in 0 .. b - 1 : IsDev(devices[i])
          /\ \A i, k \in 0 .. b - 1 : devices[i] = devices[k] => i = k
          /\ \A i \in 0 .. b - 1, s \in Threads : Busy(s)' => devices[i] # job[s].dev
      BY <1>3, <1>8, <3>1 DEF TableInv, BaseIsFilled
    <3>3. Base' = b /\ devices' = devices /\ Len(dev') = Len(dev)
      BY <1>1, <1>9, <3>1
    <3>4. \A i \in 0 .. b - 1, s \in Threads : Busy(s)' => devices[i] # job'[s].dev
      BY <1>8, <3>2
    <3> QED BY <3>2, <3>3, <3>4 DEF BaseIsFilled, IsDev
  <2> QED BY <2>1, <2>2
<1>12. TableHoldsDevices' /\ NoneIsForgotten' /\ OpenedAreListed'
  BY <1>1, <1>3, <1>8, <1>9
     DEF TableInv, TableHoldsDevices, NoneIsForgotten, OpenedAreListed, IsDev
<1> QED BY <1>6, <1>7, <1>10, <1>11, <1>12 DEF MachInv, TableInv

\* The holder of the lock stores into the slot after the filled ones.
LEMMA StoringBase ==
  ASSUME MachInv, NEW t \in Threads, pc[t] = "storing"
  PROVE  /\ lock = t /\ t # NoThread /\ Busy(t) /\ Base = job[t].i
         /\ Base \in Slots /\ Base \in Nat /\ job[t] \in JobType /\ IsDev(job[t].dev)
         /\ \A s \in Threads : pc[s] = "storing" => s = t
         /\ count = IF "count" \in job[t].todo THEN Base ELSE Base + 1
         /\ "slot" \notin job[t].todo => devices[Base] = job[t].dev
<1>1. MachType /\ TableInv
  BY DEF MachInv
<1>2. lock = t /\ t # NoThread /\ Busy(t)
  BY <1>1, DevAssumption DEF TableInv, LockIsHeld, Busy
<1>3. Base = job[t].i
  BY <1>2 DEF Base
<1>4. Base \in Slots /\ Base \in Nat
  BY <1>1, <1>3, Types DEF TableInv, StoresAreKnown
<1>5. job[t] \in JobType /\ IsDev(job[t].dev)
  BY <1>1, <1>2, Types DEF TableInv, BusyHaveDevices
<1> QED BY <1>1, <1>2, <1>3, <1>4, <1>5 DEF TableInv, LockIsHeld, StoresAreKnown

\* machdev_register stores the slot.
LEMMA RegisterStoreSlotKeeps ==
  ASSUME MachInv, NEW t \in Threads, RegisterStoreSlot(t)
  PROVE  MachInv'
<1>1. /\ pc[t] = "storing" /\ "slot" \in job[t].todo
      /\ devices' = [devices EXCEPT ![job[t].i] = job[t].dev]
      /\ job' = [job EXCEPT ![t].todo = @ \ {"slot"}]
      /\ UNCHANGED <<fds, dev, count, lock, pc, opened>>
  BY DEF RegisterStoreSlot
<1>2. PICK j : j = [job[t] EXCEPT !.todo = @ \ {"slot"}]
  OBVIOUS
<1>3. MachType /\ TableInv /\ pc' = [pc EXCEPT ![t] = "storing"]
  BY <1>1, Types DEF MachInv
<1>4. PICK b : b = Base
  OBVIOUS
<1>5. /\ lock = t /\ t # NoThread /\ Busy(t) /\ b = job[t].i /\ b \in Slots /\ b \in Nat
      /\ job[t] \in JobType /\ IsDev(job[t].dev)
      /\ \A s \in Threads : pc[s] = "storing" => s = t
      /\ count = IF "count" \in job[t].todo THEN b ELSE b + 1
  BY <1>1, <1>4, StoringBase
<1>6. /\ j \in JobType /\ j.i = b /\ j.dev = job[t].dev
      /\ j.todo = job[t].todo \ {"slot"}
  BY <1>2, <1>5 DEF JobType
<1>7. job' = [job EXCEPT ![t] = j]
  BY <1>1, <1>2
<1>8. /\ pc'[t] = "storing" /\ job'[t] = j
      /\ \A s \in Threads \ {t} : pc'[s] = pc[s] /\ job'[s] = job[s]
      /\ pc' \in [Threads -> Labels] /\ job' \in [Threads -> JobType]
      /\ DescInv' /\ ThreadInv'
  BY <1>1, <1>3, <1>5, <1>6, <1>7, RegisterFrame
<1>9. job[t].dev \in Devs
  BY <1>3, <1>5, Types DEF IsDev
<1>10. /\ devices' \in [Slots -> Devs \cup {NULL}] /\ devices'[b] = job[t].dev
       /\ \A i \in Slots : i # b => devices'[i] = devices[i]
  BY <1>1, <1>3, <1>5, <1>9, Types
<1>11. MachType'
  BY <1>1, <1>3, <1>8, <1>10 DEF MachType, TypeOK
<1>12. \A s \in Threads : (Busy(s)' <=> Busy(s)) /\ job'[s].dev = job[s].dev
  BY <1>1, <1>6, <1>8 DEF Busy
<1>13. Base' = b
  BY <1>1, <1>5, <1>6, <1>8 DEF Base
<1>14. \A i \in 0 .. b - 1 : i \in Slots /\ i # b /\ devices'[i] = devices[i]
  BY <1>3, <1>4, <1>5, <1>10, BaseInRange
<1>15. LockIsHeld' /\ StoresAreKnown'
  <2>1. LockIsHeld'
    BY <1>1, <1>3 DEF TableInv, LockIsHeld
  <2>2. \A s \in Threads : pc'[s] = "storing" => s = t
    BY <1>1, <1>5
  <2>3. count' = IF "count" \in j.todo THEN b ELSE b + 1
    BY <1>1, <1>5, <1>6
  <2> QED BY <1>5, <1>6, <1>8, <1>10, <2>1, <2>2, <2>3 DEF StoresAreKnown
<1>16. BusyHaveDevices'
  BY <1>1, <1>3, <1>12 DEF TableInv, BusyHaveDevices, IsDev
<1>17. BaseIsFilled'
  BY <1>1, <1>3, <1>4, <1>12, <1>13, <1>14 DEF TableInv, BaseIsFilled, IsDev
<1>18. TableHoldsDevices'
  BY <1>1, <1>3, <1>5, <1>10 DEF TableInv, TableHoldsDevices, IsDev
<1>19. NoneIsForgotten'
  BY <1>1, <1>3, <1>4, <1>12, <1>13, <1>14 DEF TableInv, NoneIsForgotten
<1>20. OpenedAreListed'
  BY <1>1, <1>3, <1>4, <1>13 DEF TableInv, OpenedAreListed, IsDev
<1> QED BY <1>8, <1>11, <1>15, <1>16, <1>17, <1>18, <1>19, <1>20 DEF MachInv, TableInv

\* machdev_register stores the count.
LEMMA RegisterStoreCountKeeps ==
  ASSUME MachInv, NEW t \in Threads, RegisterStoreCount(t)
  PROVE  MachInv'
<1>1. /\ pc[t] = "storing" /\ "count" \in job[t].todo
      /\ count' = job[t].i + 1
      /\ job' = [job EXCEPT ![t].todo = @ \ {"count"}]
      /\ UNCHANGED <<fds, dev, devices, lock, pc, opened>>
  BY DEF RegisterStoreCount
<1>2. PICK j : j = [job[t] EXCEPT !.todo = @ \ {"count"}]
  OBVIOUS
<1>3. MachType /\ TableInv /\ pc' = [pc EXCEPT ![t] = "storing"]
  BY <1>1, Types DEF MachInv
<1>4. PICK b : b = Base
  OBVIOUS
<1>5. /\ lock = t /\ t # NoThread /\ Busy(t) /\ b = job[t].i /\ b \in Slots /\ b \in Nat
      /\ job[t] \in JobType /\ IsDev(job[t].dev)
      /\ \A s \in Threads : pc[s] = "storing" => s = t
      /\ count = b
      /\ "slot" \notin job[t].todo => devices[b] = job[t].dev
  BY <1>1, <1>4, StoringBase
<1>6. /\ j \in JobType /\ j.i = b /\ j.dev = job[t].dev
      /\ j.todo = job[t].todo \ {"count"}
  BY <1>2, <1>5 DEF JobType
<1>7. job' = [job EXCEPT ![t] = j]
  BY <1>1, <1>2
<1>8. /\ pc'[t] = "storing" /\ job'[t] = j
      /\ \A s \in Threads \ {t} : pc'[s] = pc[s] /\ job'[s] = job[s]
      /\ pc' \in [Threads -> Labels] /\ job' \in [Threads -> JobType]
      /\ DescInv' /\ ThreadInv'
  BY <1>1, <1>3, <1>5, <1>6, <1>7, RegisterFrame
<1>9. count' = b + 1 /\ count' \in 0 .. MaxDevices
  BY <1>1, <1>3, <1>5, Types, DevAssumption
<1>10. MachType'
  BY <1>1, <1>3, <1>8, <1>9 DEF MachType, TypeOK
<1>11. \A s \in Threads : (Busy(s)' <=> Busy(s)) /\ job'[s].dev = job[s].dev
  BY <1>1, <1>6, <1>8 DEF Busy
<1>12. Base' = b
  BY <1>1, <1>5, <1>6, <1>8 DEF Base
<1>13. LockIsHeld' /\ StoresAreKnown'
  <2>1. LockIsHeld'
    BY <1>1, <1>3 DEF TableInv, LockIsHeld
  <2>2. \A s \in Threads : pc'[s] = "storing" => s = t
    BY <1>1, <1>5
  <2> QED BY <1>1, <1>5, <1>6, <1>8, <1>9, <2>1, <2>2 DEF StoresAreKnown
<1>14. BusyHaveDevices' /\ BaseIsFilled'
  BY <1>1, <1>3, <1>4, <1>11, <1>12 DEF TableInv, BusyHaveDevices, BaseIsFilled, IsDev
<1>15. TableHoldsDevices'
  BY <1>1, <1>3 DEF TableInv, TableHoldsDevices, IsDev
<1>16. count # MaxDevices
  BY <1>3, <1>5, Types, DevAssumption
<1>17. NoneIsForgotten'
  BY <1>1, <1>3, <1>4, <1>11, <1>12, <1>16 DEF TableInv, NoneIsForgotten
<1>18. OpenedAreListed'
  BY <1>1, <1>3, <1>4, <1>12 DEF TableInv, OpenedAreListed, IsDev
<1> QED BY <1>8, <1>10, <1>13, <1>14, <1>15, <1>17, <1>18 DEF MachInv, TableInv

\* machdev_register unlocks.
LEMMA RegisterUnlockKeeps ==
  ASSUME MachInv, NEW t \in Threads, RegisterUnlock(t)
  PROVE  MachInv'
<1>1. /\ pc[t] = "storing" /\ job[t].todo = {} /\ lock' = NoThread
      /\ pc' = [pc EXCEPT ![t] = "idle"] /\ job' = [job EXCEPT ![t] = NoJob]
      /\ UNCHANGED <<fds, dev, devices, count, opened>>
  BY DEF RegisterUnlock, Return, Goto
<1>2. MachType /\ TableInv
  BY DEF MachInv
<1>3. PICK b : b = Base
  OBVIOUS
<1>4. /\ lock = t /\ t # NoThread /\ Busy(t) /\ b \in Slots /\ b \in Nat
      /\ IsDev(job[t].dev)
      /\ \A s \in Threads : pc[s] = "storing" => s = t
      /\ count = b + 1 /\ devices[b] = job[t].dev
  BY <1>1, <1>3, StoringBase
<1>5. /\ pc'[t] = "idle"
      /\ \A s \in Threads \ {t} : pc'[s] = pc[s] /\ job'[s] = job[s]
      /\ pc' \in [Threads -> Labels] /\ job' \in [Threads -> JobType]
      /\ DescInv' /\ ThreadInv'
  BY <1>1, <1>4, NoJobType, RegisterFrame
<1>6. MachType'
  BY <1>1, <1>2, <1>5 DEF MachType, TypeOK
<1>7. \A s \in Threads : Busy(s)' <=> Busy(s) /\ s # t
  BY <1>5 DEF Busy
<1>8. \A s \in Threads : Busy(s)' => job'[s] = job[s] /\ Busy(s) /\ s # t
  BY <1>5, <1>7
<1>9. Base' = b + 1
  BY <1>1, <1>4 DEF Base
<1>10. /\ \A i \in 0 .. b : i \in 0 .. b - 1 \/ i = b
       /\ \A i \in 0 .. b - 1 : i \in 0 .. b
       /\ b \in 0 .. b /\ (b + 1) - 1 = b
  BY <1>4
<1>11. LockIsHeld' /\ StoresAreKnown'
  <2>1. \A s \in Threads : pc'[s] # "storing"
    BY <1>4, <1>5
  <2> QED BY <1>1, <2>1, DevAssumption DEF LockIsHeld, StoresAreKnown
<1>12. BusyHaveDevices'
  BY <1>1, <1>2, <1>8 DEF TableInv, BusyHaveDevices, IsDev
<1>13. BaseIsFilled'
  <2>1. \A i \in 0 .. b : IsDev(devices[i])
    BY <1>2, <1>3, <1>4, <1>10 DEF TableInv, BaseIsFilled
  <2>2. \A i \in 0 .. b - 1 : devices[i] # job[t].dev
    BY <1>2, <1>3, <1>4 DEF TableInv, BaseIsFilled
  <2>3. \A i, k \in 0 .. b : devices[i] = devices[k] => i = k
    BY <1>2, <1>3, <1>4, <1>10, <2>2 DEF TableInv, BaseIsFilled
  <2>4. \A i \in 0 .. b, s \in Threads : Busy(s)' => devices[i] # job'[s].dev
    <3>1. SUFFICES ASSUME NEW i \in 0 .. b, NEW s \in Threads, Busy(s)'
                   PROVE  devices[i] # job[s].dev
      BY <1>8
    <3>2. Busy(s) /\ s # t
      BY <1>8, <3>1
    <3>3. CASE i = b
      BY <1>2, <1>4, <3>2, <3>3 DEF TableInv, BusyHaveDevices
    <3>4. CASE i \in 0 .. b - 1
      BY <1>2, <1>3, <3>2, <3>4 DEF TableInv, BaseIsFilled
    <3> QED BY <1>10, <3>3, <3>4
  <2> QED BY <1>1, <1>9, <1>10, <2>1, <2>3, <2>4 DEF BaseIsFilled, IsDev
<1>14. TableHoldsDevices'
  BY <1>1, <1>2 DEF TableInv, TableHoldsDevices, IsDev
<1>15. NoneIsForgotten'
  <2>1. SUFFICES ASSUME count # MaxDevices, NEW d \in 1 .. Len(dev)
                 PROVE  \/ \E i \in 0 .. b : devices[i] = d
                        \/ \E s \in Threads : Busy(s)' /\ job'[s].dev = d
    BY <1>1, <1>9, <1>10 DEF NoneIsForgotten
  <2>2. CASE \E i \in 0 .. b - 1 : devices[i] = d
    BY <1>10, <2>2
  <2>3. CASE \E s \in Threads : Busy(s) /\ job[s].dev = d
    BY <1>4, <1>5, <1>7, <1>10, <2>3
  <2> QED BY <1>2, <1>3, <2>1, <2>2, <2>3 DEF TableInv, NoneIsForgotten
<1>16. OpenedAreListed'
  BY <1>1, <1>2, <1>4, <1>9 DEF TableInv, OpenedAreListed, IsDev
<1> QED BY <1>5, <1>6, <1>11, <1>12, <1>13, <1>14, <1>15, <1>16 DEF MachInv, TableInv

-----------------------------------------------------------------------------
(* device_open and file_dev_close.                                         *)

\* machdev_lookup returns a device of the table, or NULL.
LEMMA LookupFinds ==
  ASSUME MachInv, lock = NoThread, NEW n \in Names, Lookup(n) # NULL
  PROVE  IsDev(Lookup(n)) /\ Base > 0
<1>1. Base = count /\ count \in Nat
  BY Types DEF MachInv, Base
<1>2. Named(n) # {} /\ Lookup(n) = devices[Min(Named(n))]
  BY DEF Lookup
<1>3. Named(n) \in SUBSET Nat /\ \A i \in Named(n) : i \in 0 .. count - 1
  BY <1>1 DEF Named
<1>4. Min(Named(n)) \in Named(n)
  BY <1>2, <1>3, MinIsMember
<1>5. Min(Named(n)) \in 0 .. count - 1
  BY <1>3, <1>4
<1>6. IsDev(devices[Min(Named(n))])
  BY <1>1, <1>5 DEF MachInv, TableInv, BaseIsFilled
<1>7. count > 0
  BY <1>1, <1>5
<1> QED BY <1>1, <1>2, <1>6, <1>7

\* A device is opened.
LEMMA DeviceOpenKeeps ==
  ASSUME MachInv, NEW t \in Threads, DeviceOpen(t)
  PROVE  MachInv'
<1>1. PICK n \in Names : /\ Lookup(n) # NULL
                         /\ opened' = [opened EXCEPT ![t] = Lookup(n)]
  BY DEF DeviceOpen
<1>2. PICK d : d = Lookup(n)
  OBVIOUS
<1>3. /\ pc[t] = "idle" /\ lock = NoThread
      /\ UNCHANGED <<fds, dev, devices, count, lock, pc, job>>
  BY DEF DeviceOpen
<1>4. MachType /\ TableInv /\ DescInv /\ ThreadInv
  BY DEF MachInv
<1>5. IsDev(d) /\ Base > 0
  BY <1>1, <1>2, <1>3, LookupFinds
<1>6. d \in Devs
  BY <1>4, <1>5, Types DEF IsDev
<1>7. /\ opened' \in [Threads -> Devs \cup {NULL}] /\ opened'[t] = d
      /\ \A s \in Threads : s # t => opened'[s] = opened[s]
  BY <1>1, <1>2, <1>4, <1>6, Types
<1>8. MachType'
  BY <1>3, <1>4, <1>7 DEF MachType, TypeOK
<1>9. Base' = Base
  BY <1>3 DEF Base
<1>10. LockIsHeld' /\ StoresAreKnown' /\ BusyHaveDevices'
  BY <1>3, <1>4
     DEF TableInv, LockIsHeld, StoresAreKnown, BusyHaveDevices, Busy, IsDev
<1>11. BaseIsFilled' /\ TableHoldsDevices' /\ NoneIsForgotten'
  BY <1>3, <1>4, <1>9
     DEF TableInv, BaseIsFilled, TableHoldsDevices, NoneIsForgotten, Busy, IsDev
<1>12. OpenedAreListed'
  BY <1>3, <1>4, <1>5, <1>7, <1>9 DEF TableInv, OpenedAreListed, IsDev
<1>13. DescInv'
  BY <1>3, <1>4, DescFrame
<1>14. ThreadInv'
  <2>1. ThreadOk(t)'
    BY <1>3 DEF ThreadOk
  <2>2. DevsGrow
    BY <1>3, <1>4, Types DEF DevsGrow
  <2>3. \A s \in Threads \ {t} : ThreadOk(s)'
    BY <1>3, <1>4, <1>7, <2>2, ThreadFrame DEF ThreadInv
  <2> QED BY <2>1, <2>3 DEF ThreadInv
<1> QED BY <1>8, <1>10, <1>11, <1>12, <1>13, <1>14 DEF MachInv, TableInv

\* No step of a close concerns the table.
LEMMA ClosingFrame ==
  ASSUME MachType, TableInv, NEW t \in Threads,
         {pc[t], pc'[t]} \subseteq {"idle", "closing", "marking"}, Len(dev') = Len(dev),
         \A s \in Threads \ {t} : pc'[s] = pc[s] /\ job'[s] = job[s],
         UNCHANGED <<devices, count, lock, opened>>
  PROVE  TableInv'
<1>1. \A s \in Threads : /\ Busy(s)' <=> Busy(s)
                         /\ pc'[s] = "storing" <=> pc[s] = "storing"
                         /\ Busy(s) => job'[s] = job[s]
  BY DEF Busy
<1> QED BY <1>1, TableFrame

\* file_dev_close finds the descriptor open.
LEMMA CloseTestKeeps ==
  ASSUME MachInv, NEW t \in Threads, CloseTest(t)
  PROVE  MachInv'
<1>1. PICK d : d = opened[t]
  OBVIOUS
<1>2. PICK n : n = dev[d].fd
  OBVIOUS
<1>3. PICK j : j = [NoJob EXCEPT !.dev = d, !.fd = n]
  OBVIOUS
<1>4. /\ pc[t] = "idle" /\ d # NULL /\ n >= 0
      /\ job' = [job EXCEPT ![t] = j] /\ pc' = [pc EXCEPT ![t] = "closing"]
      /\ UNCHANGED <<fds, dev, devices, count, lock, opened>>
  BY <1>1, <1>2, <1>3 DEF CloseTest, Goto
<1>5. MachType /\ TableInv /\ DescInv /\ ThreadInv /\ "closing" \in Labels
  BY DEF MachInv, Labels
<1>6. IsDev(d) /\ d \in Nat /\ dev[d] \in DevType
  BY <1>1, <1>4, <1>5, Types DEF TableInv, OpenedAreListed, IsDev
<1>7. n \in Fds
  BY <1>2, <1>4, <1>6 DEF DevType
<1>8. j \in JobType /\ j.dev = d /\ j.fd = n
  BY <1>3, <1>6, <1>7, NoJobType DEF NoJob, JobType
<1>9. /\ pc'[t] = "closing" /\ job'[t] = j
      /\ \A s \in Threads \ {t} : pc'[s] = pc[s] /\ job'[s] = job[s]
      /\ pc' \in [Threads -> Labels] /\ job' \in [Threads -> JobType]
  BY <1>4, <1>5, <1>8, OneThread
<1>10. MachType'
  BY <1>4, <1>5, <1>9 DEF MachType, TypeOK
<1>11. TableInv'
  BY <1>4, <1>5, <1>9, ClosingFrame
<1>12. \A s \in Threads : /\ pc'[s] = "built_fd" <=> pc[s] = "built_fd"
                          /\ pc[s] = "built_fd" => job'[s] = job[s]
  BY <1>4, <1>9
<1>13. DescInv'
  <2>1. ~ClosedTwice' => Backed'
    <3> SUFFICES ASSUME ~ClosedTwice' PROVE Backed'
      OBVIOUS
    <3>1. DevicesAreBacked /\ BuiltAreBacked
      BY <1>4, <1>5 DEF ClosedTwice, DescInv, Backed
    <3>2. DevicesAreBacked'
      BY <1>4, <3>1 DEF DevicesAreBacked, OpenOn
    <3>3. BuiltAreBacked'
      BY <1>4, <1>12, <3>1 DEF BuiltAreBacked, OpenOn
    <3> QED BY <3>2, <3>3 DEF Backed
  <2>2. BuiltHaveNumbers' /\ NoneIsUnowned'
    BY <1>4, <1>5, <1>12 DEF DescInv, BuiltHaveNumbers, NoneIsUnowned
  <2>3. ClosersKnow'
    <3>1. \A s \in Threads : pc'[s] = "closing" =>
            /\ IsDev(job'[s].dev) /\ job'[s].fd \in Fds
            /\ ~dev[job'[s].dev].shut => job'[s].fd = dev[job'[s].dev].fd
      BY <1>2, <1>5, <1>6, <1>7, <1>8, <1>9 DEF DescInv, ClosersKnow
    <3>2. \A s \in Threads : pc'[s] = "marking" => IsDev(job'[s].dev) /\ dev[job'[s].dev].shut
      BY <1>5, <1>9 DEF DescInv, ClosersKnow
    <3> QED BY <1>4, <3>1, <3>2 DEF ClosersKnow, IsDev
  <2> QED BY <2>1, <2>2, <2>3 DEF DescInv
<1>14. ThreadInv'
  <2>1. DevsGrow
    BY <1>4, <1>5, Types DEF DevsGrow
  <2> QED BY <1>4, <1>5, <1>9, <2>1, OthersRead
<1> QED BY <1>10, <1>11, <1>13, <1>14 DEF MachInv

\* file_dev_close closes a number, and until a device is closed twice it is
\* the number of the device.
LEMMA CloseFdKeeps ==
  ASSUME MachInv, NEW t \in Threads, CloseFd(t)
  PROVE  MachInv'
<1>1. PICK d : d = job[t].dev
  OBVIOUS
<1>2. PICK n \in {job[t].fd, dev[d].fd} :
        /\ fds' = AfterClose(fds, n)
        /\ dev' = [dev EXCEPT ![d].shut = TRUE,
                              ![d].again = @ \/ (dev[d].shut /\ n >= 0)]
  BY <1>1 DEF CloseFd
<1>3. /\ pc[t] = "closing" /\ pc' = [pc EXCEPT ![t] = "marking"]
      /\ UNCHANGED <<devices, count, lock, job, opened>>
  BY DEF CloseFd, Goto
<1>4. /\ MachType /\ TableInv /\ DescInv /\ ThreadInv /\ "marking" \in Labels
      /\ job[t] \in JobType /\ job' = [job EXCEPT ![t] = job[t]]
  BY <1>3, Types DEF MachInv, Labels
<1>5. d \in 1 .. Len(dev) /\ dev[d] \in DevType /\ dev \in Seq(DevType)
  BY <1>1, <1>3, <1>4, Types DEF DescInv, ClosersKnow, IsDev
<1>6. job[t].fd \in Fds /\ (~dev[d].shut => job[t].fd = dev[d].fd)
  BY <1>1, <1>3, <1>4 DEF DescInv, ClosersKnow
<1>7. /\ n \in Fds \cup {-1} /\ (n = -1 \/ n >= 0)
      /\ ~dev[d].shut => n = dev[d].fd /\ n \in Fds
  BY <1>2, <1>5, <1>6 DEF DevType, Fds
<1>8. /\ fds' \in FdTables /\ (n \in Fds => fds'[n] = NoFile)
      /\ \A m \in Fds : m # n => fds'[m] = fds[m]
  BY <1>2, <1>4, Types, CloseKeeps
<1>9. PICK new : new = [dev[d] EXCEPT !.shut = TRUE,
                                      !.again = @ \/ (dev[d].shut /\ n >= 0)]
  OBVIOUS
<1>10. /\ new \in DevType /\ new.shut /\ new.fd = dev[d].fd /\ new.file = dev[d].file
       /\ new.again <=> dev[d].again \/ (dev[d].shut /\ n >= 0)
       /\ dev' = [dev EXCEPT ![d] = new]
  <2>1. (dev[d].again \/ (dev[d].shut /\ n >= 0)) \in BOOLEAN
    OBVIOUS
  <2>2. PICK b \in BOOLEAN : b <=> (dev[d].again \/ (dev[d].shut /\ n >= 0))
    BY <2>1
  <2>3. dev[d].again \in BOOLEAN
    BY <1>5 DEF DevType
  <2> QED BY <1>2, <1>5, <1>9, <2>1, <2>2, <2>3 DEF DevType
<1>11. /\ dev' \in Seq(DevType) /\ Len(dev') = Len(dev) /\ dev'[d] = new
       /\ \A e \in 1 .. Len(dev) : e # d => dev'[e] = dev[e]
  BY <1>5, <1>10, Replacing
<1>12. /\ pc'[t] = "marking" /\ job'[t] = job[t]
       /\ \A s \in Threads \ {t} : pc'[s] = pc[s] /\ job'[s] = job[s]
       /\ pc' \in [Threads -> Labels] /\ job' \in [Threads -> JobType]
  BY <1>3, <1>4, OneThread
<1>13. MachType'
  BY <1>3, <1>4, <1>8, <1>11, <1>12 DEF MachType, TypeOK, DevType
<1>14. TableInv'
  BY <1>3, <1>4, <1>11, <1>12, ClosingFrame
<1>15. \A s \in Threads : /\ pc'[s] = "built_fd" <=> pc[s] = "built_fd"
                          /\ job'[s] = job[s]
  BY <1>3, <1>12
<1>16. \A e \in 1 .. Len(dev) :
         /\ dev'[e].fd = dev[e].fd /\ dev'[e].file = dev[e].file
         /\ dev[e].shut => dev'[e].shut
         /\ dev[e].again => dev'[e].again
         /\ ~dev'[e].shut => e # d /\ ~dev[e].shut
         /\ e # d /\ ~dev[e].shut => ~dev'[e].shut
  BY <1>10, <1>11
<1>17. DescInv'
  <2>1. ~ClosedTwice' => Backed'
    <3> SUFFICES ASSUME ~ClosedTwice' PROVE Backed'
      OBVIOUS
    <3>1. DevicesAreBacked /\ BuiltAreBacked
      BY <1>4, <1>11, <1>16 DEF ClosedTwice, DescInv, Backed
    <3>2. ~dev[d].shut \/ n = -1
      BY <1>5, <1>7, <1>10, <1>11 DEF ClosedTwice
    <3>3. \A e \in 1 .. Len(dev) : ~dev'[e].shut =>
            OpenOn(dev[e].fd, dev[e].file) /\ dev[e].fd # n
      BY <1>5, <1>7, <1>16, <3>1, <3>2 DEF DevicesAreBacked, OpenOn, Fds
    <3>4. \A s \in Threads : pc[s] = "built_fd" =>
            OpenOn(job[s].fd, job[s].file) /\ job[s].fd # n
      BY <1>5, <1>7, <3>1, <3>2 DEF BuiltAreBacked, OpenOn, Fds
    <3>5. DevicesAreBacked'
      <4>1. \A e \in 1 .. Len(dev) : ~dev'[e].shut => OpenOn(dev[e].fd, dev[e].file)'
        BY <1>8, <1>16, <3>3 DEF OpenOn
      <4> QED BY <1>11, <1>16, <3>1, <4>1 DEF DevicesAreBacked
    <3>6. BuiltAreBacked'
      <4>1. \A s \in Threads : pc'[s] = "built_fd" => OpenOn(job[s].fd, job[s].file)'
        BY <1>8, <1>15, <3>4 DEF OpenOn
      <4> QED BY <1>11, <1>15, <1>16, <3>1, <4>1 DEF BuiltAreBacked
    <3> QED BY <3>5, <3>6 DEF Backed
  <2>2. BuiltHaveNumbers'
    BY <1>4, <1>15 DEF DescInv, BuiltHaveNumbers
  <2>3. NoneIsUnowned'
    <3>1. SUFFICES ASSUME NEW m \in Fds, fds'[m] # NoFile
                   PROVE  \/ \E e \in 1 .. Len(dev) : ~dev'[e].shut /\ dev'[e].fd = m
                          \/ \E s \in Threads : pc'[s] = "built_fd" /\ job'[s].fd = m
      BY <1>11 DEF NoneIsUnowned
    <3>2. m # n /\ fds[m] # NoFile
      BY <1>8, <3>1
    <3>3. CASE \E e \in 1 .. Len(dev) : ~dev[e].shut /\ dev[e].fd = m
      BY <1>7, <1>16, <3>2, <3>3
    <3>4. CASE \E s \in Threads : pc[s] = "built_fd" /\ job[s].fd = m
      BY <1>15, <3>4
    <3> QED BY <1>4, <3>2, <3>3, <3>4 DEF DescInv, NoneIsUnowned
  <2>4. ClosersKnow'
    <3>1. \A s \in Threads : pc'[s] = "closing" => pc[s] = "closing"
      BY <1>12
    <3>2. \A s \in Threads : pc'[s] = "closing" =>
            /\ job[s].dev \in 1 .. Len(dev) /\ job[s].fd \in Fds
            /\ ~dev'[job[s].dev].shut => job[s].fd = dev'[job[s].dev].fd
      BY <1>4, <1>16, <3>1 DEF DescInv, ClosersKnow, IsDev
    <3>3. \A s \in Threads : pc'[s] = "marking" =>
            job[s].dev \in 1 .. Len(dev) /\ dev'[job[s].dev].shut
      <4>1. \A s \in Threads \ {t} : pc'[s] = "marking" =>
              job[s].dev \in 1 .. Len(dev) /\ dev'[job[s].dev].shut
        BY <1>4, <1>12, <1>16 DEF DescInv, ClosersKnow, IsDev
      <4>2. job[t].dev \in 1 .. Len(dev) /\ dev'[job[t].dev].shut
        BY <1>1, <1>5, <1>10, <1>11
      <4> QED BY <4>1, <4>2
    <3> QED BY <1>11, <1>15, <3>2, <3>3 DEF ClosersKnow, IsDev
  <2> QED BY <2>1, <2>2, <2>3, <2>4 DEF DescInv
<1>18. ThreadInv'
  <2>1. DevsGrow
    BY <1>4, <1>11, <1>16, Types DEF DevsGrow
  <2> QED BY <1>3, <1>4, <1>12, <2>1, OthersRead
<1> QED BY <1>13, <1>14, <1>17, <1>18 DEF MachInv

\* file_dev_close forgets the number.
LEMMA CloseMarkKeeps ==
  ASSUME MachInv, NEW t \in Threads, CloseMark(t)
  PROVE  MachInv'
<1>1. PICK d : d = job[t].dev
  OBVIOUS
<1>2. /\ pc[t] = "marking" /\ dev' = [dev EXCEPT ![d].fd = -1]
      /\ pc' = [pc EXCEPT ![t] = "idle"] /\ job' = [job EXCEPT ![t] = NoJob]
      /\ UNCHANGED <<fds, devices, count, lock, opened>>
  BY <1>1 DEF CloseMark, Return, Goto
<1>3. MachType /\ TableInv /\ DescInv /\ ThreadInv
  BY DEF MachInv
<1>4. d \in 1 .. Len(dev) /\ dev[d] \in DevType /\ dev[d].shut /\ dev \in Seq(DevType)
  BY <1>1, <1>2, <1>3, Types DEF DescInv, ClosersKnow, IsDev
<1>5. PICK new : new = [dev[d] EXCEPT !.fd = -1]
  OBVIOUS
<1>6. /\ new \in DevType /\ new.shut /\ new.fd = -1 /\ new.file = dev[d].file
      /\ new.again = dev[d].again /\ dev' = [dev EXCEPT ![d] = new]
  BY <1>2, <1>4, <1>5 DEF DevType
<1>7. /\ dev' \in Seq(DevType) /\ Len(dev') = Len(dev) /\ dev'[d] = new
      /\ \A e \in 1 .. Len(dev) : e # d => dev'[e] = dev[e]
  BY <1>4, <1>6, Replacing
<1>8. /\ pc'[t] = "idle" /\ "idle" \in Labels
      /\ \A s \in Threads \ {t} : pc'[s] = pc[s] /\ job'[s] = job[s]
      /\ pc' \in [Threads -> Labels] /\ job' \in [Threads -> JobType]
  BY <1>2, <1>3, NoJobType, OneThread DEF Labels
<1>9. MachType'
  BY <1>2, <1>3, <1>7, <1>8 DEF MachType, TypeOK, DevType
<1>10. TableInv'
  BY <1>2, <1>3, <1>7, <1>8, ClosingFrame
<1>11. \A e \in 1 .. Len(dev) : /\ dev'[e].shut <=> dev[e].shut
                                /\ dev'[e].again <=> dev[e].again
                                /\ ~dev[e].shut => dev'[e] = dev[e]
  BY <1>4, <1>6, <1>7, Types, <1>3 DEF DevType
<1>12. \A s \in Threads, l \in {"built_fd", "closing", "marking"} :
         pc'[s] = l => pc[s] = l /\ job'[s] = job[s]
  BY <1>2, <1>8
<1>13. \A s \in Threads : pc[s] = "built_fd" => pc'[s] = "built_fd" /\ job'[s] = job[s]
  BY <1>2, <1>8
<1>14. DescInv'
  <2>1. ~ClosedTwice' => Backed'
    <3> SUFFICES ASSUME ~ClosedTwice' PROVE Backed'
      OBVIOUS
    <3>1. DevicesAreBacked /\ BuiltAreBacked
      BY <1>3, <1>7, <1>11 DEF ClosedTwice, DescInv, Backed
    <3>2. DevicesAreBacked'
      <4>1. \A e \in 1 .. Len(dev) : ~dev'[e].shut => OpenOn(dev[e].fd, dev[e].file)'
        BY <1>2, <1>11, <3>1 DEF DevicesAreBacked, OpenOn
      <4>2. \A e, g \in 1 .. Len(dev) :
              ~dev'[e].shut /\ ~dev'[g].shut /\ dev'[e].fd = dev'[g].fd => e = g
        BY <1>11, <3>1 DEF DevicesAreBacked
      <4> QED BY <1>7, <4>1, <4>2, <1>11 DEF DevicesAreBacked
    <3>3. BuiltAreBacked'
      <4>1. \A s \in Threads : pc'[s] = "built_fd" => OpenOn(job[s].fd, job[s].file)'
        BY <1>2, <1>12, <3>1 DEF BuiltAreBacked, OpenOn
      <4>2. \A s, u \in Threads :
              pc'[s] = "built_fd" /\ pc'[u] = "built_fd" /\ job'[s].fd = job'[u].fd => s = u
        BY <1>12, <3>1 DEF BuiltAreBacked
      <4>3. \A e \in 1 .. Len(dev'), s \in Threads :
              ~dev'[e].shut /\ pc'[s] = "built_fd" => dev'[e].fd # job'[s].fd
        BY <1>7, <1>11, <1>12, <3>1 DEF BuiltAreBacked
      <4> QED BY <1>12, <4>1, <4>2, <4>3 DEF BuiltAreBacked
    <3> QED BY <3>2, <3>3 DEF Backed
  <2>2. BuiltHaveNumbers'
    BY <1>3, <1>12 DEF DescInv, BuiltHaveNumbers
  <2>3. NoneIsUnowned'
    <3>1. SUFFICES ASSUME NEW m \in Fds, fds[m] # NoFile
                   PROVE  \/ \E e \in 1 .. Len(dev) : ~dev'[e].shut /\ dev'[e].fd = m
                          \/ \E s \in Threads : pc'[s] = "built_fd" /\ job'[s].fd = m
      BY <1>2, <1>7 DEF NoneIsUnowned
    <3>2. CASE \E e \in 1 .. Len(dev) : ~dev[e].shut /\ dev[e].fd = m
      BY <1>11, <3>2
    <3>3. CASE \E s \in Threads : pc[s] = "built_fd" /\ job[s].fd = m
      BY <1>13, <3>3
    <3> QED BY <1>3, <3>1, <3>2, <3>3 DEF DescInv, NoneIsUnowned
  <2>4. ClosersKnow'
    BY <1>3, <1>7, <1>11, <1>12 DEF DescInv, ClosersKnow, IsDev
  <2> QED BY <2>1, <2>2, <2>3, <2>4 DEF DescInv
<1>15. ThreadInv'
  <2>1. DevsGrow
    BY <1>3, <1>4, <1>6, <1>7, <1>11, Types DEF DevsGrow
  <2> QED BY <1>2, <1>3, <1>8, <2>1, OthersRead
<1> QED BY <1>9, <1>10, <1>14, <1>15 DEF MachInv

-----------------------------------------------------------------------------
(* The theorems.                                                           *)

\* A step that changes nothing keeps the invariant.
LEMMA MachStutter ==
  ASSUME MachInv, UNCHANGED vars
  PROVE  MachInv'
<1>1. UNCHANGED <<fds, dev, devices, count, lock, pc, job, opened>>
  BY DEF vars
<1>2. MachType /\ TableInv /\ DescInv /\ ThreadInv
  BY DEF MachInv
<1>3. MachType'
  BY <1>1, <1>2 DEF MachType, TypeOK
<1>4. TableInv'
  BY <1>1, <1>2, TableFrame DEF Busy
<1>5. DescInv'
  BY <1>1, <1>2, DescFrame
<1>6. DevsGrow
  BY <1>1, <1>2, Types DEF DevsGrow
<1>7. ThreadInv'
  BY <1>1, <1>2, <1>6, ThreadFrame DEF ThreadInv
<1> QED BY <1>3, <1>4, <1>5, <1>7 DEF MachInv

\* The invariant holds throughout.
LEMMA MachInvariant == Spec => []MachInv
<1>1. MachInv /\ [Next]_vars => MachInv'
  <2> SUFFICES ASSUME MachInv, [Next]_vars PROVE MachInv'
    OBVIOUS
  <2>1. ASSUME NEW t \in Threads, CreateOpen(t) \/ CreateAbandon(t) \/ CreateBuild(t)
        PROVE  MachInv'
    BY <2>1, CreateOpenKeeps, CreateAbandonKeeps, CreateBuildKeeps
  <2>2. ASSUME NEW t \in Threads,
               \/ RegisterFull(t) \/ RegisterLock(t) \/ RegisterUnlock(t)
               \/ RegisterStoreSlot(t) \/ RegisterStoreCount(t)
        PROVE  MachInv'
    BY <2>2, RegisterFullKeeps, RegisterLockKeeps, RegisterUnlockKeeps,
       RegisterStoreSlotKeeps, RegisterStoreCountKeeps
  <2>3. ASSUME NEW t \in Threads,
               \/ Access(t) \/ ScanEnd(t) \/ ScanFault(t) \/ ScanNext(t) \/ ScanFound(t)
               \/ LoadFd(t) \/ Io(t) \/ Reply(t)
        PROVE  MachInv'
    BY <2>3, ReadKeeps
  <2>4. ASSUME NEW t \in Threads, DeviceOpen(t) \/ CloseTest(t) \/ CloseFd(t) \/ CloseMark(t)
        PROVE  MachInv'
    BY <2>4, DeviceOpenKeeps, CloseTestKeeps, CloseFdKeeps, CloseMarkKeeps
  <2>5. CASE UNCHANGED vars
    BY <2>5, MachStutter
  <2> QED BY <2>1, <2>2, <2>3, <2>4, <2>5 DEF Next
<1> QED BY <1>1, MachInit, PTL DEF Spec

\* The table, the count, the lock and the devices keep their ranges.
THEOREM TypeCorrect == Spec => []TypeOK
<1>1. MachInv => TypeOK
  BY DEF MachInv, MachType
<1> QED BY <1>1, MachInvariant, PTL

(***************************************************************************)
(* A client of an opened device never meets a half-registered slot: slot 0 *)
(* is filled for good before any device can be opened, and the scan for    *)
(* the handle 0, which every device has, stops there.  A scan for another  *)
(* handle meets one only between the two stores of the registration that   *)
(* holds the lock: every other slot below device_count is filled.          *)
(***************************************************************************)
THEOREM OpenedHandlesAreSafe == Spec => []OpenedHandleIsSafe
<1>1. ASSUME MachInv, NEW t \in Threads, pc[t] = "scan", job[t].i < count,
             devices[job[t].i] = NULL
      PROVE  \E u \in Threads :
               pc[u] = "storing" /\ job[u].i = job[t].i /\ job[u].todo = {"slot"}
  <2>1. PICK i : i = job[t].i
    OBVIOUS
  <2>2. i \in Nat /\ i \in Slots /\ count \in Nat /\ i < count /\ devices[i] = NULL
    BY <1>1, <2>1, Types, ScannedSlot DEF MachInv, JobType
  <2>3. Base \in Nat /\ ~(i < Base)
    <3>1. Base \in Nat
      BY <1>1, BaseInRange DEF MachInv
    <3>2. i < Base => IsDev(devices[i])
      BY <1>1, <2>2, <3>1 DEF MachInv, TableInv, BaseIsFilled
    <3> QED BY <1>1, <2>2, <3>1, <3>2, Types DEF MachInv, IsDev
  <2>4. PICK u \in Threads : lock = u /\ pc[u] = "storing"
    BY <1>1, <2>2, <2>3, Types DEF Base, MachInv, TableInv, LockIsHeld
  <2>5. /\ Base = job[u].i /\ job[u] \in JobType
        /\ count = IF "count" \in job[u].todo THEN Base ELSE Base + 1
        /\ "slot" \notin job[u].todo => devices[Base] = job[u].dev /\ IsDev(job[u].dev)
    BY <1>1, <2>4, StoringBase
  <2>6. i = Base /\ "count" \notin job[u].todo
    BY <2>2, <2>3, <2>5
  <2>7. "slot" \in job[u].todo
    BY <1>1, <2>2, <2>5, <2>6, Types DEF MachInv, IsDev
  <2>8. job[u].todo = {"slot"}
    BY <2>5, <2>6, <2>7 DEF JobType
  <2> QED BY <2>1, <2>4, <2>5, <2>6, <2>8
<1>2. MachInv => OpenedHandleIsSafe
  BY <1>1 DEF MachInv, ThreadInv, ThreadOk, OpenedHandleIsSafe
<1> QED BY <1>2, MachInvariant, PTL

(***************************************************************************)
(* A read or write goes astray only if its device has been closed, or if   *)
(* some device has been closed by two threads.                             *)
(***************************************************************************)
THEOREM StrayIoIsAfterClose == Spec => []StrayIoNeedsClose
<1>1. MachInv => StrayIoNeedsClose
  BY DEF MachInv, ThreadInv, ThreadOk, StrayIoNeedsClose
<1> QED BY <1>1, MachInvariant, PTL

\* A one-to-one map onto a finite set: both sets have the same size.
LEMMA SameSize ==
  ASSUME NEW S, NEW T, IsFiniteSet(T), NEW f \in [S -> T],
         \A a, b \in S : f[a] = f[b] => a = b,
         \A y \in T : \E a \in S : f[a] = y
  PROVE  IsFiniteSet(S) /\ Cardinality(S) = Cardinality(T)
<1>1. f \in Bijection(S, T)
  BY Fun_IsBij
<1>2. f \in Injection(S, T) /\ f \in Surjection(S, T)
  BY <1>1, Fun_BijectionProperties
<1> QED BY <1>2, FS_Injection

(***************************************************************************)
(* With the lock free, the slots below device_count hold that many         *)
(* different devices, and only a full table leaves a device out.           *)
(***************************************************************************)
THEOREM RegistrationsAreKept == Spec => []RegistrationsKept
<1>1. ASSUME MachInv, lock = NoThread
      PROVE  LET listed == {devices[i] : i \in 0 .. count - 1} IN
               /\ NULL \notin listed
               /\ Cardinality(listed) = count
               /\ (1 .. Len(dev)) \ (listed \cup Registering) # {} => count = MaxDevices
  <2> DEFINE I == 0 .. count - 1
             L == {devices[i] : i \in I}
             f == [i \in I |-> devices[i]]
  <2>1. MachType /\ TableInv /\ Base = count /\ count \in Nat /\ Len(dev) \in Nat
    BY <1>1, Types DEF MachInv, Base
  <2>2. /\ \A i \in I : devices[i] \in 1 .. Len(dev)
        /\ \A i, k \in I : devices[i] = devices[k] => i = k
    BY <2>1 DEF TableInv, BaseIsFilled, IsDev
  <2>3. NULL \notin L
    BY <2>1, <2>2 DEF NULL
  <2>4. Cardinality(L) = count
    <3>1. IsFiniteSet(1 .. Len(dev)) /\ L \in SUBSET (1 .. Len(dev))
      <4>1. 1 \in Int /\ Len(dev) \in Int
        BY <2>1
      <4>2. IsFiniteSet(1 .. Len(dev))
        BY <4>1, FS_Interval
      <4>3. L \in SUBSET (1 .. Len(dev))
        BY <2>2
      <4> QED BY <4>2, <4>3
    <3>2. IsFiniteSet(L)
      BY <3>1, FS_Subset
    <3>3. f \in [I -> L] /\ \A y \in L : \E i \in I : f[i] = y
      OBVIOUS
    <3>4. \A i, k \in I : f[i] = f[k] => i = k
      BY <2>2
    <3>5. Cardinality(I) = count
      BY <2>1, FS_Interval
    <3> HIDE DEF I, L, f
    <3>6. Cardinality(I) = Cardinality(L)
      BY <3>2, <3>3, <3>4, SameSize
    <3> QED BY <3>5, <3>6
  <2>5. (1 .. Len(dev)) \ (L \cup Registering) # {} => count = MaxDevices
    <3>1. SUFFICES ASSUME count # MaxDevices, NEW d \in 1 .. Len(dev)
                   PROVE  d \in L \cup Registering
      OBVIOUS
    <3>2. CASE \E i \in I : devices[i] = d
      BY <3>2
    <3>3. CASE \E t \in Threads : Busy(t) /\ job[t].dev = d
      BY <3>3 DEF Busy, Registering
    <3> QED BY <2>1, <3>1, <3>2, <3>3 DEF TableInv, NoneIsForgotten
  <2> QED BY <2>3, <2>4, <2>5
<1>2. MachInv => RegistrationsKept
  BY <1>1 DEF RegistrationsKept
<1> QED BY <1>2, MachInvariant, PTL

(***************************************************************************)
(* Every open descriptor belongs to a device that is not closed or to a    *)
(* call that is making one, and only a full table strands a device that is *)
(* not closed.  Until two threads close one device, every owner has a      *)
(* descriptor of its own.                                                  *)
(***************************************************************************)
THEOREM DescriptorsHaveOwners == Spec => []DescriptorsAccounted
<1>1. ASSUME MachInv PROVE DescriptorsAccounted
  <2> DEFINE owned == {d \in 1 .. Len(dev) : ~dev[d].shut}
             making == {t \in Threads : pc[t] = "built_fd"}
             listed == {devices[i] : i \in 0 .. count - 1}
             A == {dev[d].fd : d \in owned}
             B == {job[t].fd : t \in making}
             f == [d \in owned |-> dev[d].fd]
             g == [t \in making |-> job[t].fd]
  <2>1. MachType /\ TableInv /\ DescInv
    BY <1>1 DEF MachInv
  <2>2. OpenFds(fds) \subseteq A \cup B
    BY <2>1 DEF OpenFds, DescInv, NoneIsUnowned
  <2>3. owned \ (listed \cup Registering) # {} => count = MaxDevices
    <3>1. SUFFICES ASSUME count # MaxDevices, NEW d \in owned
                   PROVE  d \in listed \cup Registering
      OBVIOUS
    <3>2. Base \in Nat /\ count \in Nat /\ Base <= count
      BY <2>1, BaseInRange, Types
    <3>3. CASE \E i \in 0 .. Base - 1 : devices[i] = d
      <4>1. PICK i \in 0 .. Base - 1 : devices[i] = d
        BY <3>3
      <4>2. i \in 0 .. count - 1
        BY <3>2
      <4> QED BY <4>1, <4>2
    <3>4. CASE \E t \in Threads : Busy(t) /\ job[t].dev = d
      BY <3>4 DEF Busy, Registering
    <3> QED BY <2>1, <3>1, <3>3, <3>4 DEF TableInv, NoneIsForgotten
  <2>4. ASSUME ~ClosedTwice
        PROVE  /\ OpenFds(fds) = A \cup B
               /\ Cardinality(OpenFds(fds)) = Cardinality(owned) + Cardinality(making)
    <3>1. DevicesAreBacked /\ BuiltAreBacked
      BY <2>1, <2>4 DEF DescInv, Backed
    <3>2. OpenFds(fds) = A \cup B
      <4>1. \A n \in A \cup B : n \in Fds /\ fds[n] # NoFile
        BY <3>1, NoFileAssumption DEF DevicesAreBacked, BuiltAreBacked, OpenOn
      <4> QED BY <2>2, <4>1 DEF OpenFds
    <3>3. A \cap B = {}
      BY <3>1 DEF BuiltAreBacked
    <3>4. /\ \A d, e \in owned : f[d] = f[e] => d = e
          /\ \A s, t \in making : g[s] = g[t] => s = t
      BY <3>1 DEF DevicesAreBacked, BuiltAreBacked
    <3>5. /\ f \in [owned -> A] /\ \A n \in A : \E d \in owned : f[d] = n
          /\ g \in [making -> B] /\ \A n \in B : \E t \in making : g[t] = n
      OBVIOUS
    <3>6. IsFiniteSet(Fds) /\ OpenFds(fds) \in SUBSET Fds
      BY NFdsAssumption, FS_Interval DEF Fds, OpenFds
    <3> HIDE DEF A, B, f, g, owned, making
    <3>7. IsFiniteSet(A) /\ IsFiniteSet(B)
      BY <3>2, <3>6, FS_Subset
    <3>8. Cardinality(owned) = Cardinality(A) /\ Cardinality(making) = Cardinality(B)
      BY <3>4, <3>5, <3>7, SameSize
    <3>9. Cardinality(OpenFds(fds)) = Cardinality(A) + Cardinality(B)
      <4>1. Cardinality(A \cup B) = Cardinality(A) + Cardinality(B) - Cardinality(A \cap B)
        BY <3>7, FS_Union
      <4>2. Cardinality(A \cap B) = 0
        BY <3>3, FS_EmptySet
      <4>3. Cardinality(A) \in Nat /\ Cardinality(B) \in Nat
        BY <3>7, FS_CardinalityType
      <4> QED BY <3>2, <4>1, <4>2, <4>3
    <3> QED BY <3>2, <3>8, <3>9
  <2> HIDE DEF f, g
  <2> QED BY <2>2, <2>3, <2>4 DEF DescriptorsAccounted
<1> QED BY <1>1, MachInvariant, PTL
=============================================================================
