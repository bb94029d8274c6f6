-------------------------- MODULE LklBridgeProofs --------------------------
(***************************************************************************)
(* What the table of the LKL bridge guarantees for every size of it, every *)
(* number of users and every number of shutdowns and initialisations.      *)
(***************************************************************************)
EXTENDS LklBridge, WellFoundedInduction, TLAPS

-----------------------------------------------------------------------------
(* The descriptor table of the host, for every size of it.                 *)

\* The smallest of a set of natural numbers is one of them.
LEMMA MinIsMember ==
  ASSUME NEW S \in SUBSET Nat, S # {}
  PROVE  Min(S) \in S
<1> DEFINE R == {ss \in Nat \X Nat : ss[1] < ss[2]}
<1>1. IsWellFoundedOn(R, Nat)
  BY NatLessThanWellFounded DEF OpToRel
<1> HIDE DEF R
<1>2. PICK x \in S : \A y \in S : ~(<<y, x>> \in R)
  BY <1>1, WFMin
<1>3. ASSUME NEW y \in S PROVE x <= y
  <2>1. x \in Nat /\ y \in Nat
    OBVIOUS
  <2>2. ~(y < x)
    BY <1>2, <2>1 DEF R
  <2> QED BY <2>1, <2>2
<1> QED BY <1>3 DEF Min

\* open() takes a free number and leaves every other alone.
LEMMA OpenKeeps ==
  ASSUME NEW tab \in FdTables, CanOpen(tab), NEW f \in Files
  PROVE  /\ AfterOpen(tab, f) \in FdTables
         /\ NewFd(tab) \in Fds /\ tab[NewFd(tab)] = NoFile
         /\ AfterOpen(tab, f)[NewFd(tab)] = f
         /\ \A n \in Fds : n # NewFd(tab) => AfterOpen(tab, f)[n] = tab[n]
         /\ \A n \in Fds : tab[n] \in Files => AfterOpen(tab, f)[n] = tab[n]
<1>1. Fds \ OpenFds(tab) \in SUBSET Nat /\ Fds \ OpenFds(tab) # {}
  BY NFdsAssumption DEF CanOpen, OpenFds, Fds
<1>2. NewFd(tab) \in Fds \ OpenFds(tab)
  BY <1>1, MinIsMember DEF NewFd
<1>3. tab[NewFd(tab)] = NoFile
  BY <1>2 DEF OpenFds
<1> QED BY <1>2, <1>3, NoFileAssumption DEF AfterOpen, FdTables

\* close() frees its number and leaves every other alone.
LEMMA CloseKeeps ==
  ASSUME NEW tab \in FdTables, NEW n
  PROVE  /\ AfterClose(tab, n) \in FdTables
         /\ n \in Fds => AfterClose(tab, n)[n] = NoFile
         /\ \A m \in Fds : m # n => AfterClose(tab, n)[m] = tab[m]
BY DEF AfterClose, FdTables

-----------------------------------------------------------------------------
(* The inductive invariant.                                                *)

DeviceType == [active : BOOLEAN, id : Ids, fd : Fds \cup {-1}]

JobType == [op : Ops \cup {"add"}, slot : Slots, dev : DeviceType,
            todo : SUBSET (Fields \cup {"count"}), file : Files \cup {NoFile},
            fd : Fds \cup {-1}, got : Files \cup {NoFile}, late : BOOLEAN]

\* TypeOK says nothing of the local variables of a call, nor that init is only
\* entered from below the bound.
BridgeType ==
  /\ TypeOK
  /\ job \in [Users -> JobType]
  /\ admin = "down" => resets <= MaxResets

LockIsHeld == \A t \in Users : pc[t] = "adding" <=> lock = t

\* A call that holds the descriptor of a disk to be.
Holds(t) == pc[t] = "opened" \/ (pc[t] = "adding" /\ job[t].dev.id.type = "disk")

\* The numbers that nobody closes but their owner: a slot that init has cut
\* names 0, and a shutdown closes it.
Safe(n) == n # -1 /\ (n # 0 \/ ~cut)

HoldersAreBacked ==
  /\ \A t \in Users : Holds(t) =>
       /\ job[t].dev.active /\ job[t].dev.id.type = "disk"
       /\ job[t].dev.fd \in Fds /\ job[t].dev.id.file \in Files
       /\ Safe(job[t].dev.fd) => fds[job[t].dev.fd] = job[t].dev.id.file
  /\ \A s, t \in Users :
       Holds(s) /\ Holds(t) /\ job[s].dev.fd = job[t].dev.fd /\ Safe(job[s].dev.fd) => s = t

DisksAreBacked ==
  /\ \A i \in ActiveDisks :
       /\ Safe(devices[i].fd) =>
            /\ devices[i].fd \in Fds /\ fds[devices[i].fd] \in Files
            /\ devices[i].id.file \in {NoFile, fds[devices[i].fd]}
       /\ ~cut => devices[i].fd # -1 /\ devices[i].id.file \in Files
       /\ devices[i].id.file # NoFile => devices[i].fd # -1
       /\ devices[i].id.name \in Names => devices[i].id.file \in Files
  /\ \A i, j \in ActiveDisks : devices[i].fd = devices[j].fd /\ Safe(devices[i].fd) => i = j

NoneIsShared ==
  \A i \in ActiveDisks, t \in Users :
    Holds(t) /\ Safe(devices[i].fd) => devices[i].fd # job[t].dev.fd

\* A network interface has no descriptor.
NetsHaveNone ==
  \A i \in Slots :
    devices[i].active /\ devices[i].id.type = "net" /\ (\A t \in Adding : job[t].slot # i) =>
      devices[i].fd = -1 \/ (cut /\ devices[i].fd = 0)

\* What a call that fills a slot finds in it: what it stored or what the memset
\* left, all of it or nothing unless the memset came in between.
FillOf(j) ==
  LET d == devices[j.slot] IN
    /\ j.dev.active
    /\ j.dev.id.type = "net" => j.dev.fd = -1
    /\ "id" \notin j.todo => d.id \in {j.dev.id, Blank.id}
    /\ "fd" \notin j.todo => d.fd \in {j.dev.fd, 0}
    /\ \/ cut
       \/ j.todo \cap Fields = {} /\ ~d.active
       \/ /\ "id" \notin j.todo => d.id = j.dev.id
          /\ "fd" \notin j.todo => d.fd = j.dev.fd
    /\ "count" \in j.todo => count <= j.slot
    /\ \/ j.dev.fd \in lost
       \/ /\ "active" \notin j.todo => d.active
          /\ "fd" \notin j.todo => d.fd = j.dev.fd
          /\ "count" \notin j.todo => j.slot < count

FillIsKnown == \A t \in Users : pc[t] = "adding" => FillOf(job[t])

\* A slot that was found still holds its disk until the next reset.
FoundIsThere ==
  \A t \in Users : pc[t] = "use" /\ ~job[t].late =>
    /\ job[t].slot < count /\ job[t].slot \in ActiveDisks
    /\ devices[job[t].slot].id.file = job[t].file /\ job[t].file \in Files

BridgeInv == /\ BridgeType /\ LockIsHeld /\ HoldersAreBacked /\ DisksAreBacked
             /\ NoneIsShared /\ NetsHaveNone /\ FillIsKnown /\ DescriptorsAccounted
             /\ FoundIsThere /\ StrayIoNeedsReset

\* A wiped slot is a slot, and not active.
LEMMA BlankType ==
  /\ Blank \in DeviceType /\ ~Blank.active /\ Blank.fd = 0
  /\ Blank.id.type = "disk" /\ Blank.id.name = NoFile /\ Blank.id.file = NoFile
BY NFdsAssumption DEF Blank, DeviceType, Fds, Ids, Id

\* A thread with nothing to do has a job of the type.
LEMMA NoJobType == NoJob \in JobType
<1>1. 0 \in Slots /\ -1 \in Fds \cup {-1}
  BY BridgeAssumption DEF Slots
<1> QED BY <1>1, BlankType DEF NoJob, JobType

\* The parts of the type invariant, each on its own.
LEMMA Types ==
  ASSUME BridgeType
  PROVE  /\ fds \in FdTables /\ devices \in [Slots -> DeviceType]
         /\ count \in Nat /\ count <= MaxDevices /\ resets \in Nat
         /\ lost \subseteq Fds \cup {-1} /\ cut \in BOOLEAN
         /\ lock \in Users \cup {NoUser}
         /\ pc \in [Users -> Labels] /\ job \in [Users -> JobType]
         /\ \A i \in Slots : i \in Nat /\ i < MaxDevices /\ devices[i] \in DeviceType
         /\ \A i \in Nat : i < MaxDevices => i \in Slots
         /\ \A t \in Users : job[t] \in JobType
BY BridgeAssumption DEF BridgeType, TypeOK, DeviceType, Slots

\* The calls that hold a descriptor, in the words of the specification.
LEMMA HeldAre == HeldFds = {job[t].dev.fd : t \in {u \in Users : Holds(u)}}
BY DEF HeldFds, Holding, Adding, Holds

\* The invariant holds at the start.
LEMMA BridgeInit == Init => BridgeInv
<1> SUFFICES ASSUME Init PROVE BridgeInv
  OBVIOUS
<1>1. BridgeType
  <2>1. fds \in FdTables /\ devices \in [Slots -> DeviceType] /\ job \in [Users -> JobType]
    BY NoJobType, BlankType DEF Init, FdTables
  <2>2. count \in 0 .. MaxDevices /\ resets \in 0 .. MaxResets + 1
    BY BridgeAssumption DEF Init
  <2>3. pc \in [Users -> Labels] /\ lock \in Users \cup {NoUser} /\ admin = "up"
    BY DEF Init, Labels
  <2> QED BY <2>1, <2>2, <2>3 DEF Init, BridgeType, TypeOK, DeviceType
<1>2. ActiveDisks = {} /\ OpenFds(fds) = {} /\ \A i \in Slots : ~devices[i].active
  BY BlankType DEF Init, ActiveDisks, OpenFds
<1>3. \A t \in Users : pc[t] = "idle" /\ ~Holds(t)
  BY DEF Init, Holds
<1>4. LockIsHeld /\ HoldersAreBacked /\ DisksAreBacked /\ NoneIsShared
  BY <1>2, <1>3, BridgeAssumption
     DEF Init, LockIsHeld, HoldersAreBacked, DisksAreBacked, NoneIsShared
<1>5. NetsHaveNone /\ FillIsKnown /\ DescriptorsAccounted
  BY <1>2, <1>3 DEF NetsHaveNone, FillIsKnown, DescriptorsAccounted
<1>6. FoundIsThere /\ StrayIoNeedsReset
  BY <1>3 DEF FoundIsThere, StrayIoNeedsReset
<1> QED BY <1>1, <1>4, <1>5, <1>6 DEF BridgeInv

-----------------------------------------------------------------------------
(* init and shutdown                                                        *)

\* What a reset leaves of the calls.
LEMMA OvertakenKeeps ==
  ASSUME BridgeType, job' = Overtaken, pc' = pc
  PROVE  /\ job' \in [Users -> JobType]
         /\ \A t \in Users : /\ pc[t] # "use" => job'[t] = job[t]
                             /\ pc[t] = "use" => job'[t].late
         /\ \A t \in Users : Holds(t)' <=> Holds(t)
         /\ \A t \in Users : Holds(t) => job'[t] = job[t]
         /\ Adding' = Adding /\ \A t \in Adding : job'[t] = job[t]
         /\ HeldFds' = HeldFds
<1>1. ASSUME NEW t \in Users
      PROVE  /\ job'[t] \in JobType
             /\ pc[t] # "use" => job'[t] = job[t]
             /\ pc[t] = "use" => job'[t].late
  <2>1. job[t] \in JobType
    BY Types
  <2>2. CASE pc[t] = "use"
    <3>1. job'[t] = [job[t] EXCEPT !.late = TRUE]
      BY <2>2 DEF Overtaken
    <3> QED BY <2>1, <2>2, <3>1 DEF JobType
  <2>3. CASE pc[t] # "use"
    BY <2>1, <2>3 DEF Overtaken
  <2> QED BY <2>2, <2>3
<1>2. job' \in [Users -> JobType]
  BY <1>1 DEF Overtaken
<1>3. \A t \in Users : (Holds(t)' <=> Holds(t)) /\ (Holds(t) => job'[t] = job[t])
  BY <1>1 DEF Holds
<1>4. Adding' = Adding /\ \A t \in Adding : job'[t] = job[t]
  BY <1>1 DEF Adding
<1>5. HeldFds' = HeldFds
  BY <1>3, HeldAre DEF HeldFds, Holding, Adding, Holds
<1> QED BY <1>1, <1>2, <1>3, <1>4, <1>5

\* A reset changes no answer that was given, and no call in between is early.
LEMMA ResetOfCalls ==
  ASSUME BridgeInv, job' = Overtaken, pc' = pc, cut => cut'
  PROVE  FoundIsThere' /\ StrayIoNeedsReset'
BY OvertakenKeeps DEF BridgeInv, FoundIsThere, StrayIoNeedsReset

\* The numbers of the table and of the calls are descriptor numbers.
LEMMA NumbersType ==
  ASSUME BridgeType
  PROVE  /\ AllFds \subseteq Fds \cup {-1} /\ DiskFds \subseteq AllFds
         /\ \A S \in SUBSET Users : {job[t].dev.fd : t \in S} \subseteq Fds \cup {-1}
<1>1. \A i \in ActiveDisks : devices[i].fd \in Fds \cup {-1}
  BY Types DEF ActiveDisks, DeviceType
<1>2. \A t \in Users : job[t].dev.fd \in Fds \cup {-1}
  BY Types DEF JobType, DeviceType
<1> QED BY <1>1, <1>2 DEF AllFds, DiskFds

\* lkl_hurd_bridge_init wipes the table.
LEMMA InitClearKeeps ==
  ASSUME BridgeInv, InitClear
  PROVE  BridgeInv'
<1> DEFINE wiped == {u \in Adding : ~({"fd", "active"} \subseteq job[u].todo)}
<1>1. /\ admin # "clearing" /\ admin' = "clearing" /\ resets' = resets + 1
      /\ admin = "up" => resets < MaxResets
      /\ devices' = [i \in Slots |-> Blank]
      /\ lost' = lost \cup AllFds \cup {job[t].dev.fd : t \in wiped}
      /\ cut' = (cut \/ \E t \in Adding : job[t].todo \cap Fields \notin {{}, Fields})
      /\ job' = Overtaken
      /\ UNCHANGED <<fds, count, lock, pc>>
  BY DEF InitClear
<1>2. BridgeType /\ resets \in Nat /\ MaxResets \in Nat /\ cut \in BOOLEAN
  BY Types, BridgeAssumption DEF BridgeInv
<1>3. /\ job' \in [Users -> JobType]
      /\ \A t \in Users : (Holds(t)' <=> Holds(t)) /\ (Holds(t) => job'[t] = job[t])
      /\ Adding' = Adding /\ \A t \in Adding : job'[t] = job[t]
      /\ HeldFds' = HeldFds
  BY <1>1, <1>2, OvertakenKeeps
<1>4. cut' \in BOOLEAN /\ (cut => cut')
  BY <1>1, <1>2
<1>5. BridgeType'
  <2>1. lost' \subseteq Fds \cup {-1}
    BY <1>1, <1>2, NumbersType, Types DEF Adding
  <2>2. resets' \in 0 .. MaxResets + 1
    BY <1>1, <1>2 DEF BridgeType, TypeOK
  <2>3. devices' \in [Slots -> DeviceType]
    BY <1>1, BlankType
  <2> QED BY <1>1, <1>2, <1>3, <1>4, <2>1, <2>2, <2>3
          DEF BridgeType, TypeOK, DeviceType
<1>6. ActiveDisks' = {} /\ \A i \in Slots : ~devices'[i].active
  BY <1>1, BlankType DEF ActiveDisks
<1>7. \A n : Safe(n)' => Safe(n)
  BY <1>4 DEF Safe
<1>8. LockIsHeld' /\ HoldersAreBacked'
  <2>1. LockIsHeld'
    BY <1>1 DEF BridgeInv, LockIsHeld
  <2>2. HoldersAreBacked'
    BY <1>1, <1>3, <1>7 DEF BridgeInv, HoldersAreBacked
  <2> QED BY <2>1, <2>2
<1>9. DisksAreBacked' /\ NoneIsShared' /\ NetsHaveNone'
  BY <1>6 DEF DisksAreBacked, NoneIsShared, NetsHaveNone
<1>10. FillIsKnown'
  <2>1. SUFFICES ASSUME NEW t \in Users, pc[t] = "adding"
                 PROVE  /\ job[t].dev.active
                        /\ job[t].dev.id.type = "net" => job[t].dev.fd = -1
                        /\ \/ cut'
                           \/ job[t].todo \cap Fields = {}
                           \/ "id" \in job[t].todo /\ "fd" \in job[t].todo
                        /\ "count" \in job[t].todo => count <= job[t].slot
                        /\ \/ job[t].dev.fd \in lost'
                           \/ /\ "active" \in job[t].todo /\ "fd" \in job[t].todo
                              /\ "count" \notin job[t].todo => job[t].slot < count
    <3>1. \A t \in Users : pc'[t] = "adding" =>
            /\ pc[t] = "adding" /\ job'[t] = job[t]
            /\ devices'[job'[t].slot] = Blank
      BY <1>1, <1>2, <1>3, Types DEF Adding, JobType
    <3> QED BY <1>1, <3>1, BlankType DEF FillIsKnown, FillOf
  <2>2. t \in Adding /\ job[t].todo \subseteq Fields \cup {"count"}
    BY <1>2, <2>1, Types DEF Adding, JobType
  <2>3. cut' \/ job[t].todo \cap Fields = {} \/ job[t].todo \cap Fields = Fields
    BY <1>1, <2>2
  <2>4. t \in wiped => job[t].dev.fd \in lost'
    BY <1>1
  <2>5. t \notin wiped => "active" \in job[t].todo /\ "fd" \in job[t].todo
    BY <2>2
  <2>6. job[t].dev.fd \in lost => job[t].dev.fd \in lost'
    BY <1>1
  <2> QED BY <2>1, <2>3, <2>4, <2>5, <2>6 DEF BridgeInv, FillIsKnown, FillOf, Fields
<1>11. DescriptorsAccounted'
  BY <1>1, <1>2, <1>3, NumbersType DEF BridgeInv, DescriptorsAccounted
<1>12. FoundIsThere' /\ StrayIoNeedsReset'
  BY <1>1, <1>4, ResetOfCalls
<1> QED BY <1>5, <1>8, <1>9, <1>10, <1>11, <1>12 DEF BridgeInv

\* lkl_hurd_bridge_init resets the count.
LEMMA InitCountKeeps ==
  ASSUME BridgeInv, InitCount
  PROVE  BridgeInv'
<1> DEFINE dropped == {u \in Adding : "count" \notin job[u].todo}
<1>1. /\ admin = "clearing" /\ admin' = "up" /\ count' = 0
      /\ lost' = lost \cup AllFds \cup {job[t].dev.fd : t \in dropped}
      /\ job' = Overtaken
      /\ UNCHANGED <<fds, devices, lock, resets, cut, pc>>
  BY DEF InitCount
<1>2. BridgeType
  BY DEF BridgeInv
<1>3. /\ job' \in [Users -> JobType]
      /\ \A t \in Users : (Holds(t)' <=> Holds(t)) /\ (Holds(t) => job'[t] = job[t])
      /\ Adding' = Adding /\ \A t \in Adding : job'[t] = job[t]
      /\ HeldFds' = HeldFds
  BY <1>1, <1>2, OvertakenKeeps
<1>4. BridgeType'
  <2>1. lost' \subseteq Fds \cup {-1}
    BY <1>1, <1>2, NumbersType, Types DEF Adding
  <2> QED BY <1>1, <1>2, <1>3, <2>1, BridgeAssumption DEF BridgeType, TypeOK
<1>5. ActiveDisks' = ActiveDisks
  BY <1>1, <1>3 DEF ActiveDisks
<1>6. \A n : Safe(n)' <=> Safe(n)
  BY <1>1 DEF Safe
<1>7. LockIsHeld' /\ HoldersAreBacked'
  BY <1>1, <1>3, <1>6 DEF BridgeInv, LockIsHeld, HoldersAreBacked
<1>8. DisksAreBacked' /\ NoneIsShared'
  BY <1>1, <1>3, <1>5, <1>6 DEF BridgeInv, DisksAreBacked, NoneIsShared
<1>9. NetsHaveNone'
  BY <1>1, <1>3 DEF BridgeInv, NetsHaveNone
<1>10. FillIsKnown'
  <2>1. SUFFICES ASSUME NEW t \in Users, pc[t] = "adding"
                 PROVE  FillOf(job[t])'
    BY <1>1 DEF FillIsKnown
  <2>2. t \in Adding /\ job'[t] = job[t] /\ FillOf(job[t]) /\ job[t].slot \in Nat
    BY <1>2, <1>3, <2>1, Types DEF Adding, BridgeInv, FillIsKnown, JobType
  <2>3. "count" \notin job[t].todo => job[t].dev.fd \in lost'
    BY <1>1, <2>2
  <2>4. job[t].dev.fd \in lost => job[t].dev.fd \in lost'
    BY <1>1
  <2> QED BY <1>1, <2>2, <2>3, <2>4 DEF FillOf
<1>11. DescriptorsAccounted'
  BY <1>1, <1>2, <1>3, NumbersType DEF BridgeInv, DescriptorsAccounted
<1>12. FoundIsThere' /\ StrayIoNeedsReset'
  BY <1>1, ResetOfCalls
<1> QED BY <1>4, <1>7, <1>8, <1>9, <1>10, <1>11, <1>12 DEF BridgeInv

\* lkl_hurd_bridge_shutdown closes what the table holds, and nobody else's.
LEMMA ShutdownKeeps ==
  ASSUME BridgeInv, Shutdown
  PROVE  BridgeInv'
<1>1. /\ admin' = "down" /\ lock = NoUser /\ resets < MaxResets /\ resets' = resets + 1
      /\ fds' = [n \in Fds |-> IF n \in Closing THEN NoFile ELSE fds[n]]
      /\ devices' = [i \in Slots |-> IF i < count THEN [devices[i] EXCEPT !.active = FALSE]
                                     ELSE devices[i]]
      /\ job' = Overtaken
      /\ UNCHANGED <<count, lock, lost, cut, pc>>
  BY DEF Shutdown
<1>2. BridgeType
  BY DEF BridgeInv
<1>3. /\ job' \in [Users -> JobType]
      /\ \A t \in Users : (Holds(t)' <=> Holds(t)) /\ (Holds(t) => job'[t] = job[t])
      /\ HeldFds' = HeldFds
  BY <1>1, <1>2, OvertakenKeeps
<1>4. Adding = {} /\ Adding' = {}
  BY <1>1, BridgeAssumption DEF BridgeInv, LockIsHeld, Adding
<1>5. \A i \in Slots : /\ i < count => devices'[i] = [devices[i] EXCEPT !.active = FALSE]
                       /\ ~(i < count) => devices'[i] = devices[i]
                       /\ devices[i] \in DeviceType /\ devices'[i] \in DeviceType
                       /\ devices'[i].active => devices'[i] = devices[i] /\ ~(i < count)
  <2>1. SUFFICES ASSUME NEW i \in Slots
                 PROVE  /\ i < count => devices'[i] = [devices[i] EXCEPT !.active = FALSE]
                        /\ ~(i < count) => devices'[i] = devices[i]
                        /\ devices[i] \in DeviceType /\ devices'[i] \in DeviceType
                        /\ devices'[i].active => devices'[i] = devices[i] /\ ~(i < count)
    OBVIOUS
  <2>2. devices[i] \in DeviceType
    BY <1>2, Types
  <2>3. [devices[i] EXCEPT !.active = FALSE] \in DeviceType
        /\ ~[devices[i] EXCEPT !.active = FALSE].active
    BY <2>2 DEF DeviceType
  <2> QED BY <1>1, <2>2, <2>3
<1>6. BridgeType'
  <2>1. fds' \in FdTables
    BY <1>1, <1>2, Types DEF FdTables
  <2>2. devices' \in [Slots -> DeviceType]
    BY <1>1, <1>5
  <2>3. resets' \in 0 .. MaxResets + 1 /\ resets' <= MaxResets
    BY <1>1, <1>2, Types, BridgeAssumption
  <2> QED BY <1>1, <1>2, <1>3, <2>1, <2>2, <2>3 DEF BridgeType, TypeOK, DeviceType
<1>7. \A i \in Slots : i \in ActiveDisks <=> devices[i].active /\ devices[i].id.type = "disk"
  BY <1>4 DEF ActiveDisks
<1>8. \A i \in ActiveDisks' : i \in ActiveDisks /\ devices'[i] = devices[i] /\ ~(i < count)
  BY <1>4, <1>5, <1>7 DEF ActiveDisks
<1>9. \A n : Safe(n)' <=> Safe(n)
  BY <1>1 DEF Safe
<1>10. ASSUME NEW n \in Closing, Safe(n)
       PROVE  \E k \in ActiveDisks : k < count /\ devices[k].fd = n
  <2>1. PICK k \in 0 .. count - 1 : devices[k].active /\ devices[k].fd = n
    BY <1>10 DEF Closing
  <2>2. k \in Slots /\ k < count /\ devices[k] \in DeviceType
    <3>1. count \in Nat /\ count <= MaxDevices /\ MaxDevices \in Nat
      BY <1>2, Types, BridgeAssumption
    <3>2. k \in Nat /\ k < count /\ k < MaxDevices
      BY <3>1
    <3> QED BY <1>2, <3>2, Types
  <2>3. devices[k].id.type \in {"disk", "net"}
    BY <2>2 DEF DeviceType, Ids
  <2>4. devices[k].id.type # "net"
    BY <1>4, <1>10, <2>1, <2>2 DEF BridgeInv, NetsHaveNone, Safe
  <2> QED BY <1>7, <2>1, <2>2, <2>3, <2>4
<1>11. \A n \in Fds : n \notin Closing => fds'[n] = fds[n]
  BY <1>1
<1>12. LockIsHeld'
  BY <1>1 DEF BridgeInv, LockIsHeld
<1>13. HoldersAreBacked'
  <2>1. \A t \in Users : Holds(t) /\ Safe(job[t].dev.fd) => job[t].dev.fd \notin Closing
    BY <1>10 DEF BridgeInv, NoneIsShared
  <2> QED BY <1>3, <1>9, <1>11, <2>1 DEF BridgeInv, HoldersAreBacked
<1>14. DisksAreBacked'
  <2>1. ASSUME NEW i \in ActiveDisks, ~(i < count), Safe(devices[i].fd)
        PROVE  devices[i].fd \notin Closing
    BY <1>10, <2>1 DEF BridgeInv, DisksAreBacked
  <2>2. ASSUME NEW i \in ActiveDisks'
        PROVE  /\ Safe(devices[i].fd)' =>
                    /\ devices'[i].fd \in Fds /\ fds'[devices'[i].fd] \in Files
                    /\ devices'[i].id.file \in {NoFile, fds'[devices'[i].fd]}
               /\ ~cut' => devices'[i].fd # -1 /\ devices'[i].id.file \in Files
               /\ devices'[i].id.file # NoFile => devices'[i].fd # -1
               /\ devices'[i].id.name \in Names => devices'[i].id.file \in Files
    <3>1. i \in ActiveDisks /\ devices'[i] = devices[i] /\ ~(i < count)
      BY <1>8, <2>2
    <3>2. Safe(devices[i].fd) => devices[i].fd \in Fds /\ fds'[devices[i].fd] = fds[devices[i].fd]
      BY <1>11, <2>1, <3>1 DEF BridgeInv, DisksAreBacked
    <3> QED BY <1>1, <3>1, <3>2 DEF BridgeInv, DisksAreBacked, Safe
  <2>3. \A i, j \in ActiveDisks' :
          devices'[i].fd = devices'[j].fd /\ Safe(devices[i].fd)' => i = j
    <3>1. ASSUME NEW i \in ActiveDisks', NEW j \in ActiveDisks',
                 devices'[i].fd = devices'[j].fd, Safe(devices[i].fd)'
          PROVE  i = j
      <4>1. i \in ActiveDisks /\ j \in ActiveDisks
            /\ devices'[i] = devices[i] /\ devices'[j] = devices[j]
        BY <1>8
      <4>2. Safe(devices[i].fd)
        BY <1>1, <3>1, <4>1 DEF Safe
      <4> QED BY <3>1, <4>1, <4>2 DEF BridgeInv, DisksAreBacked
    <3> QED BY <3>1
  <2> QED BY <2>2, <2>3 DEF DisksAreBacked
<1>15. NoneIsShared'
  BY <1>3, <1>8, <1>9 DEF BridgeInv, NoneIsShared
<1>16. NetsHaveNone'
  BY <1>1, <1>4, <1>5 DEF BridgeInv, NetsHaveNone
<1>17. FillIsKnown'
  BY <1>4 DEF FillIsKnown, Adding
<1>18. DescriptorsAccounted'
  <2>1. ASSUME NEW n \in OpenFds(fds')
        PROVE  n \in HeldFds \cup lost
    <3>1. n \in OpenFds(fds) /\ n \notin Closing
      BY <1>1 DEF OpenFds
    <3>2. n \notin DiskFds
      <4>1. \A i \in ActiveDisks : i < count => devices[i].fd \in Closing
        <5>1. \A i \in Slots : i < count => i \in 0 .. count - 1
          BY <1>2, Types
        <5> QED BY <5>1 DEF Closing, ActiveDisks
      <4> QED BY <3>1, <4>1 DEF DiskFds
    <3> QED BY <3>1, <3>2 DEF BridgeInv, DescriptorsAccounted
  <2> QED BY <1>1, <1>3, <2>1 DEF DescriptorsAccounted
<1>19. FoundIsThere' /\ StrayIoNeedsReset'
  BY <1>1, ResetOfCalls
<1> QED BY <1>6, <1>12, <1>13, <1>14, <1>15, <1>16, <1>17, <1>18, <1>19 DEF BridgeInv

-----------------------------------------------------------------------------
(* The steps of a user                                                      *)

\* A step of one call leaves the others where they are.
LEMMA OneUser ==
  ASSUME BridgeType, NEW t \in Users, NEW j \in JobType, NEW l \in Labels,
         job' = [job EXCEPT ![t] = j], pc' = [pc EXCEPT ![t] = l]
  PROVE  /\ job' \in [Users -> JobType] /\ pc' \in [Users -> Labels]
         /\ job'[t] = j /\ pc'[t] = l
         /\ \A u \in Users : u # t => job'[u] = job[u] /\ pc'[u] = pc[u]
BY Types

\* A step outside the critical section that leaves the table alone.
LEMMA OutsideKeeps ==
  ASSUME BridgeInv, NEW t \in Users, pc[t] # "adding", pc'[t] # "adding",
         \A u \in Users : u # t => job'[u] = job[u] /\ pc'[u] = pc[u],
         UNCHANGED <<devices, count, lock, lost, cut>>
  PROVE  /\ ActiveDisks' = ActiveDisks /\ DiskFds' = DiskFds
         /\ \A n : Safe(n)' <=> Safe(n)
         /\ \A u \in Users : u # t => (Holds(u)' <=> Holds(u))
         /\ LockIsHeld' /\ NetsHaveNone' /\ FillIsKnown'
         /\ \A u \in Users : u # t /\ pc'[u] = "use" /\ ~job'[u].late =>
              /\ job'[u].slot < count' /\ job'[u].slot \in ActiveDisks'
              /\ devices'[job'[u].slot].id.file = job'[u].file /\ job'[u].file \in Files
         /\ \A u \in Users : u # t /\ pc'[u] = "done" /\ job'[u].got # job'[u].file =>
              job'[u].late \/ (cut' /\ job'[u].fd = 0)
<1>1. Adding' = Adding /\ \A u \in Adding : u # t /\ job'[u] = job[u]
  BY DEF Adding
<1>2. ActiveDisks' = ActiveDisks
  BY <1>1 DEF ActiveDisks
<1>3. DiskFds' = DiskFds
  BY <1>2 DEF DiskFds
<1>4. \A u \in Users : u # t => (Holds(u)' <=> Holds(u))
  BY DEF Holds
<1>5. LockIsHeld'
  BY DEF BridgeInv, LockIsHeld
<1>6. NetsHaveNone'
  BY <1>1 DEF BridgeInv, NetsHaveNone
<1>7. FillIsKnown'
  <2>1. ASSUME NEW u \in Users, pc'[u] = "adding" PROVE FillOf(job[u])'
    <3>1. u \in Adding /\ job'[u] = job[u] /\ FillOf(job[u])
      BY <1>1, <2>1 DEF Adding, BridgeInv, FillIsKnown
    <3> QED BY <3>1 DEF FillOf
  <2> QED BY <2>1 DEF FillIsKnown
<1> QED BY <1>2, <1>3, <1>4, <1>5, <1>6, <1>7
        DEF Safe, BridgeInv, FoundIsThere, StrayIoNeedsReset

\* A step of a call that holds no descriptor, and takes none.
LEMMA EmptyHandsKeep ==
  ASSUME BridgeInv, NEW t \in Users, NEW j \in JobType, NEW l \in {"idle", "use", "done"},
         job' = [job EXCEPT ![t] = j], pc' = [pc EXCEPT ![t] = l],
         pc[t] \in {"idle", "use", "done"},
         UNCHANGED <<fds, devices, count, lock, lost>>, UserFrame,
         l = "use" /\ ~j.late => /\ j.slot < count /\ j.slot \in ActiveDisks
                                 /\ devices[j.slot].id.file = j.file /\ j.file \in Files,
         l = "done" /\ j.got # j.file => j.late \/ (cut /\ j.fd = 0)
  PROVE  BridgeInv'
<1>1. BridgeType /\ UNCHANGED <<admin, resets, cut>>
  BY DEF BridgeInv, UserFrame
<1>2. l \in Labels
  BY DEF Labels
<1>3. /\ job' \in [Users -> JobType] /\ pc' \in [Users -> Labels]
      /\ job'[t] = j /\ pc'[t] = l
      /\ \A u \in Users : u # t => job'[u] = job[u] /\ pc'[u] = pc[u]
  BY <1>1, <1>2, OneUser
<1>4. BridgeType'
  BY <1>1, <1>3 DEF BridgeType, TypeOK
<1>5. /\ ActiveDisks' = ActiveDisks /\ DiskFds' = DiskFds
      /\ \A n : Safe(n)' <=> Safe(n)
      /\ \A u \in Users : u # t => (Holds(u)' <=> Holds(u))
      /\ LockIsHeld' /\ NetsHaveNone' /\ FillIsKnown'
      /\ \A u \in Users : u # t /\ pc'[u] = "use" /\ ~job'[u].late =>
           /\ job'[u].slot < count' /\ job'[u].slot \in ActiveDisks'
           /\ devices'[job'[u].slot].id.file = job'[u].file /\ job'[u].file \in Files
      /\ \A u \in Users : u # t /\ pc'[u] = "done" /\ job'[u].got # job'[u].file =>
           job'[u].late \/ (cut' /\ job'[u].fd = 0)
  BY <1>1, <1>3, OutsideKeeps
<1>6. \A u \in Users : (Holds(u)' <=> Holds(u)) /\ (Holds(u) => job'[u] = job[u])
  BY <1>3, <1>5 DEF Holds
<1>7. HoldersAreBacked' /\ NoneIsShared'
  BY <1>5, <1>6 DEF BridgeInv, HoldersAreBacked, NoneIsShared
<1>8. DisksAreBacked'
  BY <1>1, <1>5 DEF BridgeInv, DisksAreBacked
<1>9. HeldFds' = HeldFds
  BY <1>6, HeldAre DEF HeldFds, Holding, Adding, Holds
<1>10. DescriptorsAccounted'
  BY <1>5, <1>9 DEF BridgeInv, DescriptorsAccounted
<1>11. FoundIsThere' /\ StrayIoNeedsReset'
  BY <1>1, <1>3, <1>5 DEF FoundIsThere, StrayIoNeedsReset
<1> QED BY <1>4, <1>5, <1>7, <1>8, <1>10, <1>11 DEF BridgeInv

\* lkl_hurd_add_disk opens the image.
LEMMA AddOpenKeeps ==
  ASSUME BridgeInv, NEW t \in Users, AddOpen(t)
  PROVE  BridgeInv'
<1>1. /\ pc[t] = "idle" /\ CanOpen(fds)
      /\ UNCHANGED <<devices, count, lock, lost, admin, resets, cut>>
      /\ pc' = [pc EXCEPT ![t] = "opened"]
  BY DEF AddOpen, UserFrame, Goto
<1>2. PICK f \in Files, n \in Names :
        /\ fds' = AfterOpen(fds, f)
        /\ job' = [job EXCEPT ![t] = [NoJob EXCEPT !.dev =
                     [active |-> TRUE, id |-> Id("disk", n, f), fd |-> NewFd(fds)]]]
  BY DEF AddOpen
<1> DEFINE dev == [active |-> TRUE, id |-> Id("disk", n, f), fd |-> NewFd(fds)]
<1> DEFINE j == [NoJob EXCEPT !.dev = dev]
<1>3. BridgeType /\ fds \in FdTables
  BY Types DEF BridgeInv
<1>4. /\ fds' \in FdTables
      /\ NewFd(fds) \in Fds /\ fds[NewFd(fds)] = NoFile
      /\ fds'[NewFd(fds)] = f
      /\ \A m \in Fds : m # NewFd(fds) => fds'[m] = fds[m]
      /\ \A m \in Fds : fds[m] \in Files => fds'[m] = fds[m]
  BY <1>1, <1>2, <1>3, OpenKeeps
<1>5. dev \in DeviceType
  BY <1>4 DEF DeviceType, Ids, Id
<1>6. j \in JobType /\ j.dev = dev
  BY <1>5, NoJobType DEF JobType, NoJob
<1> HIDE DEF j
<1>7. /\ job' \in [Users -> JobType] /\ pc' \in [Users -> Labels]
      /\ job'[t] = j /\ pc'[t] = "opened"
      /\ \A u \in Users : u # t => job'[u] = job[u] /\ pc'[u] = pc[u]
  BY <1>1, <1>2, <1>3, <1>6, OneUser DEF Labels, j
<1>8. BridgeType'
  BY <1>1, <1>3, <1>4, <1>7 DEF BridgeType, TypeOK
<1>9. /\ ActiveDisks' = ActiveDisks /\ DiskFds' = DiskFds
      /\ \A m : Safe(m)' <=> Safe(m)
      /\ \A u \in Users : u # t => (Holds(u)' <=> Holds(u))
      /\ LockIsHeld' /\ NetsHaveNone' /\ FillIsKnown'
      /\ \A u \in Users : u # t /\ pc'[u] = "use" /\ ~job'[u].late =>
           /\ job'[u].slot < count' /\ job'[u].slot \in ActiveDisks'
           /\ devices'[job'[u].slot].id.file = job'[u].file /\ job'[u].file \in Files
      /\ \A u \in Users : u # t /\ pc'[u] = "done" /\ job'[u].got # job'[u].file =>
           job'[u].late \/ (cut' /\ job'[u].fd = 0)
  BY <1>1, <1>7, OutsideKeeps
<1>10. Holds(t)' /\ ~Holds(t) /\ dev.fd = NewFd(fds) /\ dev.active
       /\ dev.id.type = "disk" /\ dev.id.file = f
  BY <1>1, <1>7 DEF Holds, Id
<1>11. \A u \in Users : Holds(u) /\ Safe(job[u].dev.fd) => job[u].dev.fd # NewFd(fds)
  BY <1>4, NoFileAssumption DEF BridgeInv, HoldersAreBacked
<1>12. \A i \in ActiveDisks : Safe(devices[i].fd) => devices[i].fd # NewFd(fds)
  BY <1>4, NoFileAssumption DEF BridgeInv, DisksAreBacked
<1>13. HoldersAreBacked'
  <2>1. ASSUME NEW u \in Users, Holds(u)'
        PROVE  /\ job'[u].dev.active /\ job'[u].dev.id.type = "disk"
               /\ job'[u].dev.fd \in Fds /\ job'[u].dev.id.file \in Files
               /\ Safe(job[u].dev.fd)' => fds'[job'[u].dev.fd] = job'[u].dev.id.file
    <3>1. CASE u = t
      BY <1>4, <1>6, <1>7, <1>10, <3>1
    <3>2. CASE u # t
      <4>1. Holds(u) /\ job'[u] = job[u]
        BY <1>7, <1>9, <2>1, <3>2
      <4> QED BY <1>1, <1>4, <4>1 DEF BridgeInv, HoldersAreBacked, Safe
    <3> QED BY <3>1, <3>2
  <2>2. ASSUME NEW s \in Users, NEW u \in Users, Holds(s)', Holds(u)',
               job'[s].dev.fd = job'[u].dev.fd, Safe(job[s].dev.fd)'
        PROVE  s = u
    <3>1. Safe(job'[s].dev.fd)
      BY <1>1, <2>2 DEF Safe
    <3>2. \A v \in Users : v # t /\ Holds(v)' => Holds(v) /\ job'[v] = job[v]
      BY <1>7, <1>9
    <3>3. CASE s # t /\ u # t
      BY <2>2, <3>1, <3>2, <3>3 DEF BridgeInv, HoldersAreBacked
    <3>4. CASE s = t \/ u = t
      BY <1>6, <1>7, <1>10, <1>11, <2>2, <3>1, <3>2, <3>4
    <3> QED BY <3>3, <3>4
  <2> QED BY <2>1, <2>2 DEF HoldersAreBacked
<1>14. DisksAreBacked'
  BY <1>1, <1>4, <1>9 DEF BridgeInv, DisksAreBacked, Safe
<1>15. NoneIsShared'
  <2>1. ASSUME NEW i \in ActiveDisks, NEW u \in Users, Holds(u)', Safe(devices[i].fd)
        PROVE  devices[i].fd # job'[u].dev.fd
    <3>1. CASE u = t
      BY <1>6, <1>7, <1>10, <1>12, <2>1, <3>1
    <3>2. CASE u # t
      BY <1>7, <1>9, <2>1, <3>2 DEF BridgeInv, NoneIsShared
    <3> QED BY <3>1, <3>2
  <2> QED BY <1>1, <1>9, <2>1 DEF NoneIsShared, Safe
<1>16. DescriptorsAccounted'
  <2>1. OpenFds(fds') \subseteq OpenFds(fds) \cup {NewFd(fds)}
    BY <1>4 DEF OpenFds
  <2>2. HeldFds' = {job'[u].dev.fd : u \in {v \in Users : Holds(v)'}}
    BY HeldAre DEF HeldFds, Holding, Adding, Holds
  <2>3. HeldFds \subseteq HeldFds' /\ NewFd(fds) \in HeldFds'
    BY <1>6, <1>7, <1>9, <1>10, <2>2, HeldAre
  <2> QED BY <1>1, <1>9, <2>1, <2>3 DEF BridgeInv, DescriptorsAccounted
<1>17. FoundIsThere' /\ StrayIoNeedsReset'
  BY <1>7, <1>9 DEF FoundIsThere, StrayIoNeedsReset
<1> QED BY <1>8, <1>9, <1>13, <1>14, <1>15, <1>16, <1>17 DEF BridgeInv

\* lkl_hurd_add_disk gives its descriptor back.
LEMMA AddRefusedKeeps ==
  ASSUME BridgeInv, NEW t \in Users, AddRefused(t)
  PROVE  BridgeInv'
<1> DEFINE n == job[t].dev.fd
<1>1. /\ pc[t] = "opened" /\ fds' = AfterClose(fds, n)
      /\ UNCHANGED <<devices, count, lock, lost, admin, resets, cut>>
      /\ pc' = [pc EXCEPT ![t] = "idle"] /\ job' = [job EXCEPT ![t] = NoJob]
  BY DEF AddRefused, UserFrame, Return, Goto
<1>2. BridgeType /\ fds \in FdTables
  BY Types DEF BridgeInv
<1>3. /\ fds' \in FdTables
      /\ n \in Fds => fds'[n] = NoFile
      /\ \A m \in Fds : m # n => fds'[m] = fds[m]
  BY <1>1, <1>2, CloseKeeps
<1>4. /\ job' \in [Users -> JobType] /\ pc' \in [Users -> Labels]
      /\ job'[t] = NoJob /\ pc'[t] = "idle"
      /\ \A u \in Users : u # t => job'[u] = job[u] /\ pc'[u] = pc[u]
  BY <1>1, <1>2, NoJobType, OneUser DEF Labels
<1>5. BridgeType'
  BY <1>1, <1>2, <1>3, <1>4 DEF BridgeType, TypeOK
<1>6. /\ ActiveDisks' = ActiveDisks /\ DiskFds' = DiskFds
      /\ \A m : Safe(m)' <=> Safe(m)
      /\ \A u \in Users : u # t => (Holds(u)' <=> Holds(u))
      /\ LockIsHeld' /\ NetsHaveNone' /\ FillIsKnown'
      /\ \A u \in Users : u # t /\ pc'[u] = "use" /\ ~job'[u].late =>
           /\ job'[u].slot < count' /\ job'[u].slot \in ActiveDisks'
           /\ devices'[job'[u].slot].id.file = job'[u].file /\ job'[u].file \in Files
      /\ \A u \in Users : u # t /\ pc'[u] = "done" /\ job'[u].got # job'[u].file =>
           job'[u].late \/ (cut' /\ job'[u].fd = 0)
  BY <1>1, <1>4, OutsideKeeps
<1>7. ~Holds(t)' /\ Holds(t)
  BY <1>1, <1>4 DEF Holds
<1>8. \A u \in Users : Holds(u)' => u # t /\ Holds(u) /\ job'[u] = job[u]
  BY <1>4, <1>6, <1>7
<1>9. \A u \in Users : Holds(u) /\ u # t /\ Safe(job[u].dev.fd) => job[u].dev.fd # n
  BY <1>7 DEF BridgeInv, HoldersAreBacked
<1>10. \A i \in ActiveDisks : Safe(devices[i].fd) => devices[i].fd # n
  BY <1>7 DEF BridgeInv, NoneIsShared
<1> HIDE DEF n
<1>11. HoldersAreBacked'
  <2>1. ASSUME NEW u \in Users, Holds(u)'
        PROVE  /\ job'[u].dev.active /\ job'[u].dev.id.type = "disk"
               /\ job'[u].dev.fd \in Fds /\ job'[u].dev.id.file \in Files
               /\ Safe(job[u].dev.fd)' => fds'[job'[u].dev.fd] = job'[u].dev.id.file
    <3>1. u # t /\ Holds(u) /\ job'[u] = job[u]
      BY <1>8, <2>1
    <3> QED BY <1>1, <1>3, <1>9, <3>1 DEF BridgeInv, HoldersAreBacked, Safe
  <2>2. \A s, u \in Users :
          Holds(s)' /\ Holds(u)' /\ job'[s].dev.fd = job'[u].dev.fd /\ Safe(job[s].dev.fd)'
            => s = u
    BY <1>1, <1>8 DEF BridgeInv, HoldersAreBacked, Safe
  <2> QED BY <2>1, <2>2 DEF HoldersAreBacked
<1>12. DisksAreBacked'
  BY <1>1, <1>3, <1>6, <1>10 DEF BridgeInv, DisksAreBacked, Safe
<1>13. NoneIsShared'
  BY <1>1, <1>6, <1>8 DEF BridgeInv, NoneIsShared, Safe
<1>14. DescriptorsAccounted'
  <2>1. OpenFds(fds') \subseteq OpenFds(fds) \ {n}
    BY <1>3 DEF OpenFds
  <2>2. HeldFds' = {job'[u].dev.fd : u \in {v \in Users : Holds(v)'}}
    BY HeldAre DEF HeldFds, Holding, Adding, Holds
  <2>3. HeldFds \subseteq HeldFds' \cup {n}
    BY <1>4, <1>6, <2>2, HeldAre DEF n
  <2> QED BY <1>1, <1>6, <2>1, <2>3 DEF BridgeInv, DescriptorsAccounted
<1>15. FoundIsThere' /\ StrayIoNeedsReset'
  BY <1>4, <1>6 DEF FoundIsThere, StrayIoNeedsReset
<1> QED BY <1>5, <1>6, <1>11, <1>12, <1>13, <1>14, <1>15 DEF BridgeInv

\* A call takes the lock, and chooses the slot behind the last device.
LEMMA LockKeeps ==
  ASSUME BridgeInv, NEW t \in Users, NEW j \in JobType,
         job' = [job EXCEPT ![t] = j], pc' = [pc EXCEPT ![t] = "adding"],
         lock = NoUser, lock' = t, count < MaxDevices,
         UNCHANGED <<fds, devices, count, lost, admin, resets, cut>>,
         j.slot = count, j.todo = Fields \cup {"count"}, j.dev.active,
         \/ pc[t] = "opened" /\ j.dev = job[t].dev
         \/ pc[t] = "idle" /\ j.dev.id.type = "net" /\ j.dev.fd = -1
  PROVE  BridgeInv'
<1>1. BridgeType /\ count \in Nat
  BY Types DEF BridgeInv
<1>2. /\ job' \in [Users -> JobType] /\ pc' \in [Users -> Labels]
      /\ job'[t] = j /\ pc'[t] = "adding"
      /\ \A u \in Users : u # t => job'[u] = job[u] /\ pc'[u] = pc[u]
  BY <1>1, OneUser DEF Labels
<1>3. BridgeType'
  BY <1>1, <1>2 DEF BridgeType, TypeOK
<1>4. \A u \in Users : pc[u] # "adding" /\ (pc'[u] = "adding" <=> u = t)
  BY <1>2, BridgeAssumption DEF BridgeInv, LockIsHeld
<1>5. Adding = {} /\ Adding' = {t}
  BY <1>4 DEF Adding
<1>6. \A i \in Slots : i \in ActiveDisks' <=> i \in ActiveDisks /\ i # count
  BY <1>2, <1>5 DEF ActiveDisks
<1>7. DiskFds' = DiskFds
  <2>1. {i \in ActiveDisks' : i < count} = {i \in ActiveDisks : i < count}
    BY <1>1, <1>6 DEF ActiveDisks
  <2> QED BY <2>1 DEF DiskFds
<1>8. \A u \in Users : (Holds(u)' <=> Holds(u)) /\ (Holds(u) => job'[u].dev = job[u].dev)
  <2>1. pc[t] = "opened" => j.dev.id.type = "disk"
    BY DEF BridgeInv, HoldersAreBacked, Holds
  <2>2. (Holds(t)' <=> Holds(t)) /\ (Holds(t) => job'[t].dev = job[t].dev)
    BY <1>2, <2>1 DEF Holds
  <2>3. \A u \in Users : u # t => (Holds(u)' <=> Holds(u)) /\ job'[u].dev = job[u].dev
    BY <1>2 DEF Holds
  <2> QED BY <2>2, <2>3
<1>9. LockIsHeld'
  BY <1>4 DEF LockIsHeld
<1>10. HoldersAreBacked'
  BY <1>8 DEF BridgeInv, HoldersAreBacked, Safe
<1>11. DisksAreBacked'
  <2>1. \A i \in ActiveDisks' : i \in ActiveDisks
    BY <1>6 DEF ActiveDisks
  <2> QED BY <2>1 DEF BridgeInv, DisksAreBacked, Safe
<1>12. NoneIsShared'
  <2>1. \A i \in ActiveDisks' : i \in ActiveDisks
    BY <1>6 DEF ActiveDisks
  <2> QED BY <1>8, <2>1 DEF BridgeInv, NoneIsShared, Safe
<1>13. NetsHaveNone'
  BY <1>5 DEF BridgeInv, NetsHaveNone
<1>14. FillIsKnown'
  <2>1. "net" = j.dev.id.type => j.dev.fd = -1
    BY DEF BridgeInv, HoldersAreBacked, Holds
  <2>2. {"id", "fd", "active", "count"} \subseteq j.todo
    BY DEF Fields
  <2>3. FillOf(job[t])'
    BY <1>1, <1>2, <2>1, <2>2 DEF FillOf
  <2> QED BY <1>4, <2>3 DEF FillIsKnown
<1>15. HeldFds' = HeldFds
  BY <1>8, HeldAre DEF HeldFds, Holding, Adding, Holds
<1>16. DescriptorsAccounted'
  BY <1>7, <1>15 DEF BridgeInv, DescriptorsAccounted
<1>17. FoundIsThere'
  <2>1. ASSUME NEW u \in Users, pc'[u] = "use", ~job'[u].late
        PROVE  /\ job'[u].slot < count' /\ job'[u].slot \in ActiveDisks'
               /\ devices'[job'[u].slot].id.file = job'[u].file /\ job'[u].file \in Files
    <3>1. u # t /\ job'[u] = job[u] /\ pc[u] = "use"
      BY <1>2, <2>1
    <3>2. job[u].slot < count /\ job[u].slot \in ActiveDisks
      BY <2>1, <3>1 DEF BridgeInv, FoundIsThere
    <3>3. job[u].slot \in Slots /\ job[u].slot # count
      BY <1>1, <3>2 DEF ActiveDisks
    <3> QED BY <1>6, <2>1, <3>1, <3>2, <3>3 DEF BridgeInv, FoundIsThere
  <2> QED BY <2>1 DEF FoundIsThere
<1>18. StrayIoNeedsReset'
  BY <1>2 DEF BridgeInv, StrayIoNeedsReset
<1> QED BY <1>3, <1>9, <1>10, <1>11, <1>12, <1>13, <1>14, <1>16, <1>17, <1>18 DEF BridgeInv

\* lkl_hurd_add_disk takes the lock and finds room.
LEMMA AddLockKeeps ==
  ASSUME BridgeInv, NEW t \in Users, AddLock(t)
  PROVE  BridgeInv'
<1> DEFINE j == [job[t] EXCEPT !.slot = count, !.todo = Fields \cup {"count"}]
<1>1. /\ pc[t] = "opened" /\ lock = NoUser /\ count < MaxDevices /\ lock' = t
      /\ UNCHANGED <<fds, devices, count, lost, admin, resets, cut>>
      /\ pc' = [pc EXCEPT ![t] = "adding"]
  BY DEF AddLock, UserFrame, Goto
<1>2. BridgeType /\ count \in Slots /\ job[t] \in JobType /\ job \in [Users -> JobType]
  BY <1>1, Types DEF BridgeInv
<1>3. j \in JobType /\ j.slot = count /\ j.todo = Fields \cup {"count"} /\ j.dev = job[t].dev
  BY <1>2 DEF JobType
<1>4. job' = [job EXCEPT ![t] = j]
  BY <1>2 DEF AddLock
<1>5. j.dev.active
  BY <1>1, <1>3 DEF BridgeInv, HoldersAreBacked, Holds
<1> QED BY <1>1, <1>3, <1>4, <1>5, LockKeeps

\* lkl_hurd_add_netif takes the lock and finds room.
LEMMA NetLockKeeps ==
  ASSUME BridgeInv, NEW t \in Users, NetLock(t)
  PROVE  BridgeInv'
<1>1. /\ pc[t] = "idle" /\ lock = NoUser /\ count < MaxDevices /\ lock' = t
      /\ UNCHANGED <<fds, devices, count, lost, admin, resets, cut>>
      /\ pc' = [pc EXCEPT ![t] = "adding"]
  BY DEF NetLock, UserFrame, Goto
<1>2. PICK n \in Names :
        job' = [job EXCEPT ![t] = [NoJob EXCEPT
                  !.slot = count, !.todo = Fields \cup {"count"},
                  !.dev = [active |-> TRUE, id |-> Id("net", n, NoFile), fd |-> -1]]]
  BY DEF NetLock
<1> DEFINE dev == [active |-> TRUE, id |-> Id("net", n, NoFile), fd |-> -1]
<1> DEFINE j == [NoJob EXCEPT !.slot = count, !.todo = Fields \cup {"count"}, !.dev = dev]
<1>3. count \in Slots
  BY <1>1, Types DEF BridgeInv
<1>4. dev \in DeviceType /\ dev.id.type = "net"
  BY DEF DeviceType, Ids, Id
<1>5. j \in JobType /\ j.slot = count /\ j.todo = Fields \cup {"count"} /\ j.dev = dev
  BY <1>3, <1>4, NoJobType DEF JobType, NoJob
<1>6. job' = [job EXCEPT ![t] = j]
  BY <1>2
<1>7. j.dev.active /\ j.dev.id.type = "net" /\ j.dev.fd = -1
  BY <1>4, <1>5
<1> HIDE DEF j
<1> QED BY <1>1, <1>5, <1>6, <1>7, LockKeeps

\* A store into the slot.
LEMMA AddStoreKeeps ==
  ASSUME BridgeInv, NEW t \in Users, AddStore(t)
  PROVE  BridgeInv'
<1> DEFINE s == job[t].slot
<1>1. /\ pc[t] = "adding"
      /\ UNCHANGED <<fds, count, lock, lost, pc, admin, resets, cut>>
  BY DEF AddStore, UserFrame
<1>2. PICK x \in job[t].todo \ {"count"} :
        /\ devices' = [devices EXCEPT ![s] = Stored(@, x, job[t].dev)]
        /\ job' = [job EXCEPT ![t].todo = @ \ {x}]
  BY DEF AddStore
<1>3. BridgeType /\ s \in Slots /\ job[t] \in JobType /\ devices[s] \in DeviceType
      /\ job[t].dev \in DeviceType /\ devices \in [Slots -> DeviceType]
      /\ job \in [Users -> JobType]
  BY Types DEF BridgeInv, JobType
<1>4. x \in Fields
  BY <1>3 DEF JobType
<1> DEFINE d == devices[s]
<1> DEFINE e == job[t].dev
<1>5. PICK d1 \in DeviceType :
        /\ devices' = [devices EXCEPT ![s] = d1]
        /\ d1.active = (IF x = "active" THEN e.active ELSE d.active)
        /\ d1.id = (IF x = "id" THEN e.id ELSE d.id)
        /\ d1.fd = (IF x = "fd" THEN e.fd ELSE d.fd)
  <2> DEFINE d1 == Stored(d, x, e)
  <2>1. devices' = [devices EXCEPT ![s] = d1]
    BY <1>2, <1>3
  <2>2. d1 \in DeviceType
    BY <1>3 DEF DeviceType, Stored
  <2> QED BY <2>1, <2>2 DEF Stored
<1>6. /\ devices'[s] = d1 /\ devices' \in [Slots -> DeviceType]
      /\ \A i \in Slots : i # s => devices'[i] = devices[i]
  BY <1>3, <1>5
<1>7. PICK j \in JobType : /\ job' = [job EXCEPT ![t] = j] /\ j.dev = e /\ j.slot = s
                           /\ j.todo = job[t].todo \ {x}
  <2> DEFINE j == [job[t] EXCEPT !.todo = @ \ {x}]
  <2>1. job' = [job EXCEPT ![t] = j]
    BY <1>2, <1>3
  <2>2. j \in JobType
    BY <1>3 DEF JobType
  <2>3. j.dev = e /\ j.slot = s /\ j.todo = job[t].todo \ {x}
    BY <1>3 DEF JobType
  <2> QED BY <2>1, <2>2, <2>3
<1>8. /\ job' \in [Users -> JobType] /\ job'[t] = j
      /\ \A u \in Users : u # t => job'[u] = job[u]
  BY <1>3, <1>7
<1>9. BridgeType'
  BY <1>1, <1>3, <1>6, <1>8 DEF BridgeType, TypeOK, DeviceType
<1>10. \A u \in Users : pc[u] = "adding" <=> u = t
  BY <1>1 DEF BridgeInv, LockIsHeld
<1>11. Adding = {t} /\ Adding' = {t}
  BY <1>1, <1>10 DEF Adding
<1>12. ActiveDisks' = ActiveDisks /\ s \notin ActiveDisks
  BY <1>6, <1>7, <1>8, <1>11 DEF ActiveDisks
<1>13. \A i \in ActiveDisks : devices'[i] = devices[i]
  BY <1>6, <1>12 DEF ActiveDisks
<1>14. \A u \in Users : (Holds(u)' <=> Holds(u)) /\ job'[u].dev = job[u].dev
  BY <1>1, <1>7, <1>8 DEF Holds
<1>15. LockIsHeld' /\ HoldersAreBacked'
  <2>1. LockIsHeld'
    BY <1>1 DEF BridgeInv, LockIsHeld
  <2>2. HoldersAreBacked'
    BY <1>1, <1>14 DEF BridgeInv, HoldersAreBacked, Safe
  <2> QED BY <2>1, <2>2
<1>16. DisksAreBacked' /\ NoneIsShared'
  <2>1. DisksAreBacked'
    BY <1>1, <1>12, <1>13 DEF BridgeInv, DisksAreBacked, Safe
  <2>2. NoneIsShared'
    BY <1>1, <1>12, <1>13, <1>14 DEF BridgeInv, NoneIsShared, Safe
  <2> QED BY <2>1, <2>2
<1>17. NetsHaveNone'
  <2>1. ASSUME NEW i \in Slots, devices'[i].active, devices'[i].id.type = "net",
               \A u \in Adding' : job'[u].slot # i
        PROVE  devices'[i].fd = -1 \/ (cut' /\ devices'[i].fd = 0)
    <3>1. i # s /\ devices'[i] = devices[i]
      BY <1>6, <1>7, <1>8, <1>11, <2>1
    <3>2. \A u \in Adding : job[u].slot # i
      BY <1>11, <3>1
    <3> QED BY <1>1, <2>1, <3>1, <3>2 DEF BridgeInv, NetsHaveNone
  <2> QED BY <2>1 DEF NetsHaveNone
<1>18. FillIsKnown'
  <2>1. FillOf(job[t])
    BY <1>1 DEF BridgeInv, FillIsKnown
  <2>2. x \in job[t].todo \cap Fields
    BY <1>4
  <2>3. "id" \notin j.todo => d1.id = e.id \/ ("id" \notin job[t].todo /\ d1.id = d.id)
    BY <1>5, <1>7
  <2>4. "fd" \notin j.todo => d1.fd = e.fd \/ ("fd" \notin job[t].todo /\ d1.fd = d.fd)
    BY <1>5, <1>7
  <2>5. "active" \notin j.todo => d1.active \/ ("active" \notin job[t].todo /\ d1.active = d.active)
    BY <1>5, <1>7, <2>1 DEF FillOf
  <2>6. "count" \in j.todo <=> "count" \in job[t].todo
    BY <1>2, <1>7
  <2>7. /\ "id" \notin j.todo => d1.id \in {e.id, Blank.id}
        /\ "fd" \notin j.todo => d1.fd \in {e.fd, 0}
    BY <2>1, <2>3, <2>4 DEF FillOf
  <2>8. \/ cut
        \/ /\ "id" \notin j.todo => d1.id = e.id
           /\ "fd" \notin j.todo => d1.fd = e.fd
    BY <2>1, <2>2, <2>3, <2>4 DEF FillOf
  <2>9. \/ e.fd \in lost
        \/ /\ "active" \notin j.todo => d1.active
           /\ "fd" \notin j.todo => d1.fd = e.fd
           /\ "count" \notin j.todo => s < count
    BY <2>1, <2>4, <2>5, <2>6 DEF FillOf
  <2>10. e.active /\ (e.id.type = "net" => e.fd = -1) /\ ("count" \in j.todo => count <= s)
    BY <2>1, <2>6 DEF FillOf
  <2>11. FillOf(job[t])'
    BY <1>1, <1>6, <1>7, <1>8, <2>7, <2>8, <2>9, <2>10 DEF FillOf
  <2> QED BY <1>1, <1>10, <2>11 DEF FillIsKnown
<1>19. DescriptorsAccounted'
  <2>1. DiskFds' = DiskFds
    BY <1>1, <1>12, <1>13 DEF DiskFds
  <2>2. HeldFds' = HeldFds
    BY <1>14, HeldAre DEF HeldFds, Holding, Adding, Holds
  <2> QED BY <1>1, <2>1, <2>2 DEF BridgeInv, DescriptorsAccounted
<1>20. FoundIsThere' /\ StrayIoNeedsReset'
  <2>1. \A u \in Users : pc[u] # "adding" => job'[u] = job[u]
    BY <1>1, <1>8
  <2>2. FoundIsThere'
    BY <1>1, <1>12, <1>13, <2>1 DEF BridgeInv, FoundIsThere
  <2>3. StrayIoNeedsReset'
    BY <1>1, <2>1 DEF BridgeInv, StrayIoNeedsReset
  <2> QED BY <2>2, <2>3
<1> QED BY <1>9, <1>15, <1>16, <1>17, <1>18, <1>19, <1>20 DEF BridgeInv

\* device_count++ covers the slot, unless init has reset the count in between.
LEMMA AddCountKeeps ==
  ASSUME BridgeInv, NEW t \in Users, AddCount(t)
  PROVE  BridgeInv'
<1>1. /\ pc[t] = "adding" /\ "count" \in job[t].todo
      /\ UNCHANGED <<fds, devices, lock, pc, admin, resets, cut>>
      /\ job' = [job EXCEPT ![t].todo = @ \ {"count"}]
  BY DEF AddCount, UserFrame
<1>2. PICK n \in {count, job[t].slot} :
        /\ count' = n + 1
        /\ lost' = lost \cup (IF n < job[t].slot THEN {job[t].dev.fd} ELSE {})
  BY DEF AddCount
<1>3. BridgeType /\ job[t] \in JobType /\ job \in [Users -> JobType]
      /\ count \in Nat /\ MaxDevices \in Nat
      /\ job[t].slot \in Nat /\ job[t].slot < MaxDevices
  BY Types, BridgeAssumption DEF BridgeInv, JobType
<1>4. FillOf(job[t]) /\ count <= job[t].slot
  BY <1>1 DEF BridgeInv, FillIsKnown, FillOf
<1>5. n \in Nat /\ count <= n /\ count' \in 0 .. MaxDevices /\ count < count' /\ n < count'
  BY <1>2, <1>3, <1>4
<1>6. PICK j \in JobType : /\ job' = [job EXCEPT ![t] = j]
                           /\ j.dev = job[t].dev /\ j.slot = job[t].slot
                           /\ j.todo = job[t].todo \ {"count"}
  <2> DEFINE j == [job[t] EXCEPT !.todo = @ \ {"count"}]
  <2>1. job' = [job EXCEPT ![t] = j]
    BY <1>1, <1>3
  <2>2. j \in JobType
    BY <1>3 DEF JobType
  <2>3. j.dev = job[t].dev /\ j.slot = job[t].slot /\ j.todo = job[t].todo \ {"count"}
    BY <1>3 DEF JobType
  <2> QED BY <2>1, <2>2, <2>3
<1>7. /\ job' \in [Users -> JobType] /\ job'[t] = j
      /\ \A u \in Users : u # t => job'[u] = job[u]
  BY <1>3, <1>6
<1>8. BridgeType'
  <2>1. lost' \subseteq Fds \cup {-1}
    BY <1>2, <1>3, Types DEF JobType, DeviceType
  <2> QED BY <1>1, <1>3, <1>5, <1>7, <2>1 DEF BridgeType, TypeOK
<1>9. \A u \in Users : pc[u] = "adding" <=> u = t
  BY <1>1 DEF BridgeInv, LockIsHeld
<1>10. Adding = {t} /\ Adding' = {t}
  BY <1>1, <1>9 DEF Adding
<1>11. ActiveDisks' = ActiveDisks
  BY <1>1, <1>6, <1>7, <1>10 DEF ActiveDisks
<1>12. \A u \in Users : (Holds(u)' <=> Holds(u)) /\ job'[u].dev = job[u].dev
  BY <1>1, <1>6, <1>7 DEF Holds
<1>13. LockIsHeld' /\ HoldersAreBacked'
  <2>1. LockIsHeld'
    BY <1>1 DEF BridgeInv, LockIsHeld
  <2>2. HoldersAreBacked'
    BY <1>1, <1>12 DEF BridgeInv, HoldersAreBacked, Safe
  <2> QED BY <2>1, <2>2
<1>14. DisksAreBacked' /\ NoneIsShared'
  <2>1. DisksAreBacked'
    BY <1>1, <1>11 DEF BridgeInv, DisksAreBacked, Safe
  <2>2. NoneIsShared'
    BY <1>1, <1>11, <1>12 DEF BridgeInv, NoneIsShared, Safe
  <2> QED BY <2>1, <2>2
<1>15. NetsHaveNone'
  BY <1>1, <1>6, <1>7, <1>10 DEF BridgeInv, NetsHaveNone
<1>16. FillIsKnown'
  <2>1. j.todo \cap Fields = job[t].todo \cap Fields
        /\ \A x \in Fields : x \in j.todo <=> x \in job[t].todo
    BY <1>6 DEF Fields
  <2>2. "count" \notin j.todo /\ {"id", "fd", "active"} \subseteq Fields
    BY <1>6 DEF Fields
  <2>3. j.dev.fd \in lost' \/ j.slot < count'
    <3>1. CASE n < j.slot
      BY <1>2, <1>6, <3>1
    <3>2. CASE ~(n < j.slot)
      BY <1>3, <1>5, <1>6, <3>2
    <3> QED BY <3>1, <3>2
  <2>4. j.dev.fd \in lost => j.dev.fd \in lost'
    BY <1>2
  <2>5. FillOf(job[t])'
    BY <1>1, <1>4, <1>6, <1>7, <2>1, <2>2, <2>3, <2>4 DEF FillOf
  <2> QED BY <1>1, <1>9, <2>5 DEF FillIsKnown
<1>17. DescriptorsAccounted'
  <2>1. DiskFds \subseteq DiskFds'
    <3>1. \A i \in ActiveDisks : i < count => i < count'
      BY <1>3, <1>5 DEF ActiveDisks, Slots
    <3> QED BY <1>1, <1>11, <3>1 DEF DiskFds
  <2>2. HeldFds' = HeldFds
    BY <1>12, HeldAre DEF HeldFds, Holding, Adding, Holds
  <2>3. lost \subseteq lost'
    BY <1>2
  <2> QED BY <1>1, <2>1, <2>2, <2>3 DEF BridgeInv, DescriptorsAccounted
<1>18. FoundIsThere' /\ StrayIoNeedsReset'
  <2>1. \A u \in Users : pc[u] # "adding" => job'[u] = job[u]
    BY <1>1, <1>7
  <2>2. FoundIsThere'
    <3>1. \A i \in ActiveDisks : i < count => i < count'
      BY <1>3, <1>5 DEF ActiveDisks, Slots
    <3> QED BY <1>1, <1>11, <2>1, <3>1 DEF BridgeInv, FoundIsThere
  <2>3. StrayIoNeedsReset'
    BY <1>1, <2>1 DEF BridgeInv, StrayIoNeedsReset
  <2> QED BY <2>2, <2>3
<1> QED BY <1>8, <1>13, <1>14, <1>15, <1>16, <1>17, <1>18 DEF BridgeInv

\* The new device joins the table, as far as init has left it there.
LEMMA AddUnlockKeeps ==
  ASSUME BridgeInv, NEW t \in Users, AddUnlock(t)
  PROVE  BridgeInv'
<1> DEFINE s == job[t].slot
<1> DEFINE d == devices[s]
<1> DEFINE e == job[t].dev
<1>1. /\ pc[t] = "adding" /\ job[t].todo = {} /\ lock' = NoUser
      /\ UNCHANGED <<fds, devices, count, lost, admin, resets, cut>>
      /\ pc' = [pc EXCEPT ![t] = "idle"] /\ job' = [job EXCEPT ![t] = NoJob]
  BY DEF AddUnlock, UserFrame, Return, Goto
<1>2. BridgeType /\ s \in Slots /\ d \in DeviceType /\ e \in DeviceType
  BY Types DEF BridgeInv, JobType
<1>3. /\ job' \in [Users -> JobType] /\ pc' \in [Users -> Labels]
      /\ job'[t] = NoJob /\ pc'[t] = "idle"
      /\ \A u \in Users : u # t => job'[u] = job[u] /\ pc'[u] = pc[u]
  BY <1>1, <1>2, NoJobType, OneUser DEF Labels
<1>4. BridgeType'
  BY <1>1, <1>2, <1>3 DEF BridgeType, TypeOK
<1>5. \A u \in Users : pc'[u] # "adding" /\ (pc[u] = "adding" => u = t)
  BY <1>1, <1>3 DEF BridgeInv, LockIsHeld
<1>6. Adding = {t} /\ Adding' = {}
  BY <1>1, <1>5 DEF Adding
<1>7. LockIsHeld' /\ FillIsKnown'
  BY <1>1, <1>5, BridgeAssumption DEF LockIsHeld, FillIsKnown
<1>8. \A i \in ActiveDisks' : /\ i = s => d.active /\ d.id.type = "disk"
                              /\ i # s => i \in ActiveDisks
  BY <1>1, <1>6 DEF ActiveDisks
<1>9. ActiveDisks \subseteq ActiveDisks' /\ (d.active /\ d.id.type = "disk" => s \in ActiveDisks')
  BY <1>1, <1>2, <1>6 DEF ActiveDisks
<1>10. FillOf(job[t])
  BY <1>1 DEF BridgeInv, FillIsKnown
<1>11. /\ e.id.type = "net" => e.fd = -1
       /\ d.id \in {e.id, Blank.id} /\ d.fd \in {e.fd, 0}
       /\ d.active /\ ~cut => d.id = e.id /\ d.fd = e.fd
       /\ e.fd \in lost \/ (d.active /\ d.fd = e.fd /\ s < count)
  BY <1>1, <1>10 DEF FillOf
<1>12. e.id.type = "disk" =>
         /\ Holds(t) /\ e.fd \in Fds /\ e.id.file \in Files
         /\ Safe(e.fd) => fds[e.fd] = e.id.file
  BY <1>1 DEF BridgeInv, HoldersAreBacked, Holds
<1>13. e.id.type \in {"disk", "net"} /\ -1 \notin Fds
  BY <1>2, NFdsAssumption DEF DeviceType, Ids, Fds
<1>14. ASSUME d.active, d.id.type = "disk", Safe(d.fd)
       PROVE  d.fd = e.fd /\ Holds(t) /\ Safe(e.fd)
  <2>1. CASE cut
    BY <1>11, <1>12, <1>13, <1>14, <2>1 DEF Safe
  <2>2. CASE ~cut
    BY <1>11, <1>12, <1>14, <2>2
  <2> QED BY <2>1, <2>2
<1>15. ~Holds(t)' /\ \A u \in Users : Holds(u)' => u # t /\ Holds(u) /\ job'[u] = job[u]
  BY <1>3 DEF Holds
<1>16. HoldersAreBacked'
  BY <1>1, <1>15 DEF BridgeInv, HoldersAreBacked, Safe
<1> HIDE DEF e
<1>17. DisksAreBacked'
  <2>1. ASSUME d.active, d.id.type = "disk"
        PROVE  /\ Safe(d.fd) => /\ d.fd \in Fds /\ fds[d.fd] \in Files
                                /\ d.id.file \in {NoFile, fds[d.fd]}
               /\ ~cut => d.fd # -1 /\ d.id.file \in Files
               /\ d.id.file # NoFile => d.fd # -1
               /\ d.id.name \in Names => d.id.file \in Files
    <3>1. d.id = e.id \/ (d.id.file = NoFile /\ d.id.name = NoFile)
      BY <1>11, BlankType
    <3>2. Safe(d.fd) => e.id.type = "disk"
      BY <1>13, <1>11, <1>14, <2>1 DEF Safe
    <3>3. Safe(d.fd) => /\ d.fd \in Fds /\ fds[d.fd] \in Files
                        /\ d.id.file \in {NoFile, fds[d.fd]}
      BY <1>12, <1>14, <2>1, <3>1, <3>2
    <3>4. ~cut => d.fd # -1 /\ d.id.file \in Files
      BY <1>11, <1>12, <1>13, <2>1
    <3>5. d.id.file # NoFile => d.fd # -1
      BY <1>11, <1>12, <1>13, <2>1, <3>1
    <3>6. d.id.name \in Names => d.id.file \in Files
      BY <1>12, <2>1, <3>1, BridgeAssumption
    <3> QED BY <3>3, <3>4, <3>5, <3>6
  <2>2. ASSUME NEW i \in ActiveDisks, d.active, d.id.type = "disk", Safe(d.fd)
        PROVE  devices[i].fd # d.fd
    BY <1>14, <2>2 DEF BridgeInv, NoneIsShared, e
  <2>3. ASSUME NEW i \in ActiveDisks'
        PROVE  /\ Safe(devices[i].fd) =>
                    /\ devices[i].fd \in Fds /\ fds[devices[i].fd] \in Files
                    /\ devices[i].id.file \in {NoFile, fds[devices[i].fd]}
               /\ ~cut => devices[i].fd # -1 /\ devices[i].id.file \in Files
               /\ devices[i].id.file # NoFile => devices[i].fd # -1
               /\ devices[i].id.name \in Names => devices[i].id.file \in Files
    <3>1. CASE i = s
      BY <1>8, <2>1, <2>3, <3>1
    <3>2. CASE i # s
      BY <1>8, <2>3, <3>2 DEF BridgeInv, DisksAreBacked
    <3> QED BY <3>1, <3>2
  <2>4. ASSUME NEW i \in ActiveDisks', NEW k \in ActiveDisks',
               devices[i].fd = devices[k].fd, Safe(devices[i].fd)
        PROVE  i = k
    <3>1. CASE i # s /\ k # s
      BY <1>8, <2>4, <3>1 DEF BridgeInv, DisksAreBacked
    <3>2. CASE i = s /\ k # s
      BY <1>8, <2>2, <2>4, <3>2
    <3>3. CASE i # s /\ k = s
      BY <1>8, <2>2, <2>4, <3>3
    <3> QED BY <3>1, <3>2, <3>3
  <2> QED BY <1>1, <2>3, <2>4 DEF DisksAreBacked, Safe
<1>18. NoneIsShared'
  <2>1. ASSUME NEW i \in ActiveDisks', NEW u \in Users, Holds(u), u # t, Safe(devices[i].fd)
        PROVE  devices[i].fd # job[u].dev.fd
    <3>1. CASE i # s
      BY <1>8, <2>1, <3>1 DEF BridgeInv, NoneIsShared
    <3>2. CASE i = s
      BY <1>8, <1>14, <2>1, <3>2 DEF BridgeInv, HoldersAreBacked, e
    <3> QED BY <3>1, <3>2
  <2> QED BY <1>1, <1>15, <2>1 DEF NoneIsShared, Safe
<1>19. NetsHaveNone'
  <2>1. ASSUME NEW i \in Slots, devices[i].active, devices[i].id.type = "net"
        PROVE  devices[i].fd = -1 \/ (cut /\ devices[i].fd = 0)
    <3>1. CASE i # s
      BY <1>6, <2>1, <3>1 DEF BridgeInv, NetsHaveNone
    <3>2. CASE i = s
      <4>1. d.id = e.id /\ e.fd = -1
        BY <1>11, <2>1, <3>2, BlankType
      <4> QED BY <1>11, <2>1, <3>2, <4>1
    <3> QED BY <3>1, <3>2
  <2> QED BY <1>1, <2>1 DEF NetsHaveNone
<1>20. DescriptorsAccounted'
  <2>1. DiskFds \subseteq DiskFds'
    BY <1>1, <1>9 DEF DiskFds
  <2>2. e.id.type = "disk" => e.fd \in lost \cup DiskFds'
    <3>1. CASE e.fd \in lost
      BY <3>1
    <3>2. CASE d.active /\ d.fd = e.fd /\ s < count
      BY <1>1, <1>9, <1>11, <3>2, BlankType DEF DiskFds
    <3> QED BY <1>11, <3>1, <3>2
  <2>3. HeldFds' = {job'[u].dev.fd : u \in {v \in Users : Holds(v)'}}
    BY HeldAre DEF HeldFds, Holding, Adding, Holds
  <2>4. \A u \in Users : Holds(u) /\ u # t => Holds(u)' /\ job'[u] = job[u]
    BY <1>3 DEF Holds
  <2>5. Holds(t) => e.id.type = "disk"
    BY DEF BridgeInv, HoldersAreBacked, e
  <2>6. HeldFds \subseteq HeldFds' \cup lost \cup DiskFds'
    BY <2>2, <2>3, <2>4, <2>5, HeldAre DEF e
  <2> QED BY <1>1, <2>1, <2>6 DEF BridgeInv, DescriptorsAccounted
<1>21. FoundIsThere' /\ StrayIoNeedsReset'
  <2>1. \A u \in Users : pc'[u] # "idle" => job'[u] = job[u] /\ pc'[u] = pc[u]
    BY <1>3
  <2>2. FoundIsThere'
    BY <1>1, <1>9, <2>1 DEF BridgeInv, FoundIsThere
  <2>3. StrayIoNeedsReset'
    BY <1>1, <2>1 DEF BridgeInv, StrayIoNeedsReset
  <2> QED BY <2>2, <2>3
<1> QED BY <1>4, <1>7, <1>16, <1>17, <1>18, <1>19, <1>20, <1>21 DEF BridgeInv

\* A lookup under the lock finds a disk that has a file.
LEMMA FindKeeps ==
  ASSUME BridgeInv, NEW t \in Users, Find(t)
  PROVE  BridgeInv'
<1>1. /\ pc[t] = "idle" /\ lock = NoUser /\ pc' = [pc EXCEPT ![t] = "use"]
      /\ UNCHANGED <<fds, devices, count, lock, lost>> /\ UserFrame
  BY DEF Find, Goto
<1>2. PICK n \in Names :
        /\ Matching(n) # {}
        /\ job' = [job EXCEPT ![t] = [NoJob EXCEPT !.slot = Min(Matching(n)),
                     !.file = devices[Min(Matching(n))].id.file]]
  BY DEF Find
<1> DEFINE s == Min(Matching(n))
<1> DEFINE j == [NoJob EXCEPT !.slot = s, !.file = devices[s].id.file]
<1>3. count \in Nat /\ count <= MaxDevices /\ MaxDevices \in Nat /\ BridgeType
  BY Types, BridgeAssumption DEF BridgeInv
<1>4. Matching(n) \in SUBSET Nat
  BY <1>3 DEF Matching
<1>5. s \in Matching(n)
  BY <1>2, <1>4, MinIsMember
<1> HIDE DEF s
<1>6. s \in Slots /\ s < count /\ devices[s].active /\ devices[s].id.type = "disk"
      /\ devices[s].id.name = n
  BY <1>3, <1>5 DEF Matching, Slots
<1>7. Adding = {}
  BY <1>1, BridgeAssumption DEF BridgeInv, LockIsHeld, Adding
<1>8. s \in ActiveDisks /\ devices[s].id.file \in Files
  BY <1>6, <1>7 DEF ActiveDisks, BridgeInv, DisksAreBacked
<1>9. j \in JobType /\ j.slot = s /\ j.file = devices[s].id.file
  BY <1>6, <1>8, NoJobType DEF JobType, NoJob
<1>10. job' = [job EXCEPT ![t] = j]
  BY <1>2 DEF s
<1> HIDE DEF j
<1> QED BY <1>1, <1>6, <1>8, <1>9, <1>10, EmptyHandsKeep

\* What a call reaches after the unlock is its disk, unless a reset came between.
LEMMA UseKeeps ==
  ASSUME BridgeInv, NEW t \in Users, Use(t)
  PROVE  BridgeInv'
<1> DEFINE d == devices[job[t].slot]
<1>1. /\ pc[t] = "use" /\ pc' = [pc EXCEPT ![t] = "done"]
      /\ UNCHANGED <<fds, devices, count, lock, lost>> /\ UserFrame
  BY DEF Use, Goto
<1>2. PICK op \in Ops :
        job' = [job EXCEPT ![t].op = op, ![t].fd = d.fd,
                           ![t].got = IF op = "info" THEN d.id.file ELSE Reached(fds, d.fd)]
  BY DEF Use
<1> DEFINE got == IF op = "info" THEN d.id.file ELSE Reached(fds, d.fd)
<1> DEFINE j == [job[t] EXCEPT !.op = op, !.fd = d.fd, !.got = got]
<1>3. fds \in FdTables /\ d \in DeviceType /\ job[t] \in JobType /\ job \in [Users -> JobType]
  BY Types DEF BridgeInv, JobType
<1>4. got \in Files \cup {NoFile} /\ d.fd \in Fds \cup {-1}
  BY <1>3 DEF DeviceType, Ids, Reached, FdTables
<1>5. job' = [job EXCEPT ![t] = j]
  BY <1>2, <1>3
<1> HIDE DEF got
<1>6. j \in JobType /\ j.got = got /\ j.file = job[t].file /\ j.late = job[t].late /\ j.fd = d.fd
  BY <1>3, <1>4 DEF JobType
<1> HIDE DEF j
<1>7. ASSUME ~job[t].late, got # job[t].file
      PROVE  cut /\ d.fd = 0
  <2>1. job[t].slot \in ActiveDisks /\ d.id.file = job[t].file /\ job[t].file \in Files
    BY <1>1, <1>7 DEF BridgeInv, FoundIsThere
  <2>2. d.id.file # NoFile /\ d.fd # -1
    BY <2>1, NoFileAssumption DEF BridgeInv, DisksAreBacked
  <2>3. Safe(d.fd) => d.fd \in Fds /\ fds[d.fd] = d.id.file
    BY <2>1, <2>2 DEF BridgeInv, DisksAreBacked
  <2>4. Safe(d.fd) => got = d.id.file
    BY <2>3 DEF Reached, got
  <2> QED BY <1>7, <2>1, <2>2, <2>4 DEF Safe
<1> QED BY <1>1, <1>5, <1>6, <1>7, EmptyHandsKeep

\* A call returns.
LEMMA FinishKeeps ==
  ASSUME BridgeInv, NEW t \in Users, Finish(t)
  PROVE  BridgeInv'
<1>1. /\ pc[t] = "done" /\ pc' = [pc EXCEPT ![t] = "idle"]
      /\ job' = [job EXCEPT ![t] = NoJob]
      /\ UNCHANGED <<fds, devices, count, lock, lost>> /\ UserFrame
  BY DEF Finish, Return, Goto
<1> QED BY <1>1, NoJobType, EmptyHandsKeep

-----------------------------------------------------------------------------
(* The theorems                                                             *)

\* A step that changes nothing.
LEMMA BridgeStutter ==
  ASSUME BridgeInv, UNCHANGED vars
  PROVE  BridgeInv'
<1>1. /\ UNCHANGED <<fds, devices, count, lock, admin, resets, lost, cut, pc, job>>
      /\ Adding' = Adding /\ \A t \in Users : Holds(t)' <=> Holds(t)
  BY DEF vars, Adding, Holds
<1>2. ActiveDisks' = ActiveDisks /\ DiskFds' = DiskFds /\ HeldFds' = HeldFds
  BY <1>1 DEF ActiveDisks, DiskFds, HeldFds, Holding
<1>3. BridgeType' /\ LockIsHeld' /\ HoldersAreBacked'
  BY <1>1 DEF BridgeInv, BridgeType, TypeOK, LockIsHeld, HoldersAreBacked, Safe
<1>4. DisksAreBacked' /\ NoneIsShared' /\ NetsHaveNone'
  BY <1>1, <1>2 DEF BridgeInv, DisksAreBacked, NoneIsShared, NetsHaveNone, Safe
<1>5. FillIsKnown' /\ DescriptorsAccounted'
  BY <1>1, <1>2 DEF BridgeInv, FillIsKnown, FillOf, DescriptorsAccounted
<1>6. FoundIsThere' /\ StrayIoNeedsReset'
  BY <1>1, <1>2 DEF BridgeInv, FoundIsThere, StrayIoNeedsReset
<1> QED BY <1>3, <1>4, <1>5, <1>6 DEF BridgeInv

\* The invariant is inductive, and so it holds in every reachable state.
LEMMA BridgeInvariant == Spec => []BridgeInv
<1>1. ASSUME BridgeInv, [Next]_vars PROVE BridgeInv'
  <2>1. CASE InitClear \/ InitCount \/ Shutdown
    BY <1>1, <2>1, InitClearKeeps, InitCountKeeps, ShutdownKeeps
  <2>2. ASSUME NEW t \in Users, AddOpen(t) \/ AddRefused(t) \/ AddLock(t) \/ NetLock(t)
        PROVE  BridgeInv'
    BY <1>1, <2>2, AddOpenKeeps, AddRefusedKeeps, AddLockKeeps, NetLockKeeps
  <2>3. ASSUME NEW t \in Users, AddStore(t) \/ AddCount(t) \/ AddUnlock(t)
        PROVE  BridgeInv'
    BY <1>1, <2>3, AddStoreKeeps, AddCountKeeps, AddUnlockKeeps
  <2>4. ASSUME NEW t \in Users, Find(t) \/ Use(t) \/ Finish(t)
        PROVE  BridgeInv'
    BY <1>1, <2>4, FindKeeps, UseKeeps, FinishKeeps
  <2>5. CASE UNCHANGED vars
    BY <1>1, <2>5, BridgeStutter
  <2> QED BY <1>1, <2>1, <2>2, <2>3, <2>4, <2>5 DEF Next
<1> QED BY <1>1, BridgeInit, PTL DEF Spec

\* Every variable keeps its type: the stores stay within the table, and the
\* descriptors within the numbers of the host, whatever init does in between.
THEOREM TypeCorrect == Spec => []TypeOK
<1>1. BridgeInv => TypeOK
  BY DEF BridgeInv, BridgeType
<1> QED BY <1>1, BridgeInvariant, PTL

\* For every size of the table and every number of users and resets: a disk
\* that the table lists is backed by its own open descriptor on its own file,
\* except under the number 0 after a memset between two stores.
THEOREM DisksStayBacked == Spec => []ActiveDisksAreBacked
<1>1. ASSUME BridgeInv PROVE ActiveDisksAreBacked
  <2>1. \A i \in ActiveDisks : devices[i].fd \in Fds /\ fds[devices[i].fd] \in Files =>
          devices[i].fd \in OpenFds(fds)
    BY NoFileAssumption DEF OpenFds
  <2>2. ~cut => \A i \in ActiveDisks :
          devices[i].fd \in OpenFds(fds) /\ fds[devices[i].fd] = devices[i].id.file
    BY <1>1, <2>1, NoFileAssumption DEF BridgeInv, DisksAreBacked, Safe
  <2>3. \A i \in ActiveDisks : devices[i].fd \notin {-1, 0} =>
          /\ devices[i].fd \in OpenFds(fds)
          /\ devices[i].id.file \in {NoFile, fds[devices[i].fd]}
    BY <1>1, <2>1 DEF BridgeInv, DisksAreBacked, Safe
  <2>4. ASSUME NEW i \in ActiveDisks, NEW j \in ActiveDisks, devices[i].fd = devices[j].fd,
               cut => devices[i].fd \notin {-1, 0}
        PROVE  i = j
    <3>1. Safe(devices[i].fd)
      BY <1>1, <2>4 DEF BridgeInv, DisksAreBacked, Safe
    <3> QED BY <1>1, <2>4, <3>1 DEF BridgeInv, DisksAreBacked
  <2> QED BY <2>2, <2>3, <2>4 DEF ActiveDisksAreBacked
<1> QED BY <1>1, BridgeInvariant, PTL

\* For every size of the table and every number of users and resets: no open
\* descriptor is forgotten but by init, which wipes the table or the count.
THEOREM DescriptorsHaveOwners == Spec => []DescriptorsAccounted
<1>1. BridgeInv => DescriptorsAccounted
  BY DEF BridgeInv
<1> QED BY <1>1, BridgeInvariant, PTL

\* For every size of the table and every number of users and resets: input and
\* output goes astray only after a reset between lookup and use, or through
\* the number 0 of a slot that init has cut.
THEOREM StrayIoIsLate == Spec => []StrayIoNeedsReset
<1>1. BridgeInv => StrayIoNeedsReset
  BY DEF BridgeInv
<1> QED BY <1>1, BridgeInvariant, PTL
=============================================================================
