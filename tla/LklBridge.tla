----------------------------- MODULE LklBridge -----------------------------
(***************************************************************************)
(* The LKL device bridge (compat/lkl_hurd_bridge.c): a fixed table of      *)
(* disks and network interfaces.  Every call finds its slot under          *)
(* bridge_lock, and disk reads, writes and queries then use the slot after *)
(* the lock is released, while the administrator may shut the bridge down  *)
(* and initialise it, also when it is up.                                  *)
(*                                                                         *)
(* init takes no lock: its two writes are two steps, and they may fall     *)
(* between the stores with which add_disk and add_netif fill their slot    *)
(* inside the lock.  Those are steps of their own, in any order; the other *)
(* critical sections are one step each.                                    *)
(***************************************************************************)
EXTENDS HostFds

CONSTANTS Users,         \* threads that add and use devices
          Names,
          MaxDevices,    \* MAX_BRIDGE_DEVICES: 32 in the code
          MaxResets,     \* bound: the bridge stays up after this many resets
          NoUser

ASSUME BridgeAssumption ==
  /\ MaxDevices \in Nat \ {0} /\ MaxResets \in Nat
  /\ NoUser \notin Users
  /\ NoFile \notin Names       \* NoFile is also the empty name of a wiped slot

VARIABLES
  fds,         \* host descriptors
  devices,     \* the table
  count,       \* device_count
  lock,        \* holder of bridge_lock, while it fills a slot
  admin,       \* the administrator: "down", "clearing" (inside init) or "up"
  resets,      \* history: shutdowns and inits so far
  lost,        \* history: descriptors that init has put out of reach
  cut,         \* history: init has wiped a slot between two of its stores
  pc, job

vars == <<fds, devices, count, lock, admin, resets, lost, cut, pc, job>>

Slots == 0 .. MaxDevices - 1

\* struct bridge_device: the mark, the descriptor, and what the device is (type,
\* name and path with size).  The memset makes a nameless disk with descriptor 0.
Ids == [type : {"disk", "net"}, name : Names \cup {NoFile}, file : Files \cup {NoFile}]
Id(type, name, file) == [type |-> type, name |-> name, file |-> file]
Blank == [active |-> FALSE, id |-> Id("disk", NoFile, NoFile), fd |-> 0]
Fields == {"active", "id", "fd"}

\* dev is the device to add, and todo are the stores that are left.  A user of
\* a disk has found one on file, and uses number fd, late if a reset came between.
NoJob == [op |-> "add", slot |-> 0, dev |-> Blank, todo |-> {},
          file |-> NoFile, fd |-> -1, got |-> NoFile, late |-> FALSE]
Ops == {"io", "info"}        \* a read or a write, a query
Labels == {"idle", "opened", "adding", "use", "done"}

TypeOK ==
  /\ fds \in FdTables
  /\ devices \in [Slots -> [active : BOOLEAN, id : Ids, fd : Fds \cup {-1}]]
  /\ count \in 0 .. MaxDevices
  /\ lock \in Users \cup {NoUser}
  /\ admin \in {"down", "clearing", "up"}
  /\ resets \in 0 .. MaxResets + 1
  /\ lost \subseteq Fds \cup {-1}
  /\ cut \in BOOLEAN
  /\ pc \in [Users -> Labels]

\* Calls inside the critical section, and those that add a disk and have opened it.
Adding == {t \in Users : pc[t] = "adding"}
Holding == {t \in Adding : job[t].dev.id.type = "disk"} \cup {t \in Users : pc[t] = "opened"}
HeldFds == {job[t].dev.fd : t \in Holding}

\* The disks of the table, the slot that is being filled left out.
ActiveDisks == {i \in Slots : /\ devices[i].active /\ devices[i].id.type = "disk"
                              /\ \A t \in Adding : job[t].slot # i}
AllFds == {devices[i].fd : i \in ActiveDisks}
DiskFds == {devices[i].fd : i \in {j \in ActiveDisks : j < count}}

\* The state after the first lkl_hurd_bridge_init.
Init ==
  /\ fds = [n \in Fds |-> NoFile]
  /\ devices = [i \in Slots |-> Blank]
  /\ count = 0
  /\ lock = NoUser
  /\ admin = "up"
  /\ resets = 0 /\ lost = {} /\ cut = FALSE
  /\ pc = [t \in Users |-> "idle"]
  /\ job = [t \in Users |-> NoJob]

Goto(t, l) == pc' = [pc EXCEPT ![t] = l]
Return(t) == Goto(t, "idle") /\ job' = [job EXCEPT ![t] = NoJob]
UserFrame == UNCHANGED <<admin, resets, cut>>

-----------------------------------------------------------------------------
(* lkl_hurd_bridge_init and lkl_hurd_bridge_shutdown                       *)

\* The calls that are between their lookup and their use are late now.
Overtaken == [t \in Users |-> IF pc[t] = "use" THEN [job[t] EXCEPT !.late = TRUE]
                              ELSE job[t]]

\* The memset.  A slot that is being filled loses what is stored so far; its
\* descriptor goes with the number or with the mark.
InitClear ==
  /\ admin # "clearing" /\ admin' = "clearing"
  /\ admin = "up" => resets < MaxResets
  /\ resets' = resets + 1
  /\ devices' = [i \in Slots |-> Blank]
  /\ lost' = lost \cup AllFds
       \cup {job[t].dev.fd : t \in {u \in Adding : ~({"fd", "active"} \subseteq job[u].todo)}}
  /\ cut' = (cut \/ \E t \in Adding : job[t].todo \cap Fields \notin {{}, Fields})
  /\ job' = Overtaken
  /\ UNCHANGED <<fds, count, lock, pc>>

\* What was added since the memset drops out with the count.
InitCount ==
  /\ admin = "clearing" /\ admin' = "up"
  /\ count' = 0
  /\ lost' = lost \cup AllFds
       \cup {job[t].dev.fd : t \in {u \in Adding : "count" \notin job[u].todo}}
  /\ job' = Overtaken
  /\ UNCHANGED <<fds, devices, lock, resets, cut, pc>>

\* The descriptors that the loop closes: those of the active devices below
\* device_count.  close(-1) of an interface fails and is ignored; a slot that
\* init has cut may hold 0.
Closing == {devices[i].fd : i \in {j \in 0 .. count - 1 : devices[j].active}}

\* Mutant: the devices stay active.
Shutdown_KeepsActive ==
  /\ admin # "clearing" /\ admin' = "down" /\ lock = NoUser
  /\ resets < MaxResets /\ resets' = resets + 1
  /\ fds' = [n \in Fds |-> IF n \in Closing THEN NoFile ELSE fds[n]]
  /\ job' = Overtaken
  /\ UNCHANGED <<devices, count, lock, lost, cut, pc>>

Shutdown ==
  /\ admin # "clearing" /\ admin' = "down" /\ lock = NoUser
  /\ resets < MaxResets /\ resets' = resets + 1
  /\ fds' = [n \in Fds |-> IF n \in Closing THEN NoFile ELSE fds[n]]
  /\ devices' = [i \in Slots |-> IF i < count THEN [devices[i] EXCEPT !.active = FALSE]
                                 ELSE devices[i]]
  /\ job' = Overtaken
  /\ UNCHANGED <<count, lock, lost, cut, pc>>

-----------------------------------------------------------------------------
(* lkl_hurd_add_disk and lkl_hurd_add_netif                                *)

AddOpen(t) ==
  /\ pc[t] = "idle" /\ CanOpen(fds)
  /\ \E f \in Files, n \in Names :
       /\ fds' = AfterOpen(fds, f)
       /\ job' = [job EXCEPT ![t] = [NoJob EXCEPT !.dev =
                    [active |-> TRUE, id |-> Id("disk", n, f), fd |-> NewFd(fds)]]]
  /\ Goto(t, "opened")
  /\ UNCHANGED <<devices, count, lock, lost>> /\ UserFrame

\* Mutant: a full table keeps the descriptor.
AddRefused_KeepsFd(t) ==
  /\ pc[t] = "opened"
  /\ Return(t)
  /\ UNCHANGED <<fds, devices, count, lock, lost>> /\ UserFrame

\* fstat failed, or the table is full: the descriptor is closed again.
AddRefused(t) ==
  /\ pc[t] = "opened"
  /\ fds' = AfterClose(fds, job[t].dev.fd)
  /\ Return(t)
  /\ UNCHANGED <<devices, count, lock, lost>> /\ UserFrame

\* Mutant: the limit is off by one.
AddLock_OffByOne(t) ==
  /\ pc[t] = "opened" /\ lock = NoUser /\ count <= MaxDevices
  /\ lock' = t
  /\ job' = [job EXCEPT ![t].slot = count, ![t].todo = Fields \cup {"count"}]
  /\ Goto(t, "adding")
  /\ UNCHANGED <<fds, devices, count, lost>> /\ UserFrame

AddLock(t) ==
  /\ pc[t] = "opened" /\ lock = NoUser /\ count < MaxDevices
  /\ lock' = t
  /\ job' = [job EXCEPT ![t].slot = count, ![t].todo = Fields \cup {"count"}]
  /\ Goto(t, "adding")
  /\ UNCHANGED <<fds, devices, count, lost>> /\ UserFrame

NetLock(t) ==
  /\ pc[t] = "idle" /\ lock = NoUser /\ count < MaxDevices
  /\ lock' = t
  /\ \E n \in Names :
       job' = [job EXCEPT ![t] = [NoJob EXCEPT
                 !.slot = count, !.todo = Fields \cup {"count"},
                 !.dev = [active |-> TRUE, id |-> Id("net", n, NoFile), fd |-> -1]]]
  /\ Goto(t, "adding")
  /\ UNCHANGED <<fds, devices, count, lost>> /\ UserFrame

\* Slot d when field x of dev is stored.
Stored(d, x, dev) == [active |-> IF x = "active" THEN dev.active ELSE d.active,
                      id     |-> IF x = "id" THEN dev.id ELSE d.id,
                      fd     |-> IF x = "fd" THEN dev.fd ELSE d.fd]

\* The stores into the slot, as the compiler orders them.
AddStore(t) ==
  /\ pc[t] = "adding"
  /\ \E x \in job[t].todo \ {"count"} :
       /\ devices' = [devices EXCEPT ![job[t].slot] = Stored(@, x, job[t].dev)]
       /\ job' = [job EXCEPT ![t].todo = @ \ {x}]
  /\ UNCHANGED <<fds, count, lock, lost, pc>> /\ UserFrame

\* device_count++, of the value that chose the slot or of a value loaded again.
\* A disk that the new count does not cover is out of reach.
AddCount(t) ==
  /\ pc[t] = "adding" /\ "count" \in job[t].todo
  /\ \E n \in {count, job[t].slot} :
       /\ count' = n + 1
       /\ lost' = lost \cup (IF n < job[t].slot THEN {job[t].dev.fd} ELSE {})
  /\ job' = [job EXCEPT ![t].todo = @ \ {"count"}]
  /\ UNCHANGED <<fds, devices, lock, pc>> /\ UserFrame

AddUnlock(t) ==
  /\ pc[t] = "adding" /\ job[t].todo = {}
  /\ lock' = NoUser
  /\ Return(t)
  /\ UNCHANGED <<fds, devices, count, lost>> /\ UserFrame

-----------------------------------------------------------------------------
(* lkl_hurd_disk_read, lkl_hurd_disk_write and lkl_hurd_disk_info          *)

Matching(n) == {i \in 0 .. count - 1 :
  devices[i].active /\ devices[i].id.type = "disk" /\ devices[i].id.name = n}

\* Mutant: a device that was shut down is still found.
Find_Inactive(t) ==
  /\ pc[t] = "idle" /\ lock = NoUser
  /\ \E n \in Names :
       LET found == {i \in 0 .. count - 1 : devices[i].id.type = "disk" /\ devices[i].id.name = n} IN
       /\ found # {}
       /\ job' = [job EXCEPT ![t] = [NoJob EXCEPT
                    !.slot = Min(found),
                    !.file = devices[Min(found)].id.file]]
  /\ Goto(t, "use")
  /\ UNCHANGED <<fds, devices, count, lock, lost>> /\ UserFrame

\* The lookup, under the lock; -ENODEV when nothing matches.
Find(t) ==
  /\ pc[t] = "idle" /\ lock = NoUser
  /\ \E n \in Names :
       /\ Matching(n) # {}
       /\ job' = [job EXCEPT ![t] = [NoJob EXCEPT
                    !.slot = Min(Matching(n)),
                    !.file = devices[Min(Matching(n))].id.file]]
  /\ Goto(t, "use")
  /\ UNCHANGED <<fds, devices, count, lock, lost>> /\ UserFrame

\* After the unlock: pread or pwrite on dev->disk.fd, or a read of the slot.
Use(t) ==
  /\ pc[t] = "use"
  /\ LET d == devices[job[t].slot] IN
       \E op \in Ops :
         job' = [job EXCEPT ![t].op = op, ![t].fd = d.fd,
                            ![t].got = IF op = "info" THEN d.id.file ELSE Reached(fds, d.fd)]
  /\ Goto(t, "done")
  /\ UNCHANGED <<fds, devices, count, lock, lost>> /\ UserFrame

Finish(t) ==
  /\ pc[t] = "done"
  /\ Return(t)
  /\ UNCHANGED <<fds, devices, count, lock, lost>> /\ UserFrame

-----------------------------------------------------------------------------
Next ==
  \/ InitClear \/ InitCount \/ Shutdown
  \/ \E t \in Users :
       \/ AddOpen(t) \/ AddRefused(t) \/ AddLock(t) \/ NetLock(t)
       \/ AddStore(t) \/ AddCount(t) \/ AddUnlock(t)
       \/ Find(t) \/ Use(t) \/ Finish(t)

Spec == Init /\ [][Next]_vars

-----------------------------------------------------------------------------
(***************************************************************************)
(* Across any number of shutdowns and initialisations that race with       *)
(* additions, the numbers that a shutdown gave back to the host are never  *)
(* believed to be still in use: every active disk is backed by its own     *)
(* open descriptor on its own file.  Only a memset that falls between the  *)
(* stores of an addition breaks this, and then only for the number 0,      *)
(* which the wiped slot names and a shutdown closes: every other number    *)
(* stays with its disk, whose path may be gone.                            *)
(***************************************************************************)
ActiveDisksAreBacked ==
  /\ ~cut => \A i \in ActiveDisks :
       devices[i].fd \in OpenFds(fds) /\ fds[devices[i].fd] = devices[i].id.file
  /\ \A i \in ActiveDisks : devices[i].fd \notin {-1, 0} =>
       /\ devices[i].fd \in OpenFds(fds)
       /\ devices[i].id.file \in {NoFile, fds[devices[i].fd]}
  /\ \A i, j \in ActiveDisks :
       devices[i].fd = devices[j].fd /\ (cut => devices[i].fd \notin {-1, 0}) => i = j

(***************************************************************************)
(* Every open descriptor is owned: by an active disk that shutdown will    *)
(* close, by a call that is adding one, or it belonged to a disk that init *)
(* has wiped, whole or in part, or left beyond the count.                  *)
(***************************************************************************)
DescriptorsAccounted == OpenFds(fds) \subseteq DiskFds \cup HeldFds \cup lost

(***************************************************************************)
(* Input or output on the wrong file, and information about the wrong      *)
(* disk, need a shutdown or an initialisation between the lookup and the   *)
(* use, or a slot that init had cut and that names number 0.  After a      *)
(* shutdown no new call finds a disk that it closed.                       *)
(***************************************************************************)
StrayIoNeedsReset ==
  \A t \in Users :
    pc[t] = "done" /\ job[t].got # job[t].file =>
      job[t].late \/ (cut /\ job[t].fd = 0)

(***************************************************************************)
(* lkl_hurd_bridge.c, line 228: "Read from a bridged disk device" (and 250 *)
(* "Write to a bridged disk device"): the bytes come from, and go to, the  *)
(* disk with that name, or the call fails.                                 *)
(***************************************************************************)
DiskIoIsOnTheDisk ==
  \A t \in Users :
    pc[t] = "done" /\ job[t].op # "info" => job[t].got \in {job[t].file, NoFile}
=============================================================================
