------------------------------ MODULE MachDev ------------------------------
(***************************************************************************)
(* The machdev layer (compat/machdev_xnu.c): threads create file-backed    *)
(* devices and register them in one table; RPC threads open a device by    *)
(* name, read or write it by the handle that device_open returned, and may *)
(* close the device that they found.                                       *)
(*                                                                         *)
(* machdev_register and machdev_lookup hold dev_lock.  device_read and     *)
(* device_write scan the same table without it, so the two stores of       *)
(* devices[device_count++] = dev are steps of their own, in either order.  *)
(* dev_close takes no lock either: its test, its close() and its mark are  *)
(* steps of their own, and any number of threads may be at them.           *)
(***************************************************************************)
EXTENDS HostFds, Sequences

CONSTANTS Threads,
          Names,        \* device names
          MaxDevices,   \* MAX_DEVICES: 64 in the code
          MaxCreated,   \* bound: struct machdev objects ever allocated
          NoThread

ASSUME DevAssumption ==
  /\ NoThread \notin Threads
  /\ MaxDevices \in Nat \ {0} /\ MaxCreated \in Nat

NULL == 0
Port == 0            \* dev->port is zeroed by calloc and never assigned
Handles == {Port, 1} \* what a client may pass; 1 stands for any other name
Devs == 1 .. MaxCreated

VARIABLES
  fds,      \* host descriptors
  dev,      \* the struct machdev objects, in the order of their calloc; shut
            \* and again are history: closed once, closed more than once
  devices,  \* the table, devices[i] = NULL or an index into dev
  count,    \* device_count
  lock,     \* holder of dev_lock
  pc, job,  \* per thread: where it is, and its local variables
  opened    \* per thread: the device that device_open found for it last

vars == <<fds, dev, devices, count, lock, pc, job, opened>>

Slots == 0 .. MaxDevices - 1
NoJob == [file |-> NoFile, name |-> NoFile, fd |-> -1, dev |-> NULL, i |-> 0,
          todo |-> {}, got |-> NoFile, handle |-> Port]

Labels == {"idle", "built_fd", "register", "storing", "scan", "load_fd", "io",
           "done", "closing", "marking", "fault"}

TypeOK ==
  /\ fds \in FdTables
  /\ dev \in Seq([name : Names, file : Files, fd : Fds \cup {-1},
                  shut : BOOLEAN, again : BOOLEAN])
  /\ Len(dev) <= MaxCreated
  /\ devices \in [Slots -> Devs \cup {NULL}]
  /\ count \in 0 .. MaxDevices
  /\ lock \in Threads \cup {NoThread}
  /\ pc \in [Threads -> Labels]
  /\ opened \in [Threads -> Devs \cup {NULL}]

Init ==
  /\ fds = [n \in Fds |-> NoFile]
  /\ dev = <<>>
  /\ devices = [i \in Slots |-> NULL]
  /\ count = 0
  /\ lock = NoThread
  /\ pc = [t \in Threads |-> "idle"]
  /\ job = [t \in Threads |-> NoJob]
  /\ opened = [t \in Threads |-> NULL]

Goto(t, l) == pc' = [pc EXCEPT ![t] = l]
Return(t) == Goto(t, "idle") /\ job' = [job EXCEPT ![t] = NoJob]

-----------------------------------------------------------------------------
(* machdev_create_file_device and machdev_register                         *)

CreateOpen(t) ==
  /\ pc[t] = "idle" /\ CanOpen(fds)
  /\ Len(dev) < MaxCreated
  /\ \E f \in Files, n \in Names :
       /\ fds' = AfterOpen(fds, f)
       /\ job' = [job EXCEPT ![t] = [NoJob EXCEPT !.file = f, !.name = n,
                                                  !.fd = NewFd(fds)]]
  /\ Goto(t, "built_fd")
  /\ UNCHANGED <<dev, devices, count, lock, opened>>

\* Mutant: the error path forgets the descriptor.
CreateAbandon_KeepsFd(t) ==
  /\ pc[t] = "built_fd"
  /\ Return(t)
  /\ UNCHANGED <<fds, dev, devices, count, lock, opened>>

\* fstat or calloc failed: the descriptor is closed again.
CreateAbandon(t) ==
  /\ pc[t] = "built_fd"
  /\ fds' = AfterClose(fds, job[t].fd)
  /\ Return(t)
  /\ UNCHANGED <<dev, devices, count, lock, opened>>

CreateBuild(t) ==
  /\ pc[t] = "built_fd" /\ Len(dev) < MaxCreated
  /\ dev' = Append(dev, [name |-> job[t].name, file |-> job[t].file,
                         fd |-> job[t].fd, shut |-> FALSE, again |-> FALSE])
  /\ job' = [job EXCEPT ![t].dev = Len(dev) + 1]
  /\ Goto(t, "register")
  /\ UNCHANGED <<fds, devices, count, lock, opened>>

\* The table is full: ENOMEM.  The device and its descriptor stay allocated.
RegisterFull(t) ==
  /\ pc[t] = "register" /\ lock = NoThread
  /\ count >= MaxDevices
  /\ Return(t)
  /\ UNCHANGED <<fds, dev, devices, count, lock, opened>>

\* Mutant: the table is used without the lock.
RegisterLock_NoLock(t) ==
  /\ pc[t] = "register"
  /\ count < MaxDevices
  /\ job' = [job EXCEPT ![t].i = count, ![t].todo = {"slot", "count"}]
  /\ Goto(t, "storing")
  /\ UNCHANGED <<fds, dev, devices, count, lock, opened>>

\* Mutant: the limit is not tested.
RegisterLock_NoLimit(t) ==
  /\ pc[t] = "register" /\ lock = NoThread
  /\ lock' = t
  /\ job' = [job EXCEPT ![t].i = count, ![t].todo = {"slot", "count"}]
  /\ Goto(t, "storing")
  /\ UNCHANGED <<fds, dev, devices, count, opened>>

RegisterLock(t) ==
  /\ pc[t] = "register" /\ lock = NoThread
  /\ count < MaxDevices
  /\ lock' = t
  /\ job' = [job EXCEPT ![t].i = count, ![t].todo = {"slot", "count"}]
  /\ Goto(t, "storing")
  /\ UNCHANGED <<fds, dev, devices, count, opened>>

RegisterStoreSlot(t) ==
  /\ pc[t] = "storing" /\ "slot" \in job[t].todo
  /\ devices' = [devices EXCEPT ![job[t].i] = job[t].dev]
  /\ job' = [job EXCEPT ![t].todo = @ \ {"slot"}]
  /\ UNCHANGED <<fds, dev, count, lock, pc, opened>>

RegisterStoreCount(t) ==
  /\ pc[t] = "storing" /\ "count" \in job[t].todo
  /\ count' = job[t].i + 1
  /\ job' = [job EXCEPT ![t].todo = @ \ {"count"}]
  /\ UNCHANGED <<fds, dev, devices, lock, pc, opened>>

\* Mutant: the slot may be stored after the lock is gone, that is never.
RegisterUnlock_Early(t) ==
  /\ pc[t] = "storing" /\ "count" \notin job[t].todo
  /\ lock' = NoThread
  /\ Return(t)
  /\ UNCHANGED <<fds, dev, devices, count, opened>>

RegisterUnlock(t) ==
  /\ pc[t] = "storing" /\ job[t].todo = {}
  /\ lock' = NoThread
  /\ Return(t)
  /\ UNCHANGED <<fds, dev, devices, count, opened>>

-----------------------------------------------------------------------------
(* machdev_lookup and the device RPCs                                      *)

\* A slot below device_count is never NULL while the lock is free.
Named(n) ==
  {i \in 0 .. count - 1 : devices[i] # NULL /\ dev[devices[i]].name = n}

\* machdev_lookup: the first device with the name, under the lock.
Lookup(n) == IF Named(n) = {} THEN NULL ELSE devices[Min(Named(n))]

\* device_open: file_dev_open always succeeds and the port is returned.
DeviceOpen(t) ==
  /\ pc[t] = "idle" /\ lock = NoThread
  /\ \E n \in Names :
       /\ Lookup(n) # NULL
       /\ opened' = [opened EXCEPT ![t] = Lookup(n)]
  /\ UNCHANGED <<fds, dev, devices, count, lock, pc, job>>

\* device_read or device_write starts its scan of the table.
Access(t) ==
  /\ pc[t] = "idle"
  /\ \E h \in Handles :
       /\ h = Port => opened[t] # NULL
       /\ job' = [job EXCEPT ![t] = [NoJob EXCEPT !.handle = h]]
  /\ Goto(t, "scan")
  /\ UNCHANGED <<fds, dev, devices, count, lock, opened>>

\* One iteration of the scan, without dev_lock.
ScanEnd(t) ==          \* ENODEV
  /\ pc[t] = "scan" /\ job[t].i >= count
  /\ Return(t)
  /\ UNCHANGED <<fds, dev, devices, count, lock, opened>>

ScanFault(t) ==        \* devices[i] is still NULL
  /\ pc[t] = "scan" /\ job[t].i < count
  /\ devices[job[t].i] = NULL
  /\ Goto(t, "fault")
  /\ UNCHANGED <<fds, dev, devices, count, lock, job, opened>>

ScanNext(t) ==
  /\ pc[t] = "scan" /\ job[t].i < count
  /\ devices[job[t].i] # NULL
  /\ job[t].handle # Port
  /\ job' = [job EXCEPT ![t].i = @ + 1]
  /\ UNCHANGED <<fds, dev, devices, count, lock, pc, opened>>

ScanFound(t) ==
  /\ pc[t] = "scan" /\ job[t].i < count
  /\ devices[job[t].i] # NULL
  /\ job[t].handle = Port
  /\ job' = [job EXCEPT ![t].dev = devices[job[t].i]]
  /\ Goto(t, "load_fd")
  /\ UNCHANGED <<fds, dev, devices, count, lock, opened>>

\* Mutant: one struct file_device is shared by all devices.
LoadFd_Shared(t) ==
  /\ pc[t] = "load_fd"
  /\ job' = [job EXCEPT ![t].fd = dev[Len(dev)].fd]
  /\ Goto(t, "io")
  /\ UNCHANGED <<fds, dev, devices, count, lock, opened>>

\* file_dev_read, file_dev_write: fd_dev->fd is loaded, then used.
LoadFd(t) ==
  /\ pc[t] = "load_fd"
  /\ job' = [job EXCEPT ![t].fd = dev[job[t].dev].fd]
  /\ Goto(t, "io")
  /\ UNCHANGED <<fds, dev, devices, count, lock, opened>>

Io(t) ==
  /\ pc[t] = "io"
  /\ job' = [job EXCEPT ![t].got = Reached(fds, job[t].fd)]
  /\ Goto(t, "done")
  /\ UNCHANGED <<fds, dev, devices, count, lock, opened>>

Reply(t) ==
  /\ pc[t] = "done"
  /\ Return(t)
  /\ UNCHANGED <<fds, dev, devices, count, lock, opened>>

-----------------------------------------------------------------------------
(* file_dev_close, by any thread that has found the device                 *)

\* The test that the descriptor is not closed yet.
CloseTest(t) ==
  /\ pc[t] = "idle" /\ opened[t] # NULL
  /\ dev[opened[t]].fd >= 0
  /\ job' = [job EXCEPT ![t] = [NoJob EXCEPT !.dev = opened[t],
                                            !.fd = dev[opened[t]].fd]]
  /\ Goto(t, "closing")
  /\ UNCHANGED <<fds, dev, devices, count, lock, opened>>

\* The close itself, of the number that was tested or of the number that the
\* field holds by now, as the compiler keeps it or loads it again.
CloseFd(t) ==
  /\ pc[t] = "closing"
  /\ LET d == job[t].dev IN
       \E n \in {job[t].fd, dev[d].fd} :
         /\ fds' = AfterClose(fds, n)
         /\ dev' = [dev EXCEPT ![d].shut = TRUE,
                              ![d].again = @ \/ (dev[d].shut /\ n >= 0)]
  /\ Goto(t, "marking")
  /\ UNCHANGED <<devices, count, lock, job, opened>>

CloseMark(t) ==
  /\ pc[t] = "marking"
  /\ dev' = [dev EXCEPT ![job[t].dev].fd = -1]
  /\ Return(t)
  /\ UNCHANGED <<fds, devices, count, lock, opened>>

-----------------------------------------------------------------------------
Next ==
  \E t \in Threads :
    \/ CreateOpen(t) \/ CreateAbandon(t) \/ CreateBuild(t)
    \/ RegisterFull(t) \/ RegisterLock(t) \/ RegisterUnlock(t)
    \/ RegisterStoreSlot(t) \/ RegisterStoreCount(t)
    \/ DeviceOpen(t) \/ Access(t)
    \/ ScanEnd(t) \/ ScanFault(t) \/ ScanNext(t) \/ ScanFound(t)
    \/ LoadFd(t) \/ Io(t) \/ Reply(t)
    \/ CloseTest(t) \/ CloseFd(t) \/ CloseMark(t)

Spec == Init /\ [][Next]_vars

-----------------------------------------------------------------------------
\* Devices that some thread is still registering.
Registering == {job[t].dev : t \in {u \in Threads : pc[u] \in {"register", "storing"}}}

(***************************************************************************)
(* Whatever the order of concurrent registrations, no device is lost and   *)
(* none is listed twice: with the lock free, the first device_count slots  *)
(* hold distinct devices and every device that is in no slot was refused   *)
(* because the table is full.                                              *)
(***************************************************************************)
RegistrationsKept ==
  lock = NoThread =>
    LET listed == {devices[i] : i \in 0 .. count - 1} IN
      /\ NULL \notin listed
      /\ Cardinality(listed) = count
      /\ (1 .. Len(dev)) \ (listed \cup Registering) # {} => count = MaxDevices

(***************************************************************************)
(* A client that uses the handle it got from device_open never meets a     *)
(* half-registered slot, although the scan takes no lock and the stores of *)
(* the slot and of device_count may be seen in either order.  Any other    *)
(* scan meets one only while a registration has stored the count and not   *)
(* the slot yet.                                                           *)
(***************************************************************************)
OpenedHandleIsSafe ==
  \A t \in Threads :
    /\ pc[t] = "fault" => job[t].handle # Port
    /\ pc[t] = "scan" /\ job[t].i < count /\ devices[job[t].i] = NULL =>
         \E u \in Threads :
           pc[u] = "storing" /\ job[u].i = job[t].i /\ job[u].todo = {"slot"}

\* Two threads have closed one device: the second close took a number that
\* the device did not own any more.
ClosedTwice == \E d \in 1 .. Len(dev) : dev[d].again

(***************************************************************************)
(* A read or write reaches a file other than the one behind the device it  *)
(* found only if that device has been closed meanwhile (it then reaches    *)
(* nothing, or whatever has taken over the number), or if two threads      *)
(* closed one device.                                                      *)
(***************************************************************************)
StrayIoNeedsClose ==
  \A t \in Threads :
    pc[t] = "done" /\ job[t].got # dev[job[t].dev].file =>
      dev[job[t].dev].shut \/ ClosedTwice

(***************************************************************************)
(* Every open descriptor belongs to a device that was not closed or is     *)
(* being created, and a device that was not closed can be reached through  *)
(* the table, or is being registered, or was refused because the table is  *)
(* full: only those keep a descriptor that nobody can close.  Until two    *)
(* threads close one device, every owner has a descriptor of its own.      *)
(***************************************************************************)
DescriptorsAccounted ==
  LET owned  == {d \in 1 .. Len(dev) : ~dev[d].shut}
      making == {t \in Threads : pc[t] = "built_fd"}
      listed == {devices[i] : i \in 0 .. count - 1}
      owners == {dev[d].fd : d \in owned} \cup {job[t].fd : t \in making} IN
    /\ OpenFds(fds) \subseteq owners
    /\ owned \ (listed \cup Registering) # {} => count = MaxDevices
    /\ ~ClosedTwice =>
         /\ OpenFds(fds) = owners
         /\ Cardinality(OpenFds(fds)) = Cardinality(owned) + Cardinality(making)

(***************************************************************************)
(* machdev_xnu.c, line 222, device_read: "Find device by port".  A read or *)
(* write through the handle of an opened device is done on that device.    *)
(***************************************************************************)
IoOnOpenedDevice ==
  \A t \in Threads :
    pc[t] = "done" /\ job[t].handle = Port => job[t].dev = opened[t]
=============================================================================
