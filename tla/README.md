# Verification of hurd-xnu

TLA+ models of the parts of hurd-xnu that have code of their own and behaviour
worth checking, the TLC runs that check them, and TLAPS proofs about nine of
them. Every definition is translated from the C source; `PROJECT.json` maps
each definition to its lines. Paths below are relative to `src/`.

1. [The system](#1-the-system)
2. [Modules and their correspondence to the code](#2-modules-and-their-correspondence-to-the-code)
3. [Runs](#3-runs)
4. [Fairness](#4-fairness)
5. [Proofs](#5-proofs)
6. [Where the code and its own words disagree](#6-where-the-code-and-its-own-words-disagree)
7. [Not modelled](#7-not-modelled)
8. [Plan](#8-plan)

## 1. The system

hurd-xnu runs user-space servers in the style of the GNU Hurd on XNU. The
repository holds reduced servers, two driver shims, a bootstrap program, a demo
translator, the MIG stubs of ten interfaces and the support code they share. The
servers are separate programs (each file has a `main` under its own `*_TEST`
macro) that talk by Mach messages through the stubs; only the hello translator
has a message loop of its own, the others are made to be driven by Mach's
`mach_msg_server` around a stub's demux. What they have in common is the host
below them: descriptors, memory, pthread locks and Mach ports.

| Part | Source | State | Operations | Hard to get right |
| --- | --- | --- | --- | --- |
| refcount | `compat/refcount.h` | one 64-bit word: hard half, weak half | ref, deref, promote, demote, weak forms | races on the last reference; carries between the halves; assertions that run after the fact |
| machdev | `compat/machdev_xnu.c` | `devices[]`, `device_count`, `dev_lock`, an fd per device | create, register, lookup, open, read, write, close | scans without the lock; a handle that does not identify; fd reuse |
| LKL bridge | `compat/lkl_hurd_bridge.c` | table of 32 slots, `device_count`, `bridge_lock` | init, shutdown, add disk, add interface, read, write, info | slots used after the unlock; init without the lock |
| bootstrap | `compat/hurd_bootstrap.c` | server table with `running` flags | start, wait, status, shutdown; one thread per server | flags polled one at a time against threads that set them; timeout against late answers |
| hello translator | `hello_translator.c` | server port, `running`, constant content | io_read, io_readable, unknown; test client; join | replies to the right caller; signed offsets; shutdown of a blocked receiver |
| auth server | `compat/auth_xnu.c`, `compat/idvec.h`, `compat/ports_stub.c` | handles with four id vectors, receive rights | init, auth_makeauth | lifetime of handles; partial allocation failure |
| ext2fs | `compat/ext2fs_xnu.c` | handle table, count, lock, host fds | fourteen handlers | table wrap; unlocked reads; fallback to the working directory |
| pfinet | `compat/pfinet_xnu.c` | the same kind of table | twelve handlers | the same |
| rumpuser | `compat/rumpuser_xnu.c` | host files and pthread objects of the rump kernel | iovread, iovwrite, rwlock, rw_held, wrappers | short transfers between entries; a probe that takes the lock |
| MIG stubs | `compat/*Server.c`, `compat/*User.c`, `mig_test/` | the messages, a reply port per thread | 46 client halves, the server halves and demuxes of ten interfaces | two halves that must agree on every field; late replies; release of what a request brought; counts times sizes in 32 bits |
| proc server | `compat/proc_xnu.c` | process table, filled once | pid/task searches, wait | little alone: the table is constant, but `proc_wait` blocks the server |
| exec server | `compat/exec_xnu.c` | none | four constant answers | nothing alone |
| ihash | `compat/ihash_stub.c`, `compat/hurd/ihash.h` | hash table | constructor, destructor | load arithmetic |

Interactions:

- The auth server allocates its handles through the libports stubs, whose
  counter is `refcounts_t`: `AuthServer` uses the one fact about it that
  matters there (a deref from one reference leaves none), and `RefCounts`
  checks the counter.
- machdev, the bridge, ext2fs and pfinet all keep host descriptors, which are
  small numbers that come back after `close`. That one mechanism is the module
  `HostFds`, and every one of the four is composed with it.
- ext2fs and pfinet contain the same handle table up to names and tags: `HandleRing`
  is the table, `Ext2fs` and `Pfinet` are the handlers on it, `PosixServers`
  is a behaviour of either. rumpuser stands on the same host and is its third
  case, with locks and files of its own.
- A client half, the kernel, a demux, a server half and a handler make one RPC.
  `MigMessage` is the message and what the stubs check of it, the ten `*Stubs`
  modules are the interfaces, `MigRpc` composes them with the handlers of
  `ProcServer` and `ExecServer` and with what the handlers of ext2fs and pfinet
  put into replies; `AtMostOnce` is what all of it implements.
- bootstrap and the hello translator share a flag (`running`) between a main
  thread and server threads without a lock.

What makes each part correct, in short: a counter that counts exactly and tells
exactly one caller that the object is dead; tables whose entries are neither
lost nor duplicated; a handle that reaches what it was given out for; a
descriptor that is used for the file it was opened for and is closed by
somebody; a reported start that is one; a reply for every request, to its own
caller; arguments and results that arrive whole and in their places, a call
that succeeds only after it ran, once; vectors that survive failed allocations;
bytes that land where they are reported. `PROJECT.json` lists the individual hazards at their lines, each with
the properties that would notice.

## 2. Modules and their correspondence to the code

| Module | Models | Used by |
| --- | --- | --- |
| `RefWord` | the word arithmetic of `refcount.h`, as operators | `RefCounts` |
| `RefCounts` | threads sharing one `refcounts_t` | `MCRefCounts`, `RefCountsProofs` |
| `RefLifetime` | abstract: the life of a counted object | refined by `RefCounts` |
| `RefCountsProofs` | theorems about `RefCounts` | |
| `HostFds` | open, close and reuse of host descriptors (external) | `MachDev`, `LklBridge`, `HandleRing` |
| `MachDev` | `machdev_xnu.c` | `MCMachDev`, `MachDevProofs` |
| `MachDevProofs` | theorems about `MachDev` | |
| `LklBridge` | `lkl_hurd_bridge.c` | `MCLklBridge`, `LklBridgeProofs` |
| `LklBridgeProofs` | theorems about `LklBridge` | |
| `Bootstrap` | `hurd_bootstrap.c` | itself, `BootstrapProofs` |
| `BootstrapProofs` | theorems about `Bootstrap` | |
| `HelloTranslator` | `hello_translator.c` | itself, `HelloTranslatorProofs` |
| `HelloTranslatorProofs` | theorems about `HelloTranslator` | |
| `IdVec` | `idvec.h`, as operators | `AuthServer` |
| `AuthServer` | `auth_xnu.c` on `ports_stub.c` | `MCAuthServer`, `AuthServerProofs` |
| `AuthServerProofs` | theorems about `AuthServer` and the loop of `IdVec` | |
| `HandleRing` | `port_to_fd` and `fd_to_port` of both wrappers | `Ext2fs`, `Pfinet` |
| `Ext2fs`, `Pfinet` | the handlers | `PosixServers` |
| `RumpUser` | vectored I/O and rwlock of `rumpuser_xnu.c` | `PosixServers` |
| `PosixServers` | ext2fs, pfinet or rumpuser | `MCPosixServers`, `PosixServersProofs` |
| `PosixServersProofs` | theorems about `HandleRing` and `RumpUser` | |
| `MigMessage` | layouts, messages and the checks of the stubs | the `*Stubs`, `MigRpc` |
| `AuthStubs`, `ExecStubs`, `FilesystemStubs`, `FsStubs`, `FsysStubs`, `InterruptStubs`, `IoStubs`, `NotifyStubs`, `ProcessStubs`, `SocketStubs` | one interface each: both halves of every routine, and the demux | `MigRpc` |
| `ProcServer`, `ExecServer` | the handlers of `proc_xnu.c` and `exec_xnu.c` | `MigRpc` |
| `HurdInterfaces` | the ten interfaces together | `MCMigRpc` |
| `MigRpc` | clients, kernel, one server: the life of a call | `MCMigRpc`, `MigRpcProofs` |
| `MigRpcProofs` | theorems about `MigRpc`, for all interfaces whose layouts agree | |
| `AtMostOnce` | abstract: what a remote procedure call promises | refined by `MigRpc` |

The `MC*` modules only define constants and symmetry sets for TLC. Operators
named `X_Something` next to `X` and commented "Mutant" are wrong variants of
`X`, one plausible bug each; nothing uses them. Each property is known to fail
when one of them takes the place of the right definition.

**RefWord, RefCounts.** `word` is the `refcounts_t` as a pair of halves modulo
`Half` (2^32 in the code), with the carry from the low half into the high half
made explicit, since `refcounts_demote` depends on it and the others must not
meet it. A call is two steps: the `__atomic_*_fetch` (`Ref`, `Deref`, ...) and
then, on the value it returned, `Abort` or `Return`. `kind` records which
references exist, so that the word can be compared with reality; `told` counts
the callers that were handed `{0, 0}`. `StaleRef` is the misuse the assertions
exist for. `refcount_t` (one half alone) is the same algorithm.

**HostFds.** `open` takes the lowest free number, `close` frees it; `Reached`
is what a number refers to now, or nothing. This is what makes a stale number
dangerous, and it is assumed, not translated: it is how POSIX defines `open`.

**MachDev.** `devices`, `count` and `lock` are the file's variables; `dev` is
the heap of `struct machdev`. `RegisterStoreSlot` and `RegisterStoreCount` are
the two stores of `devices[device_count++] = dev`, in either order, because
`device_read` and `device_write` scan the table without the lock. The scan is
one step per slot (`ScanNext`, `ScanFound`, `ScanEnd`), and meeting an empty
slot is `ScanFault`. `LoadFd` and `Io` are the load and the use of the
descriptor. `file_dev_close` holds no lock, so its test, its `close` and its
store of -1 are three steps (`CloseTest`, `CloseFd`, `CloseMark`) that any
number of threads may be at; the number that is closed is the one that was
tested or what the field holds by then. The history fields `shut` and `again`
of a device say that it was closed once, and that a number was closed for it
once more. The handle every `device_open` returns is the one value `Port`:
nothing assigns `dev->port`.

**LklBridge.** `lkl_hurd_bridge_init` takes no lock, so `InitClear` (the
memset) and `InitCount` are steps, and they may fall into the critical section
in which a device is added. That section is therefore taken apart: `AddLock` or
`NetLock`, one `AddStore` for each field of the slot, `AddCount` for
`device_count++` (of the count that chose the slot, or loaded again), and
`AddUnlock`. The stores come in any order, which also stands for a memset that
is seen field by field: either way some fields keep what was stored and the
others are wiped. A wiped slot names descriptor 0. The other critical sections
touch nothing that init does not write whole, and are one step each (`Find`,
`Shutdown`); `Use` is the access to the slot after the unlock. `resets`, `cut`
(a memset came between the stores of an addition) and `lost` (descriptors that
init put out of reach) are history. Type, name and path of a device are one
field, names are not empty, and one administrator calls init and shutdown, so
these two do not overlap each other.

**Bootstrap.** The main thread's loops are unrolled into one step per flag
that is read (`ScanRunning`, `ScanNotRunning`) or written (`Stop`); a server
thread is created, runs its init, and sets its flag on success. A server may
stay in its init for ever. Sleeping orders nothing.

**HelloTranslator.** The port is a bounded queue; a call carries a send-once
right and so gets at most one reply. `TestRunning` and `ServerReceive` are
separate steps, which is where the shutdown goes wrong. `ReadReply` is
`handle_io_read` with its limit arithmetic; offsets may be negative. A request
may be too large for the server's buffer (`ServerReceiveFails`), and the send of
a reply whose data begins before the content fails if nothing is mapped there
(`HandleFails`, whose error the code prints and forgets); in both cases the
client gets nothing, or the kernel's notice that its right was destroyed. That
the kernel has memory for messages is assumed.

**IdVec, AuthServer.** A vector is a sequence of ids and the capacity of its
block; an operation that may reallocate yields the set of its outcomes. The loop
that doubles the size is the recursive function `grown` of `NewSize`.
`auth_makeauth` is: `Makeauth` (create the port or fail), one `Merge` per
vector with the result ignored, `GetRight`, `Deref`, `Free`, `Reply`. `Deref`
is the deallocation of the port's name and `Free` the release of the struct, so
that the name may be given out again while the struct is still there; addresses
are handed out again after `Free`. `Deallocate` leaves open whether
`mach_port_deallocate` of a receive right succeeds.

**HandleRing, Ext2fs, Pfinet, PosixServers.** `TestSlot` and `LoadSlot` are the
two unlocked reads of `port_to_fd`; `LockTable`, `Bump`, `Store` are
`fd_to_port`. A client presents either a handle it was given (`meant` names the
grant) or any number. Each handler is what it does with the descriptor: open
from it, use it, fail, or fall back to the working directory. `dir_readdir`
opens a second descriptor with `dup` (`Readdir`) and closes it with the listing
(`ListDone`), or leaves it open when `fdopendir` fails (`ListFails`, counted in
`leaked`). `dir_rename` resolves two handles, one after the other (`Rename`,
`RenameTo`); the model picks the second one only when it is read, which adds
requests that name a handle granted meanwhile and leaves none out. One server
is one process, and a behaviour is of one of them with any number of threads in
its handlers, as its demux may be driven; `ServerInit` chooses which.

**RumpUser.** A byte of the file is written as the position it is meant for
and a byte of a buffer as the position it was read from, so that a misplaced
byte is visible. Vectors have two entries, one host call each. Only the
per-entry branches are modelled, with the `pread` and `pwrite` that follow an
explicit offset. In `PosixServers` it is the behaviour with `server` =
"rumpuser"; the state of the processes that are not running stays as it was.

**MigMessage, the stubs.** A layout is the descriptors and the inline fields of
a message in their order, with the bytes that make up its size; a value is a
token for "argument i of call k", so that a field that is read from the wrong
place is visible, and an array has its length beside it and its size in bytes
modulo `Word` (2^32). For each routine `r` of an interface there are four
definitions: `r_Request` is the shape that `__MIG_check__Request__r_t` tests,
`Xr` the server stub `_Xr` (what it passes on, frees and returns), `r_Reply` the
shape that `__MIG_check__Reply__r_t` tests, `r` the client stub with what it
sends. They are translated from different files on purpose, and `MigRpc` assumes of them
what has to be true of any two such halves: each layout names every value once,
with one count beside each array (`WellFormed`, `RoutinesAreSound`,
`StubsAreSound`); the message that one half fills passes the check of the other,
arguments and results in the same order, and fails the check of another
interface's routine with the same id (`Passes`, `Refuses`, `StubsAgree`). TLC
evaluates these assumptions on the ten interfaces before it starts, so a stub
with a wrong disposition, or two results in each other's place, stops `mig_rpc`
as a false assumption; `HurdInterfaces` is the constants `Demux` and `CallersOf`
of that run. The `table` of a demux is the subsystem's
array of routines, ids that it leaves empty included. fs, fsys, interrupt and
notify have a server half only; `CallerOf` makes the caller that the server half
asks for, which is not a check of anything and is marked external.
`CheckRequest` and `CheckReply` are the generated checks in their order, with
the error each one gives.

**MigRpc.** A call is `Send` (fill, take the thread's cached reply port, the
send half of `mach_msg`) and `Receive` (the receive half, the check, the
results), each of which may fail: `SendFails`, `ReceiveFails`, with
`__MachMsgErrorWithoutTimeout` deciding what becomes of the reply port. The
server takes a request and refuses it (`Refuse`) or calls the handler
(`Invoke`); `HandlerReturns` deallocates what the stub deallocates, and fills
the reply; `SendReply` sends it and destroys what an error reply leaves, as
Mach's server loop does. A late reply goes to a port that is gone. The server
may die (`ServerDies`): waiting callers get the send-once notification. `heap`
is what the server task holds out of messages and `held` what the clients do.
The loop, the ports and the notifications are Mach's and are modelled from how
the stubs use them. `ReturnsSlot`, `Allocates` and `MayWait` say of the handlers
of ext2fs, pfinet and proc what matters to a stub: that they put a slot of a
table where a right belongs, that they allocate what they return, that they may
block. A slot's number with its tag lies among the names of the server's own
task, so it names no right, and the reply cannot be sent ("slot"), or it happens
to name one ("named"): then the reply sends a copy of that right, which is a
result but not what the caller asked for. `Ways` has both. For the other
handlers any outcome is possible.

**ProcServer, ExecServer.** The set of outcomes of each handler: its code and
the length of the arrays it returns. The process table is the one entry that
`proc_server_init` leaves.

## 3. Runs

| Run | Instance | Shows |
| --- | --- | --- |
| `refcounts` | 2 threads, 4 references, halves modulo 4 | the counter is exact in every interleaving; one caller is told; assertions fail only for a reason and then always stop the process; the lifetime specification is implemented, liveness included |
| `machdev` | 2 threads, 2 slots, 3 devices, 3 descriptors | registrations are kept, a client with a handle never meets an empty slot, stray I/O needs a close of that device or a double close of any, descriptors are accounted for |
| `machdev_wrong_device` | 2 threads, 2 slots | violation: see section 6 |
| `lkl_bridge` | 2 users, 1 name, 2 slots, 2 descriptors, 2 resets | active disks are backed by their own descriptors through shutdowns and initialisations, unless a memset cut an addition, and then all but number 0; stray I/O needs a reset in between or a slot cut so |
| `lkl_stale_io` | the same | violation |
| `bootstrap` | 5 servers, 2 polls | a start without a warning is complete; the bootstrap always ends |
| `hello` | main and 2 clients, 2 bytes of content, queue of 1 | replies match calls, failed sends and receives included; no request is doubled, and none is lost but of the named kinds; the test client finishes |
| `hello_join` | main alone | violation |
| `auth` | 2 threads, 2 vectors, blocks from 1 id | no struct leaks or is shared; vectors are whole after failures |
| `auth_newhandle` | 1 thread, 4 vectors | violation |
| `posix_servers` | 2 threads, 2 slots, 4 descriptors, 2 calls each; rumpuser: file of 3, room of 1, entries of 1 and 2 | handles resolve until the wrap; unlocked reads never see a hole; descriptors are counted; only strangers reach the working directory; gaps in vectored I/O need a file that grows or room that comes back, and the lock's probe leaves it as it was |
| `mig_rpc` | 2 clients, 2 calls, every stub with another of its interface, every stub with every server | the two halves of every routine agree; a late reply never answers another call; requests are released once; errors mean what they say; calls return; `AtMostOnce` is implemented |

Bounds and why they are enough:

- *Two threads.* Every hazard here is a race of two parties (two callers, or a
  caller and the owner). The proofs cover any number where they exist.
- *`Half` = 4, four references.* Three references fill a half, the fourth
  overflows it: both limits, both carries and their combination happen. The
  proofs hold for every `Half` above 2, so this bound carries no risk.
- *Two slots, and three or four descriptors.* The smallest table that can fill
  while a descriptor is still to be had, and a descriptor table in which a freed
  number is taken again at once. ext2fs has four, so that a listing's second
  descriptor can be lost and the table still wrap. `MaxCreated`, `MaxResets`
  (tested in `Shutdown` and in an `InitClear` of a bridge that is up) and
  `MaxCalls` are bounds of the models, not of the code, and each lets the table
  fill, wrap, be reset and be used again.
- *The bridge with two descriptors.* Two disks fill the table; 0 is one of the
  numbers, which a wiped slot names, and 1 is one that it does not. Two resets
  are a memset in the middle of an addition followed by a shutdown that closes
  what the cut slot names, or a shutdown, an init and a use.
- *Two polls* stand for the fifty of the timeout: a poll that fails, and a last
  one.
- *Content of two bytes, offsets -1 to 3* put an offset before, inside, at the
  end of and after the content, with amounts below, at and above the rest. A
  queue of one is full as soon as one message waits.
- *Blocks from one id, vectors up to two ids* make a vector grow from nothing,
  at its boundary, and past one doubling.
- *Room of one byte* makes a host that runs out in the middle of a vector and
  recovers.
- *The menus of `mig_rpc`.* Calls meet only in the server's queue, in its one
  request at a time and in a thread's reply port, so two calls of two clients,
  or of one client after the other, are every way in which one can disturb
  another; each stub is paired with one other of its interface. Arrays of two
  calls have one element; the stubs whose requests have arrays make one call
  with 17. One call of every stub to every server covers the ids that interfaces
  share.
- *`Word` = 64* stands for 2^32. An argument array i has `first` + i - 1
  elements, so no two arrays of a request are equally long and a count that is
  read for the wrong array is noticed. `first` is 1, or 17, which times the four
  bytes of an element exceeds the word by four; replies have 1 or 17 elements.

Runs with `CHECK_DEADLOCK FALSE` are those whose calls are bounded or whose
program ends; after the last call nothing remains to be done. `refcounts`
also ends: all references dropped, or the process aborted. Symmetry is used
for threads, files and names only in runs of safety properties.

## 4. Fairness

- `RefCounts`: weak fairness of `Abort` and `Return` for each thread. A thread
  that has done its atomic operation is running ordinary code and reaches its
  assertion. Nothing is assumed about starting operations.
- `Bootstrap`: weak fairness of the main thread only. No server is assumed to
  finish its init; that is the point of the timeout.
- `HelloTranslator`: weak fairness of the server thread and of the main thread,
  which the host schedules whenever they can run. Other clients are never
  obliged to do anything, not even to collect a reply. With the queue full the
  main thread's send is enabled again and again but not continuously;
  `TestCompletes` holds because other clients make finitely many calls in the
  model (`MaxCalls`). With endless callers it would depend on the kernel's
  order of blocked senders, which is outside this repository.
- `MigRpc`: weak fairness of the server's steps and of each client's receive.
  The kernel runs a thread that has a message and a server that has a request.
  `HandlerReturns` is fair except for handlers that wait for somebody else
  (`waitpid`, `accept`, `connect`, `send`, `recv`, and the `openat` of
  dir_lookup, which waits for the other end of a FIFO), which may never return.
  Nobody has to call, die or fail. `CallsReturn` says accordingly that a call
  returns unless the one server thread waits.

All other models check safety and state no fairness.

## 5. Proofs

`tlapm` proves every obligation of `RefCountsProofs`, `BootstrapProofs`,
`PosixServersProofs`, `LklBridgeProofs`, `MachDevProofs`,
`HelloTranslatorProofs`, `AuthServerProofs` and `MigRpcProofs`. The three about
host descriptors start with the same lemmas: `open` takes a free number and
leaves the others alone (which needs that the smallest of a set of naturals is
one of them, from the well-foundedness of <), `close` frees its own. What TLC
establishes for an instance, these establish for all values of the constants.
Every constant's assumption is one that the code meets; TLC evaluates them in
each run.

**RefCounts**, assuming `Half > 2`, `Refs` finite, and stale calls only of
`ref` and `ref_weak`; any number of threads:

| Theorem | States |
| --- | --- |
| `TypeCorrect` | `Spec => []TypeOK` |
| `WordIsExact` | `Spec => []WordCountsReferences` |
| `ToldOnce` | `Spec => []LastReferenceToldOnce` |
| `AbortsAreJustified` | `Spec => NoSpuriousAbort` |
| `ImplementsSafe` | every step is a step or a stutter of `RefLifetime` |

`WordCountsReferences` is not inductive alone. After an overflow, the word and
the references disagree, and the invariant must know that in that case some
assertion is already failing and that no step can take that back: a thread
between its atomic operation and its assertions keeps the result it got
(`result[t]`), so a failing thread stays failing. Conversely, while nobody
fails, each half is below its limit, so the next operation changes a half by
one without carry; for promote and demote the two halves move in opposite
directions and the carry is the one that is wanted. `LastReferenceToldOnce`
needs that argument and a count of the threads that hold a `{0, 0}` not
returned yet: a deref to zero adds one, its return turns it into `told`, and
with no reference outstanding no further operation starts except a stale one,
whose assertion fails.

**Bootstrap**, for every number of servers and every timeout:

| Theorem | States |
| --- | --- |
| `TypeCorrect` | `Spec => []TypeOK` |
| `CleanStart` | `Spec => []CleanStartIsComplete` |

`TypeOK` needs `LoopsInRange`: each loop index is within the loop's own bounds,
which differ from loop to loop. `CleanStartIsComplete` needs three more:
`FlagsFollowThreads` (a flag is set only by a thread that has ended its init,
and is cleared only by the shutdown), `ScanIsRight` (while the scan runs with
all_running set, the flags below the index are set, and still are: nobody
clears a flag before the shutdown) and `ReportIsRight` (the status and
shutdown loops have dealt with exactly the servers they passed).

**HandleRing** under `PosixServers` (all three cases), for every size of the
table and of the descriptor table, every number of threads and calls, assuming
that the working directory is none of the files that handles are given out for
(`Cwd` is not in `Files`):

| Theorem | States |
| --- | --- |
| `HandlesAlwaysResolve` | `Spec => []HandlesResolve` |
| `RequestsAlwaysReach` | `Spec => []RequestsReachTheirSlot` |
| `StrangersOnly` | `Spec => []OnlyStrangersReachCwd` |
| `DescriptorsStayAccounted` | `Spec => []DescriptorsAreAccounted` |
| `TypeCorrect` | `Spec => []AllTypesOK`, together with RumpUser |

The invariant `RingInv` says: between lock and unlock the index that was read is
still the count (`Critical`), a handler on its way through `fd_to_port` has an
open descriptor (`NewIsOpen`), every slot that was given out holds what it was
given out for then or later (`SlotsHold`), and before the wrap all of them are
below the index in use (`BelowCount`), which makes the next slot a new one. The
two unlocked reads of `port_to_fd` need no more than `SlotsHold`: a slot that
was filled is never emptied, so the second read finds an object of the same
slot, of the grant the client means or of a later one (`JobHolds`). The modulo
needs one fact of arithmetic: below the size it changes nothing.

`DescriptorsAreAccounted` needs a ledger besides (`LedgerInv`). The next index is
the number of handles given out, whoever holds the lock (`NextIsKnown`); the slots
are filled in turn (`SlotsInTurn`); no descriptor is in two slots (`InOneSlot`).
`Owned`, of `RingInv`, says that what is in a slot or was read from one is open,
and is in the hands of no handler that opened a descriptor: otherwise the
`closedir` of a listing could close what a slot holds. Then the open descriptors
that no handler holds are as many as the handles given out and the descriptors
that listings left open, and those of them that no slot holds are as many as the
handles beyond the table's size and those of the listings (`CountsAgree`): a
store into an empty slot loses nothing, a store after the wrap loses exactly the
descriptor that it overwrites.

`OnlyStrangersReachCwd` also covers the first handle of a rename, which was
resolved before the second: `FirstHolds` keeps its descriptor, and `NotYet` says
that a request has reached nothing before its handler ran.

**LklBridge**, for every size of the tables and every number of users and
resets:

| Theorem | States |
| --- | --- |
| `TypeCorrect` | `Spec => []TypeOK` |
| `DisksStayBacked` | `Spec => []ActiveDisksAreBacked` |
| `DescriptorsHaveOwners` | `Spec => []DescriptorsAccounted` |
| `StrayIoIsLate` | `Spec => []StrayIoNeedsReset` |

`BridgeInv` adds to these properties what makes them inductive. A call that adds
a disk owns its descriptor alone until it leaves the critical section
(`HoldersAreBacked`, `NoneIsShared`), and an active disk owns the one it names
(`DisksAreBacked`); both are limited to numbers that are `Safe`, since a slot
that init has cut names 0 and a shutdown closes that number for whoever has it.
A network interface has none (`NetsHaveNone`). `FillIsKnown` says what a call
finds in the slot it is filling: each field it has stored is there or was wiped,
all are there unless a memset came in between, and if the descriptor is not out
of reach then neither the mark nor the count is missing. `StrayIoNeedsReset`
rests on `FoundIsThere`: until the next reset the slot a user found holds the
disk it found, because additions go into other slots.

**MachDev**, for every size of the tables and every number of threads and
devices:

| Theorem | States |
| --- | --- |
| `TypeCorrect` | `Spec => []TypeOK` |
| `RegistrationsAreKept` | `Spec => []RegistrationsKept` |
| `OpenedHandlesAreSafe` | `Spec => []OpenedHandleIsSafe` |
| `StrayIoIsAfterClose` | `Spec => []StrayIoNeedsClose` |
| `DescriptorsHaveOwners` | `Spec => []DescriptorsAccounted` |

The table's half of `MachInv` is about `Base`, the number of slots that are
filled whatever the count says: the count while the lock is free, and the index
that its holder read while it is held. All slots below `Base` hold different
devices (`BaseIsFilled`), a device that is being registered is in none of them,
and the count with the slot tells which of the two stores are done
(`StoresAreKnown`). An opened device implies that `Base` is positive
(`OpenedAreListed`): that is why a client with a handle, whose scan stops at
slot 0, cannot meet an empty slot, while a client with another number can. The
descriptors' half (`DescInv`) is ownership. Always, an open number belongs to a
device that is not closed or to a call that is making one (`NoneIsUnowned`).
That each of these has an open number of its own (`Backed`) holds until two
threads have closed one device (`ClosedTwice`): the second `close` may take
what another owner was given. A thread inside a close of a device that nobody
has closed yet still has the device's own number (`ClosersKnow`), so that a
first close harms nobody. From these the two properties that count follow by
one-to-one maps between finite sets.

**RumpUser** under `PosixServers`, for every size of the file and of the room,
all lengths of the two entries and every number of threads and calls:

| Theorem | States |
| --- | --- |
| `LockIsKept` | `Spec => []LockIsHeldByItsUsers` |
| `ReadsHaveNoGap` | `Spec => []ReadGapsNeedGrowth` |
| `WritesAreInPlace` | `Spec => []WriteGapsNeedRoom` |
| `TypeCorrect` | `Spec => []AllTypesOK`, together with HandleRing |

`RumpInv` knows in which mode each thread is inside the lock (`Modes`), so that a
writer is alone and a reader that took the lock sees no growth. For a read it
gives the two counts of bytes of which the buffers are made (`Reading`), and
that between the two host calls a short first entry means that the file ends
there, or has grown since, in which case the read took no lock. For a write it
says that between its host calls a short first entry means that the host had no
room left; unless room comes back, the second host call then transfers
nothing. That `total` counts what is stored follows from the two filled places
being disjoint intervals. `AllTypesOK` has a bound in it, the size of the file, and
so `SizeInv`: what a write has moved ends inside its start and the lengths of both
entries, what a read has moved ends inside the file. Vectors of more than two
entries are beyond the model.

**HelloTranslator**, for every number of clients, every limit of the queue, and
all lengths, offsets and amounts:

| Theorem | States |
| --- | --- |
| `TypeCorrect` | `Spec => []TypeOK` |
| `CallsAreInOnePlace` | `Spec => []OneRequestPerCall` |
| `RepliesAlwaysMatch` | `Spec => []RepliesMatchCalls` |

`HelloInv` follows a call on its way: a request on the queue is the present call
of a client without a reply, and alone there (`QueuedAreCalls`); so is the one
that the server works on, which is not on the queue (`HandledIsCall`); a reply
answers the present call of its owner, or is the notice of one that was dropped
(`RepliesAnswer`); and no call is lost but the ones that may be dropped
(`CallsAreSomewhere`): those of an unknown id, those too large to receive, and
reads whose data begins before the content. What a reply says is then the lemma
`ReadReturnsContent` about the limits of `handle_io_read`: the places that it
returns are those of the places asked for that the content has, for offsets that
are not negative.

**AuthServer**, for every number of handlers, of kinds of ids and of ids in a
request, every size of the first block and every number of structs and port names,
assuming only that the root's id is an id, that there is a kind, and that the
sizes are numbers:

| Theorem | States |
| --- | --- |
| `TypeCorrect` | `Spec => []TypeOK` |
| `HandlesStayOwned` | `Spec => []HandlesAreOwned` |
| `VectorsStayWhole` | `Spec => []VectorsAreWhole` |

`AuthInv` says that no two handlers work on one struct (`OwnCells`), that every
struct but the root's is some handler's (`AllOwned`), and that each has a receive
right of its own while it has a reference (`OwnRights`): between `Deref` and
`Free` its name may already be another's. `HandlesAreOwned` counts; the count follows because
the handlers at work are mapped one-to-one onto the structs that are not the
root's (`CountOfHandles`). `VectorsAreWhole` depends on the loop of `idvec_ensure`,
which is a recursive function: that there is one (`LoopRuns`) and that it stops
at a size that holds what is needed (`LoopEnds`, `NewSizeFits`) is proved from
the smallest counterexample that the well-foundedness of < would give.

**MigRpc**, for all interfaces whose layouts meet the assumptions above, every
number of clients and calls, all lengths of arrays and every width of the size
fields:

| Theorem | States |
| --- | --- |
| `TypeCorrect` | `Spec => []TypeOK` |
| `TrueErrors` | `Spec => []ErrorsAreTrue` |
| `OwnArguments` | `Spec => []ArgumentsArrive` |
| `OwnResults` | `Spec => []ResultsArrive` |
| `MessagesReleased` | `Spec => []MessagesAreReleased` |
| `ImplementsAtMostOnce` | `Spec => AtMostOnce` |

The first half is about one message. `Carries` says what a message says that was
filled from a layout and delivered; `PassesChecks` and `RefusesChecks` say what a
check makes of it, the arithmetic being that a size below `Word` gives the number
of elements back (`WholeElements`); `ReadsMeant` that what is read from a message
that passed is what was put in, each value in its place. From these follow what a
stub makes of each of the three kinds of replies (`ResultsAreTaken`,
`ErrorsAreTaken`, `NotificationsAreTaken`) and what the server half makes of a
request (`Verdicts`, `HandlersAreGiven`).

The second half is the invariant `IInv`, which follows a call on its way. A thread
waits in one call at most and has a port of its own (`CallsInv`, `PortsInv`);
requests that wait, and the one in service, are those of different calls and
exactly what their callers filled (`RequestsInv`, `ServingInv`); if the reply port
of a request in flight still exists then its caller waits there, and it is empty
(`TrafficInv`): that is where the stub's choice between keeping and dropping a
reply port after a failure matters; a port holds nothing or one answer to the call
that waits there (`InboxInv`, `MessageFor`); and what the server task holds is what
its request has left, a right that a handler took, or one of the two exceptions
(`HeapInv`). `TrafficInv` keeps an answer from meeting another in a port, which is
why `ResultsArrive` and `AtMostOnce` hold after any number of failed receives. For
the refinement, `Send` is `Submit`, or `Fail` at once when it fails, `Invoke` is
`Execute`, and a `Receive` is `Succeed`, for which `ResultsArrive` supplies the run,
or `Fail`; every other step changes neither the calls nor the runs.

Only model-checked:

- the liveness properties `DoomedAborts`, `BootstrapEnds`, `TestCompletes` and
  `CallsReturn`, and the liveness half of `ImplementsLifetime` (liveness under
  fairness, and ENABLED, are beyond the provers used here);
- that the layouts of the ten interfaces satisfy the assumptions of `MigRpc`: a
  size is a fold over a layout, and what a fold computes is not provable here.
  They are constants of the code, so TLC evaluates the very ones that exist.

## 6. Where the code and its own words disagree

Each of these is a run whose property is a sentence of the repository, and
which TLC refutes:

- **All machdev handles are the same** (`machdev_wrong_device`).
  `compat/machdev_xnu.c:214` returns `dev->port`, which nothing assigns, so the
  search "by port" (line 222) always ends at the first device.
- **A bridged disk is used after the lock** (`lkl_stale_io`). Between the
  unlock and `pread`/`pwrite` at `compat/lkl_hurd_bridge.c:246` a shutdown may
  close the descriptor and another open take its number. `lkl_bridge` shows
  that this needs a reset in between.
- **The hello translator does not shut down** (`hello_join`). The server tests
  `running` and then receives without a timeout
  (`hello_translator.c:148`); the join at line 317 waits for ever.
- **makeauth returns a dead handle** (`auth_newhandle`).
  `compat/auth_xnu.c:117` drops the only reference before the reply.

Met while modelling, without a run of their own:

- Two threads that close one machdev device both pass the test at
  `compat/machdev_xnu.c:117` before either stores -1 at 119, and the second
  closes a number that may be another device's by then. `StrayIoNeedsClose` and
  `DescriptorsAccounted` say what holds until that happens and what holds after.
- The memset of `compat/lkl_hurd_bridge.c:121` is not under `bridge_lock`. In
  the middle of an addition it leaves an active disk that names descriptor 0,
  which is not its own; `ActiveDisksAreBacked` and `StrayIoNeedsReset` limit the
  harm to that number.
- The hello translator prints a failed send (`hello_translator.c:100-106`) or a
  failed receive (154-157) and goes on; the client of such a call waits, unless
  the kernel tells it. `OneRequestPerCall` names the calls that can meet this.
- dir_readdir gives `fdopendir` a `dup` of its descriptor
  (`compat/ext2fs_xnu.c:100`) and returns at 101 without closing it when
  `fdopendir` fails, as it does for the handle of a plain file.
- `compat/hurd_bootstrap.c:203` prints that all servers stopped. After a start
  with the warning, a server that is still in its init sets its flag later.
  `CleanStartIsComplete` is limited to starts without the warning for this
  reason. Lines 238-239 promise a start in the correct order; only a pause of
  50 ms orders the servers.
- `hello_translator.c:172`, the default case, says "Send error reply" and sends
  none; `OneRequestPerCall` leaves unknown ids out. At line 75 a negative
  offset passes the test against the length and reads before the content,
  where `tests/hello_xnu.c:56-57` clamps it; `RepliesMatchCalls` leaves
  negative offsets out.
- The class's clean routine (`compat/auth_xnu.c:42`) is never called by
  `compat/ports_stub.c:54`, so the id blocks of a dead handle stay allocated
  (`lost` in `AuthServer`); the results of the four merges
  (`compat/auth_xnu.c:110-114`) are ignored, so a makeauth may return a handle
  with some vectors empty and no error. `VectorsAreWhole` states what remains
  true.
- The handle tables wrap over slots in use (`compat/ext2fs_xnu.c:40`,
  `compat/pfinet_xnu.c:40`) and never close what they overwrite.
  `HandlesResolve` states until when a handle is good, `DescriptorsAreAccounted`
  that nothing is lost but what the wrap overwrites and what dir_readdir leaves
  open. `dir_mkfile` ignores its directory.
- `rumpuser_rw_held` (`compat/rumpuser_xnu.c:429`) reports whether the lock
  could not be taken, whoever holds it; a reader asking about its own read lock
  is told 0.

- The stubs, each noticed because a property of `mig_rpc` had to say so:
  - the fs and the filesystem demux are both named `fs_server`
    (`compat/fsServer.c`, `compat/filesystemServer.c`), so they cannot be linked
    together; fsys and filesystem share the ids 22000 to 22002, and a request to
    the wrong one is refused only because sizes and descriptors differ
    (`StubsAgree` assumes that they do, and TLC evaluates it on them);
  - `string_t` is a `char *` in `compat/mach.h:70` and a `c_string` in the
    interface definitions: the stubs send the pointer, eight bytes that mean
    nothing in another task;
  - an array of 2^30 elements or more has a size that wraps in 32 bits
    (`compat/authUser.c:569`), and the check refuses the call because the count
    beside it has not. `ErrorsAreTrue` excludes exactly these;
  - dir_lookup, dir_mkfile, socket_create and socket_accept return the number of
    a table slot where a right belongs (`compat/ext2fs_xnu.c:43`): the reply
    cannot be sent and the caller is told that the server died, or the number
    happens to name a right of the server's task and the caller gets that one;
  - no descriptor is sent with deallocate set, so what dir_readdir,
    file_getstat, io_read, socket_recv, socket_getopt and proc_getallpids
    allocate for a reply stays allocated; a stub forgets the rights of an array
    with its memory, so a request with an array of rights whose handler fails
    leaves them in the server. `MessagesAreReleased` names both exceptions;
  - proc_wait with WNOHANG and no child returns a status it never set
    (`compat/proc_xnu.c:113`), and exec_startup_get_info leaves the addresses of
    its empty arrays unset (`compat/exec_xnu.c:99`).

## 7. Not modelled

- *ihash*: only the constructor and destructor have code. The `.defs` files, the
  headers and the vendored rump, LKL and device headers have no behaviour.
- Of the messages: NDR records, trailers, vouchers and the port fields of the
  header, which no stub of the repository tests for anything but a constant. Of
  the transport: reordering, since a Mach port is a queue.
- *tests*: clients; used as statements of what is promised.
- *startup, init, term, symlink, devnull, tmpfs, rumpdisk, rumpnet* are listed
  by the repository's README but their sources, and the `hurd` and `xnu`
  submodules, are not in it.
- Of rumpuser: mutexes, condition variables, threads, memory, clock, random and
  console, each one host call; and the `readv`/`writev` branches.
- Memory orders weaker than sequential consistency, except where two plain
  stores race with a plain reader (`MachDev`), which happen in either order.
- What host files, directories and sockets contain.

## 8. Plan

Done: every component with code of its own, except the parts named in section
7; the composition of the stubs with the handlers; two refinements
(`RefLifetime`, `AtMostOnce`); proofs of the types and of every safety property
of RefCounts, Bootstrap, HandleRing, RumpUser, LklBridge, MachDev,
HelloTranslator, AuthServer and MigRpc, and of `AtMostOnce`.

Next, to model:

1. `IdVec` as a machine of its own: insert, add, delete and merge in any
   order, against sets of ids.
2. rumpuser mutexes, condition variables and threads, composed with the rwlock.
3. The load factor of ihash, as an operator against its definition.
4. `MigRpc` with more than one server thread, once a server of the repository
   has one.

Abstract specifications worth stating for these: a set of granted handles for
`HandleRing`, refined until the wrap; a map from names to files for the bridge.
