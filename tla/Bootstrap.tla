----------------------------- MODULE Bootstrap -----------------------------
(***************************************************************************)
(* The bootstrap of the core servers (compat/hurd_bootstrap.c).  The main  *)
(* thread creates one thread per server, polls their running flags until   *)
(* all are set or the timeout is over, reports the status and shuts down.  *)
(* Each server thread runs its init function and, on success, sets its     *)
(* flag.  Sleeping only delays: it orders nothing, so every interleaving   *)
(* of the main thread with the server threads is a behaviour.              *)
(***************************************************************************)
EXTENDS Integers, FiniteSets

CONSTANTS N,         \* number of servers: auth, proc, exec, pfinet, ext2fs
          MaxPolls   \* timeout_ms / 100: 50 in the code

ASSUME BootAssumption == N \in Nat \ {0} /\ MaxPolls \in Nat \ {0}

Servers == 1 .. N

VARIABLES
  main,      \* where the main thread is
  at,        \* its loop index
  allRunning, waited,
  warned,    \* the WARNING of hurd_bootstrap_start has been printed
  thread,    \* per server: "none", "created", "init", "up", "ended", "failed"
  running,   \* per server: the flag
  counted    \* servers that hurd_bootstrap_status found running

vars == <<main, at, allRunning, waited, warned, thread, running, counted>>

TypeOK ==
  /\ main \in {"init", "start", "wait", "scan", "status", "shutdown", "stopped",
               "failed"}
  /\ at \in 0 .. N + 1
  /\ allRunning \in BOOLEAN /\ warned \in BOOLEAN
  /\ waited \in 0 .. MaxPolls
  /\ thread \in [Servers -> {"none", "created", "init", "up", "ended", "failed"}]
  /\ running \in [Servers -> BOOLEAN]
  /\ counted \subseteq Servers

Init ==
  /\ main = "init" /\ at = 1
  /\ allRunning = FALSE /\ waited = 0 /\ warned = FALSE
  /\ thread = [s \in Servers |-> "none"]
  /\ running = [s \in Servers |-> FALSE]
  /\ counted = {}

-----------------------------------------------------------------------------
(* hurd_bootstrap_init and hurd_bootstrap_start                            *)

\* The bootstrap port is allocated, or the program ends.
BootInit ==
  /\ main = "init"
  /\ main' \in {"start", "failed"}
  /\ UNCHANGED <<at, allRunning, waited, warned, thread, running, counted>>

StartServer ==
  /\ main = "start" /\ at <= N
  /\ thread' = [thread EXCEPT ![at] = "created"]
  /\ at' = at + 1
  /\ UNCHANGED <<main, allRunning, waited, warned, running, counted>>

\* pthread_create failed: hurd_bootstrap_start returns -1.
StartFails ==
  /\ main = "start" /\ at <= N
  /\ main' = "failed"
  /\ UNCHANGED <<at, allRunning, waited, warned, thread, running, counted>>

StartedAll ==
  /\ main = "start" /\ at > N
  /\ main' = "wait"
  /\ UNCHANGED <<at, allRunning, waited, warned, thread, running, counted>>

-----------------------------------------------------------------------------
(* wait_for_servers                                                        *)

\* Mutant: the timeout is tested after one more poll.
WaitLoop_OneTooMany ==
  /\ main = "wait" /\ waited <= MaxPolls /\ ~allRunning
  /\ main' = "scan" /\ at' = 1 /\ allRunning' = TRUE
  /\ UNCHANGED <<waited, warned, thread, running, counted>>

\* The loop condition: scan the flags once more, or return.
WaitLoop ==
  /\ main = "wait" /\ waited < MaxPolls /\ ~allRunning
  /\ main' = "scan" /\ at' = 1 /\ allRunning' = TRUE
  /\ UNCHANGED <<waited, warned, thread, running, counted>>

WaitReturn ==
  /\ main = "wait" /\ (waited >= MaxPolls \/ allRunning)
  /\ main' = "status" /\ at' = 1
  /\ warned' = ~allRunning
  /\ UNCHANGED <<allRunning, waited, thread, running, counted>>

ScanRunning ==
  /\ main = "scan" /\ at <= N /\ running[at]
  /\ at' = at + 1
  /\ UNCHANGED <<main, allRunning, waited, warned, thread, running, counted>>

\* Mutant: the scan forgets to clear all_running.
ScanNotRunning_KeepsFlag ==
  /\ main = "scan" /\ at <= N /\ ~running[at]
  /\ waited' = waited + 1
  /\ main' = "wait"
  /\ UNCHANGED <<at, allRunning, warned, thread, running, counted>>

\* Mutant: a wait that is not counted against the timeout.
ScanNotRunning_NotCounted ==
  /\ main = "scan" /\ at <= N /\ ~running[at]
  /\ allRunning' = FALSE
  /\ main' = "wait"
  /\ UNCHANGED <<at, waited, warned, thread, running, counted>>

\* A flag is not set: break, sleep 100 ms.
ScanNotRunning ==
  /\ main = "scan" /\ at <= N /\ ~running[at]
  /\ allRunning' = FALSE
  /\ waited' = waited + 1
  /\ main' = "wait"
  /\ UNCHANGED <<at, warned, thread, running, counted>>

ScanEnd ==
  /\ main = "scan" /\ at > N
  /\ main' = "wait"
  /\ UNCHANGED <<at, allRunning, waited, warned, thread, running, counted>>

-----------------------------------------------------------------------------
(* hurd_bootstrap_status and hurd_bootstrap_shutdown                       *)

Status ==
  /\ main = "status" /\ at <= N
  /\ counted' = IF running[at] THEN counted \cup {at} ELSE counted
  /\ at' = at + 1
  /\ UNCHANGED <<main, allRunning, waited, warned, thread, running>>

StatusEnd ==
  /\ main = "status" /\ at > N
  /\ main' = "shutdown" /\ at' = N
  /\ UNCHANGED <<allRunning, waited, warned, thread, running, counted>>

\* In reverse order; the loop's constant 4 is the index of the last server.
Stop ==
  /\ main = "shutdown" /\ at >= 1
  /\ running' = [running EXCEPT ![at] = FALSE]
  /\ at' = at - 1
  /\ UNCHANGED <<main, allRunning, waited, warned, thread, counted>>

Stopped ==
  /\ main = "shutdown" /\ at = 0
  /\ main' = "stopped"
  /\ UNCHANGED <<at, allRunning, waited, warned, thread, running, counted>>

Main == BootInit \/ StartServer \/ StartFails \/ StartedAll
          \/ WaitLoop \/ WaitReturn \/ ScanRunning \/ ScanNotRunning \/ ScanEnd
          \/ Status \/ StatusEnd \/ Stop \/ Stopped

-----------------------------------------------------------------------------
(* server_thread                                                           *)

Step(s, from, to) ==
  /\ thread[s] = from
  /\ thread' = [thread EXCEPT ![s] = to]
  /\ UNCHANGED <<main, at, allRunning, waited, warned, counted>>

RunInit(s) == Step(s, "created", "init") /\ UNCHANGED running

\* init returns 0, another value, or (while it is in "init") not at all.
InitReturns(s) ==
  /\ Step(s, "init", "up") \/ Step(s, "init", "failed")
  /\ UNCHANGED running

SetRunning(s) ==
  /\ Step(s, "up", "ended")
  /\ running' = [running EXCEPT ![s] = TRUE]

Server(s) == RunInit(s) \/ InitReturns(s) \/ SetRunning(s)

Next == Main \/ \E s \in Servers : Server(s)

\* The main thread is scheduled; a server may hang in its init for ever.
Spec == Init /\ [][Next]_vars /\ WF_vars(Main)

-----------------------------------------------------------------------------
(***************************************************************************)
(* A start without the warning is what it claims to be: although the flags *)
(* are read one by one while the servers set them, every server has been   *)
(* initialised and stays up until the shutdown, the status finds all of    *)
(* them, and none is up after the shutdown.                                *)
(***************************************************************************)
CleanStartIsComplete ==
  ~warned =>
    /\ main \in {"status", "shutdown", "stopped"} => \A s \in Servers : thread[s] = "ended"
    /\ main = "status" => \A s \in Servers : running[s]
    /\ main \in {"shutdown", "stopped"} => counted = Servers
    /\ main = "stopped" => \A s \in Servers : ~running[s]

(***************************************************************************)
(* A server that hangs in its init, or fails, delays the bootstrap by no   *)
(* more than the timeout: the main thread always comes to an end.          *)
(***************************************************************************)
BootstrapEnds == <>(main \in {"stopped", "failed"})
=============================================================================
