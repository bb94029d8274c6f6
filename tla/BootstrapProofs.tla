-------------------------- MODULE BootstrapProofs --------------------------
(***************************************************************************)
(* Proofs about Bootstrap for any number of servers and any timeout.       *)
(***************************************************************************)
EXTENDS Bootstrap, TLAPS

Reported == {"status", "shutdown", "stopped"}

\* A flag is set by its own server only, and stays set until the shutdown.
FlagsFollowThreads ==
  \A s \in Servers :
    /\ running[s] => thread[s] = "ended"
    /\ thread[s] = "ended" /\ main \notin {"shutdown", "stopped"} => running[s]
    /\ main \in {"init", "start"} /\ s >= at => thread[s] = "none"

\* What the scan has seen: the flags below the loop index are set, and the
\* result is kept until the loop condition is tested.
ScanIsRight ==
  /\ main = "scan" => allRunning /\ at >= 1 /\ \A s \in Servers : s < at => running[s]
  /\ main \in {"init", "start"} => ~allRunning
  /\ main = "wait" /\ allRunning => \A s \in Servers : running[s]

\* A start without the warning, from the report on.
ReportIsRight ==
  ~warned =>
    /\ main \in Reported => \A s \in Servers : thread[s] = "ended"
    /\ main = "status" => at >= 1 /\ \A s \in Servers : s < at => s \in counted
    /\ main \in {"shutdown", "stopped"} => counted = Servers
    /\ main = "shutdown" => \A s \in Servers : s > at => ~running[s]
    /\ main = "stopped" => \A s \in Servers : ~running[s]

-----------------------------------------------------------------------------
(* Type correctness.                                                       *)

\* The loops' conditions that their bodies rely on.
LoopsInRange ==
  /\ main = "scan" => waited < MaxPolls
  /\ main \in {"init", "start", "scan", "status"} => at >= 1

\* Types at the start.
LEMMA InitTypeOK == Init => TypeOK /\ LoopsInRange
<1> SUFFICES ASSUME Init PROVE TypeOK /\ LoopsInRange
  OBVIOUS
<1>1. /\ at \in 0 .. N + 1 /\ waited \in 0 .. MaxPolls
      /\ thread \in [Servers -> {"none", "created", "init", "up", "ended", "failed"}]
      /\ counted \subseteq Servers
      /\ LoopsInRange
  BY BootAssumption DEF Init, LoopsInRange
<1>2. allRunning \in BOOLEAN /\ warned \in BOOLEAN /\ running \in [Servers -> BOOLEAN]
  BY Zenon DEF Init
<1> QED BY <1>1, <1>2, Zenon DEF Init, TypeOK

\* Every step keeps the types.
LEMMA NextTypeOK == TypeOK /\ LoopsInRange /\ [Next]_vars => TypeOK' /\ LoopsInRange'
<1> SUFFICES ASSUME TypeOK, LoopsInRange, [Next]_vars PROVE TypeOK' /\ LoopsInRange'
  OBVIOUS
<1>1. CASE UNCHANGED vars
  BY <1>1, Zenon DEF vars, TypeOK, LoopsInRange
<1>2. CASE Main
  <2>1. at' \in 0 .. N + 1 /\ waited' \in 0 .. MaxPolls /\ LoopsInRange'
    <3> USE BootAssumption DEF TypeOK, LoopsInRange
    <3>1. CASE BootInit \/ StartServer \/ StartFails \/ StartedAll
      BY <3>1 DEF BootInit, StartServer, StartFails, StartedAll
    <3>2. CASE WaitLoop \/ WaitReturn
      BY <3>2 DEF WaitLoop, WaitReturn
    <3>3. CASE ScanRunning \/ ScanEnd
      BY <3>3 DEF ScanRunning, ScanEnd
    <3>4. CASE ScanNotRunning
      BY <3>4 DEF ScanNotRunning
    <3>5. CASE Status \/ StatusEnd \/ Stop \/ Stopped
      BY <3>5 DEF Status, StatusEnd, Stop, Stopped
    <3> QED BY <1>2, <3>1, <3>2, <3>3, <3>4, <3>5 DEF Main
  <2>2. /\ allRunning' \in BOOLEAN /\ warned' \in BOOLEAN
        /\ running' \in [Servers -> BOOLEAN]
    BY <1>2, ZenonT(60)
    DEF TypeOK, Main, BootInit, StartServer, StartFails, StartedAll, WaitLoop, WaitReturn,
        ScanRunning, ScanNotRunning, ScanEnd, Status, StatusEnd, Stop, Stopped
  <2>3. /\ main' \in {"init", "start", "wait", "scan", "status", "shutdown", "stopped",
                      "failed"}
        /\ thread' \in [Servers -> {"none", "created", "init", "up", "ended", "failed"}]
    BY <1>2
    DEF TypeOK, Main, BootInit, StartServer, StartFails, StartedAll, WaitLoop, WaitReturn,
        ScanRunning, ScanNotRunning, ScanEnd, Status, StatusEnd, Stop, Stopped
  <2>4. counted' \subseteq Servers
    <3>1. CASE Status
      <4>1. at \in Servers
        BY <3>1, BootAssumption DEF Status, TypeOK, LoopsInRange, Servers
      <4> QED BY <3>1, <4>1 DEF Status, TypeOK
    <3>2. CASE ~Status
      BY <1>2, <3>2
      DEF TypeOK, Main, BootInit, StartServer, StartFails, StartedAll, WaitLoop, WaitReturn,
          ScanRunning, ScanNotRunning, ScanEnd, StatusEnd, Stop, Stopped
    <3> QED BY <3>1, <3>2
  <2> QED BY <2>1, <2>2, <2>3, <2>4, Zenon DEF TypeOK, LoopsInRange
<1>3. ASSUME NEW s \in Servers, Server(s) PROVE TypeOK' /\ LoopsInRange'
  <2>1. thread' \in [Servers -> {"none", "created", "init", "up", "ended", "failed"}]
    BY <1>3 DEF Server, RunInit, InitReturns, SetRunning, Step, TypeOK
  <2>2. running' \in [Servers -> BOOLEAN]
    BY <1>3, Zenon DEF Server, RunInit, InitReturns, SetRunning, Step, TypeOK
  <2> QED
    BY <1>3, <2>1, <2>2, Zenon
    DEF Server, RunInit, InitReturns, SetRunning, Step, TypeOK, LoopsInRange
<1> QED BY <1>1, <1>2, <1>3 DEF Next

(* The bounds of the main thread's loops hold for every number of servers  *)
(* and every timeout.                                                      *)
THEOREM TypeCorrect == Spec => []TypeOK
BY InitTypeOK, NextTypeOK, PTL DEF Spec

-----------------------------------------------------------------------------
(* A start without the warning.                                            *)

\* The invariant holds at the start.
LEMMA InitIInv == Init => FlagsFollowThreads /\ ScanIsRight /\ ReportIsRight
  BY DEF Init, FlagsFollowThreads, ScanIsRight, ReportIsRight, Reported

\* Until the shutdown the main thread leaves the flags alone; it has to find
\* all of them set before it can report without the warning.
LEMMA MainKeeps ==
  ASSUME TypeOK, LoopsInRange, FlagsFollowThreads, ScanIsRight, ReportIsRight, Main
  PROVE  FlagsFollowThreads' /\ ScanIsRight' /\ ReportIsRight'
<1> USE BootAssumption DEF FlagsFollowThreads, ScanIsRight, ReportIsRight, Reported, Servers,
        TypeOK, LoopsInRange
<1>1. CASE BootInit
  BY <1>1 DEF BootInit
<1>2. CASE StartServer
  BY <1>2 DEF StartServer
<1>3. CASE StartFails
  BY <1>3 DEF StartFails
<1>4. CASE StartedAll
  BY <1>4 DEF StartedAll
<1>5. CASE WaitLoop
  BY <1>5 DEF WaitLoop
<1>6. CASE WaitReturn
  <2>1. CASE allRunning
    BY <1>6, <2>1 DEF WaitReturn
  <2>2. CASE ~allRunning
    BY <1>6, <2>2 DEF WaitReturn
  <2> QED BY <2>1, <2>2
<1>7. CASE ScanRunning
  BY <1>7 DEF ScanRunning
<1>8. CASE ScanNotRunning
  BY <1>8 DEF ScanNotRunning
<1>9. CASE ScanEnd
  BY <1>9 DEF ScanEnd
<1>10. CASE Status
  BY <1>10 DEF Status
<1>11. CASE StatusEnd
  <2>1. ~warned => Servers \subseteq counted
    BY <1>11 DEF StatusEnd
  <2>2. ~warned => counted = Servers
    BY <2>1
  <2> QED BY <1>11, <2>2 DEF StatusEnd
<1>12. CASE Stop
  BY <1>12 DEF Stop
<1>13. CASE Stopped
  BY <1>13 DEF Stopped
<1> QED
  BY <1>1, <1>2, <1>3, <1>4, <1>5, <1>6, <1>7, <1>8, <1>9, <1>10, <1>11, <1>12, <1>13 DEF Main

\* A server sets its own flag as its thread ends.
LEMMA ServerKeeps ==
  ASSUME TypeOK, FlagsFollowThreads, ScanIsRight, ReportIsRight,
         NEW s \in Servers, Server(s)
  PROVE  FlagsFollowThreads' /\ ScanIsRight' /\ ReportIsRight'
BY DEF FlagsFollowThreads, ScanIsRight, ReportIsRight, Reported, TypeOK,
       Server, RunInit, InitReturns, SetRunning, Step

\* A step that changes nothing keeps the invariant.
LEMMA StutterKeeps ==
  ASSUME FlagsFollowThreads, ScanIsRight, ReportIsRight, UNCHANGED vars
  PROVE  FlagsFollowThreads' /\ ScanIsRight' /\ ReportIsRight'
BY DEF FlagsFollowThreads, ScanIsRight, ReportIsRight, Reported, vars

(***************************************************************************)
(* A start without the warning is complete (CleanStartIsComplete), for     *)
(* every number of servers, every timeout and every order in which the     *)
(* servers set their flags while the main thread reads them.               *)
(***************************************************************************)
THEOREM CleanStart == Spec => []CleanStartIsComplete
<1> DEFINE I == TypeOK /\ LoopsInRange /\ FlagsFollowThreads /\ ScanIsRight /\ ReportIsRight
<1>1. Init => I
  BY InitTypeOK, InitIInv
<1>2. I /\ [Next]_vars => I'
  BY NextTypeOK, MainKeeps, ServerKeeps, StutterKeeps DEF Next
<1>3. I => CleanStartIsComplete
  BY DEF CleanStartIsComplete, FlagsFollowThreads, ReportIsRight, Reported
<1> QED BY <1>1, <1>2, <1>3, PTL DEF Spec
=============================================================================
