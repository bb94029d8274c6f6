----------------------------- MODULE ProcServer -----------------------------
(***************************************************************************)
(* The handlers of the process server (compat/proc_xnu.c).  The table is   *)
(* filled once, with one entry, and no handler of the repository changes   *)
(* it: an outcome depends on the argument only.                            *)
(***************************************************************************)
EXTENDS Integers, Sequences, Functions

CONSTANTS Pids, Tasks,
          ServerTask     \* what mach_task_self() names

ASSUME PidAssumption == 1 \in Pids /\ ServerTask \in Tasks

(* What a handler leaves: its code, and the elements of every array it      *)
(* returns.  A failed handler's results are not sent.                       *)
Returns(n) == [ret |-> "OK", count |-> n]
Fails      == [ret |-> "FAILURE", count |-> 0]

(* proc_server_init *)
proc_table == <<[pid |-> 1, ppid |-> 0, task |-> ServerTask]>>

proc_getprivports == {Returns(0)}                        \* two null ports
proc_getallpids   == {Returns(Len(proc_table)), Fails}   \* no memory for the copy
proc_getpids      == {Returns(0)}
proc_wait         == {Returns(0), Fails}                 \* waitpid's errno

proc_pid2task(pid) ==
  IF \E e \in Range(proc_table) : e.pid = pid THEN Returns(0) ELSE Fails

proc_task2pid(task) ==
  IF \E e \in Range(proc_table) : e.task = task THEN Returns(0) ELSE Fails

ProcOutcomes ==
  [proc_getprivports |-> proc_getprivports,
   proc_getallpids   |-> proc_getallpids,
   proc_getpids      |-> proc_getpids,
   proc_wait         |-> proc_wait,
   proc_pid2task     |-> {proc_pid2task(p) : p \in Pids},
   proc_task2pid     |-> {proc_task2pid(t) : t \in Tasks}]
=============================================================================
