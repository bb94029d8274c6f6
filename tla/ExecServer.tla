----------------------------- MODULE ExecServer -----------------------------
(***************************************************************************)
(* The handlers of the exec server (compat/exec_xnu.c): each prints and    *)
(* returns a constant.  exec_startup_get_info returns empty arrays whose   *)
(* addresses it never sets.                                                *)
(***************************************************************************)
Done       == [ret |-> "OK", count |-> 0]
EOPNOTSUPP == [ret |-> "FAILURE", count |-> 0]

exec_exec             == {EOPNOTSUPP}
exec_setexecdata      == {Done}
exec_exec_file        == {EOPNOTSUPP}
exec_startup_get_info == {Done}

ExecOutcomes ==
  [exec_exec             |-> exec_exec,
   exec_setexecdata      |-> exec_setexecdata,
   exec_exec_file        |-> exec_exec_file,
   exec_startup_get_info |-> exec_startup_get_info]
=============================================================================
