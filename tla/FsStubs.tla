------------------------------- MODULE FsStubs -------------------------------
(* The fs interface, ids 20000 to 20004: the server half only.               *)
EXTENDS MigMessage, TLC

file_check_access_Request == Shape(<<>>, <<>>)
Xfile_check_access ==
  Routine("file_check_access", file_check_access_Request, <<>>, <<>>,
          Shape(<<>>, <<Int32("RetCode"), Int32("allowed")>>), <<"allowed">>)
file_check_access == CallerOf(20000, Xfile_check_access)

file_statfs_Request == Shape(<<>>, <<>>)
Xfile_statfs ==
  Routine("file_statfs", file_statfs_Request, <<>>, <<>>,
          Shape(<<>>, <<Int32("RetCode"), Block("info", 92)>>), <<"info">>)
file_statfs == CallerOf(20001, Xfile_statfs)

file_sync_Request == Shape(<<>>, <<Int32("wait"), Int32("omit_metadata")>>)
Xfile_sync ==
  Routine("file_sync", file_sync_Request, <<"wait", "omit_metadata">>, <<>>,
          Shape(<<>>, RetCode), <<>>)
file_sync == CallerOf(20002, Xfile_sync)

file_chmod_Request == Shape(<<>>, <<Int32("new_mode")>>)
Xfile_chmod ==
  Routine("file_chmod", file_chmod_Request, <<"new_mode">>, <<>>,
          Shape(<<>>, RetCode), <<>>)
file_chmod == CallerOf(20003, Xfile_chmod)

file_get_translator_Request == Shape(<<>>, <<>>)
Xfile_get_translator ==
  Routine("file_get_translator", file_get_translator_Request, <<>>, <<>>,
          Shape(<<Data("translator", 1)>>, <<Count("translator")>>),
          <<"translator">>)
file_get_translator == CallerOf(20004, Xfile_get_translator)

fs_server ==
  [name |-> "fs", table |->
    20000 :> Xfile_check_access @@
    20001 :> Xfile_statfs @@
    20002 :> Xfile_sync @@
    20003 :> Xfile_chmod @@
    20004 :> Xfile_get_translator]

Callers ==
  {file_check_access, file_statfs, file_sync, file_chmod,
   file_get_translator}
==============================================================================
