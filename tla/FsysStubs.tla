------------------------------ MODULE FsysStubs ------------------------------
(* The fsys interface, ids 22000 to 22002: the server half only.  string_t  *)
(* is a char pointer in compat/mach.h, so retry_name takes eight bytes.      *)
EXTENDS MigMessage, TLC

fsys_getroot_Request ==
  Shape(<<Right("dotdot", 17), Data("gen_uids", 4), Data("gen_gids", 4)>>,
        <<Count("gen_uids"), Count("gen_gids"), Int32("flags")>>)
Xfsys_getroot ==
  Routine("fsys_getroot", fsys_getroot_Request,
          <<"dotdot", "gen_uids", "gen_gids", "flags">>, <<"gen_gids", "gen_uids">>,
          Shape(<<Right("result", Polymorphic)>>,
            <<Int32("do_retry"), Int64("retry_name")>>),
          <<"do_retry", "retry_name", "result">>)
fsys_getroot == CallerOf(22000, Xfsys_getroot)

fsys_goaway_Request == Shape(<<>>, <<Int32("flags")>>)
Xfsys_goaway ==
  Routine("fsys_goaway", fsys_goaway_Request, <<"flags">>, <<>>,
          Shape(<<>>, RetCode), <<>>)
fsys_goaway == CallerOf(22001, Xfsys_goaway)

fsys_syncfs_Request == Shape(<<>>, <<Int32("wait"), Int32("do_children")>>)
Xfsys_syncfs ==
  Routine("fsys_syncfs", fsys_syncfs_Request, <<"wait", "do_children">>, <<>>,
          Shape(<<>>, RetCode), <<>>)
fsys_syncfs == CallerOf(22002, Xfsys_syncfs)

fsys_server ==
  [name |-> "fsys", table |->
    22000 :> Xfsys_getroot @@
    22001 :> Xfsys_goaway @@
    22002 :> Xfsys_syncfs]

Callers ==
  {fsys_getroot, fsys_goaway, fsys_syncfs}
==============================================================================
