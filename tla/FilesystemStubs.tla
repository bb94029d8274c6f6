--------------------------- MODULE FilesystemStubs ---------------------------
(* The filesystem interface, ids 22000 to 22016 without 22012 to 22014.     *)
(* Its first three ids are the fsys interface's as well.                     *)
EXTENDS MigMessage, TLC

dir_lookup_Reply ==
  Layout(22100, <<Data("retry_name", 1), Right("file", 17)>>,
         <<Int32("do_retry"), Count("retry_name")>>)
dir_lookup ==
  Stub("dir_lookup", <<"name", "flags", "mode">>,
       Layout(22000, <<Data("name", 1)>>,
         <<Count("name"), Int32("flags"), Int32("mode")>>), dir_lookup_Reply,
       <<"do_retry", "retry_name", "file">>)
dir_lookup_Request ==
  Shape(<<Data("name", 1)>>, <<Count("name"), Int32("flags"), Int32("mode")>>)
Xdir_lookup ==
  Routine("dir_lookup", dir_lookup_Request, <<"name", "flags", "mode">>, <<"name">>,
          Shape(<<Data("retry_name", 1), Right("file", 19)>>,
            <<Int32("do_retry"), Count("retry_name")>>),
          <<"do_retry", "retry_name", "file">>)

dir_readdir_Reply ==
  Layout(22101, <<Data("data", 1)>>, <<Count("data"), Int32("amount")>>)
dir_readdir ==
  Stub("dir_readdir", <<"entry", "nentries", "bufsiz">>,
       Layout(22001, <<>>, <<Int32("entry"), Int32("nentries"), Int32("bufsiz")>>),
       dir_readdir_Reply, <<"data", "amount">>)
dir_readdir_Request ==
  Shape(<<>>, <<Int32("entry"), Int32("nentries"), Int32("bufsiz")>>)
Xdir_readdir ==
  Routine("dir_readdir", dir_readdir_Request, <<"entry", "nentries", "bufsiz">>,
          <<>>,
          Shape(<<Data("data", 1)>>, <<Count("data"), Int32("amount")>>),
          <<"data", "amount">>)

dir_mkdir_Reply == Layout(22102, <<>>, RetCode)
dir_mkdir ==
  Stub("dir_mkdir", <<"name", "mode">>,
       Layout(22002, <<Data("name", 1)>>, <<Count("name"), Int32("mode")>>),
       dir_mkdir_Reply, <<>>)
dir_mkdir_Request == Shape(<<Data("name", 1)>>, <<Count("name"), Int32("mode")>>)
Xdir_mkdir ==
  Routine("dir_mkdir", dir_mkdir_Request, <<"name", "mode">>, <<"name">>,
          Shape(<<>>, RetCode), <<>>)

dir_rmdir_Reply == Layout(22103, <<>>, RetCode)
dir_rmdir ==
  Stub("dir_rmdir", <<"name">>,
       Layout(22003, <<Data("name", 1)>>, <<Count("name")>>), dir_rmdir_Reply, <<>>)
dir_rmdir_Request == Shape(<<Data("name", 1)>>, <<Count("name")>>)
Xdir_rmdir ==
  Routine("dir_rmdir", dir_rmdir_Request, <<"name">>, <<"name">>,
          Shape(<<>>, RetCode), <<>>)

dir_unlink_Reply == Layout(22104, <<>>, RetCode)
dir_unlink ==
  Stub("dir_unlink", <<"name">>,
       Layout(22004, <<Data("name", 1)>>, <<Count("name")>>), dir_unlink_Reply,
       <<>>)
dir_unlink_Request == Shape(<<Data("name", 1)>>, <<Count("name")>>)
Xdir_unlink ==
  Routine("dir_unlink", dir_unlink_Request, <<"name">>, <<"name">>,
          Shape(<<>>, RetCode), <<>>)

dir_link_Reply == Layout(22105, <<>>, RetCode)
dir_link ==
  Stub("dir_link", <<"source", "name", "excl">>,
       Layout(22005, <<Right("source", 19), Data("name", 1)>>,
         <<Count("name"), Int32("excl")>>), dir_link_Reply, <<>>)
dir_link_Request ==
  Shape(<<Right("source", 17), Data("name", 1)>>, <<Count("name"), Int32("excl")>>)
Xdir_link ==
  Routine("dir_link", dir_link_Request, <<"source", "name", "excl">>, <<"name">>,
          Shape(<<>>, RetCode), <<>>)

dir_rename_Reply == Layout(22106, <<>>, RetCode)
dir_rename ==
  Stub("dir_rename", <<"oldname", "newdir", "newname", "excl">>,
       Layout(22006, <<Data("oldname", 1), Right("newdir", 19), Data("newname", 1)>>,
         <<Count("oldname"), Count("newname"), Int32("excl")>>), dir_rename_Reply,
       <<>>)
dir_rename_Request ==
  Shape(<<Data("oldname", 1), Right("newdir", 17), Data("newname", 1)>>,
        <<Count("oldname"), Count("newname"), Int32("excl")>>)
Xdir_rename ==
  Routine("dir_rename", dir_rename_Request,
          <<"oldname", "newdir", "newname", "excl">>, <<"newname", "oldname">>,
          Shape(<<>>, RetCode), <<>>)

dir_mkfile_Reply == Layout(22107, <<Right("file", 17)>>, <<>>)
dir_mkfile ==
  Stub("dir_mkfile", <<"flags", "mode">>,
       Layout(22007, <<>>, <<Int32("flags"), Int32("mode")>>), dir_mkfile_Reply,
       <<"file">>)
dir_mkfile_Request == Shape(<<>>, <<Int32("flags"), Int32("mode")>>)
Xdir_mkfile ==
  Routine("dir_mkfile", dir_mkfile_Request, <<"flags", "mode">>, <<>>,
          Shape(<<Right("file", 19)>>, <<>>), <<"file">>)

file_getstat_Reply ==
  Layout(22108, <<Data("stat_data", 1)>>, <<Count("stat_data")>>)
file_getstat ==
  Stub("file_getstat", <<>>,
       Layout(22008, <<>>, <<>>), file_getstat_Reply, <<"stat_data">>)
file_getstat_Request == Shape(<<>>, <<>>)
Xfile_getstat ==
  Routine("file_getstat", file_getstat_Request, <<>>, <<>>,
          Shape(<<Data("stat_data", 1)>>, <<Count("stat_data")>>), <<"stat_data">>)

file_setstat_Reply == Layout(22109, <<>>, RetCode)
file_setstat ==
  Stub("file_setstat", <<"stat_data", "stat_flags">>,
       Layout(22009, <<Data("stat_data", 1)>>,
         <<Count("stat_data"), Int32("stat_flags")>>), file_setstat_Reply, <<>>)
file_setstat_Request ==
  Shape(<<Data("stat_data", 1)>>, <<Count("stat_data"), Int32("stat_flags")>>)
Xfile_setstat ==
  Routine("file_setstat", file_setstat_Request, <<"stat_data", "stat_flags">>,
          <<"stat_data">>,
          Shape(<<>>, RetCode), <<>>)

file_sync_Reply == Layout(22110, <<>>, RetCode)
file_sync ==
  Stub("file_sync", <<"wait", "omit_metadata">>,
       Layout(22010, <<>>, <<Int32("wait"), Int32("omit_metadata")>>),
       file_sync_Reply, <<>>)
file_sync_Request == Shape(<<>>, <<Int32("wait"), Int32("omit_metadata")>>)
Xfile_sync ==
  Routine("file_sync", file_sync_Request, <<"wait", "omit_metadata">>, <<>>,
          Shape(<<>>, RetCode), <<>>)

file_set_size_Reply == Layout(22111, <<>>, RetCode)
file_set_size ==
  Stub("file_set_size", <<"size">>,
       Layout(22011, <<>>, <<Int64("size")>>), file_set_size_Reply, <<>>)
file_set_size_Request == Shape(<<>>, <<Int64("size")>>)
Xfile_set_size ==
  Routine("file_set_size", file_set_size_Request, <<"size">>, <<>>,
          Shape(<<>>, RetCode), <<>>)

io_read_Reply == Layout(22115, <<Data("data", 1)>>, <<Count("data")>>)
io_read ==
  Stub("io_read", <<"offset", "amount">>,
       Layout(22015, <<>>, <<Int64("offset"), Int32("amount")>>), io_read_Reply,
       <<"data">>)
io_read_Request == Shape(<<>>, <<Int64("offset"), Int32("amount")>>)
Xio_read ==
  Routine("io_read", io_read_Request, <<"offset", "amount">>, <<>>,
          Shape(<<Data("data", 1)>>, <<Count("data")>>), <<"data">>)

io_write_Reply == Layout(22116, <<>>, <<Int32("RetCode"), Int32("amount")>>)
io_write ==
  Stub("io_write", <<"data", "offset">>,
       Layout(22016, <<Data("data", 1)>>, <<Count("data"), Int64("offset")>>),
       io_write_Reply, <<"amount">>)
io_write_Request == Shape(<<Data("data", 1)>>, <<Count("data"), Int64("offset")>>)
Xio_write ==
  Routine("io_write", io_write_Request, <<"data", "offset">>, <<"data">>,
          Shape(<<>>, <<Int32("RetCode"), Int32("amount")>>), <<"amount">>)

fs_server ==
  [name |-> "filesystem", table |->
    22000 :> Xdir_lookup @@
    22001 :> Xdir_readdir @@
    22002 :> Xdir_mkdir @@
    22003 :> Xdir_rmdir @@
    22004 :> Xdir_unlink @@
    22005 :> Xdir_link @@
    22006 :> Xdir_rename @@
    22007 :> Xdir_mkfile @@
    22008 :> Xfile_getstat @@
    22009 :> Xfile_setstat @@
    22010 :> Xfile_sync @@
    22011 :> Xfile_set_size @@
    22015 :> Xio_read @@
    22016 :> Xio_write]

Callers ==
  {dir_lookup, dir_readdir, dir_mkdir, dir_rmdir, dir_unlink, dir_link,
   dir_rename, dir_mkfile, file_getstat, file_setstat, file_sync,
   file_set_size, io_read, io_write}
==============================================================================
