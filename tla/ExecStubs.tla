------------------------------ MODULE ExecStubs ------------------------------
(* The exec interface, ids 26000 to 26003.  exec_exec carries nine           *)
(* descriptors, four of them arrays of rights.                               *)
EXTENDS MigMessage, TLC

exec_exec_Reply == Layout(26100, <<>>, RetCode)
exec_exec ==
  Stub("exec_exec",
       <<"file", "oldtask", "flags", "argv", "envp", "dtable", "portarray",
         "intarray", "deallocnames", "destroynames">>,
       Layout(26000, <<Right("file", 19), Right("oldtask", 19), Data("argv", 1),
         Data("envp", 1), Rights("dtable", 19), Rights("portarray", 19),
         Data("intarray", 4), Rights("deallocnames", 19), Rights("destroynames", 19)>>,
         <<Int32("flags"), Count("argv"), Count("envp"), Count("dtable"),
         Count("portarray"), Count("intarray"), Count("deallocnames"),
         Count("destroynames")>>), exec_exec_Reply, <<>>)
exec_exec_Request ==
  Shape(<<Right("file", 17), Right("oldtask", 17), Data("argv", 1), Data("envp", 1),
          Rights("dtable", 17), Rights("portarray", 17), Data("intarray", 4),
          Rights("deallocnames", 17), Rights("destroynames", 17)>>,
        <<Int32("flags"), Count("argv"), Count("envp"), Count("dtable"),
          Count("portarray"), Count("intarray"), Count("deallocnames"),
          Count("destroynames")>>)
Xexec_exec ==
  Routine("exec_exec", exec_exec_Request,
          <<"file", "oldtask", "flags", "argv", "envp", "dtable", "portarray",
            "intarray", "deallocnames", "destroynames">>,
          <<"destroynames", "deallocnames", "intarray", "portarray", "dtable",
            "envp", "argv">>,
          Shape(<<>>, RetCode), <<>>)

exec_setexecdata_Reply == Layout(26101, <<>>, RetCode)
exec_setexecdata ==
  Stub("exec_setexecdata", <<"ports", "ints">>,
       Layout(26001, <<Rights("ports", 19), Data("ints", 4)>>,
         <<Count("ports"), Count("ints")>>), exec_setexecdata_Reply, <<>>)
exec_setexecdata_Request ==
  Shape(<<Rights("ports", 17), Data("ints", 4)>>, <<Count("ports"), Count("ints")>>)
Xexec_setexecdata ==
  Routine("exec_setexecdata", exec_setexecdata_Request, <<"ports", "ints">>,
          <<"ints", "ports">>,
          Shape(<<>>, RetCode), <<>>)

exec_exec_file_Reply == Layout(26102, <<>>, RetCode)
exec_exec_file ==
  Stub("exec_exec_file", <<"file", "task", "flags", "filename">>,
       Layout(26002, <<Right("file", 19), Right("task", 19), Data("filename", 1)>>,
         <<Int32("flags"), Count("filename")>>), exec_exec_file_Reply, <<>>)
exec_exec_file_Request ==
  Shape(<<Right("file", 17), Right("task", 17), Data("filename", 1)>>,
        <<Int32("flags"), Count("filename")>>)
Xexec_exec_file ==
  Routine("exec_exec_file", exec_exec_file_Request,
          <<"file", "task", "flags", "filename">>, <<"filename">>,
          Shape(<<>>, RetCode), <<>>)

exec_startup_get_info_Reply ==
  Layout(26103,
         <<Data("argv", 1), Data("envp", 1), Rights("dtable", 17),
           Rights("portarray", 17), Data("intarray", 4)>>,
         <<Int32("user_entry"), Int32("phdr_data"), Int32("phdr_size"),
           Int32("base_addr"), Int32("stack_base"), Int32("stack_size"),
           Int32("flags"), Count("argv"), Count("envp"), Count("dtable"),
           Count("portarray"), Count("intarray")>>)
exec_startup_get_info ==
  Stub("exec_startup_get_info", <<>>,
       Layout(26003, <<>>, <<>>), exec_startup_get_info_Reply,
       <<"user_entry", "phdr_data", "phdr_size", "base_addr", "stack_base",
         "stack_size", "flags", "argv", "envp", "dtable", "portarray", "intarray">>)
exec_startup_get_info_Request == Shape(<<>>, <<>>)
Xexec_startup_get_info ==
  Routine("exec_startup_get_info", exec_startup_get_info_Request, <<>>, <<>>,
          Shape(<<Data("argv", 1), Data("envp", 1), Rights("dtable", 19),
            Rights("portarray", 19), Data("intarray", 4)>>,
            <<Int32("user_entry"), Int32("phdr_data"), Int32("phdr_size"),
            Int32("base_addr"), Int32("stack_base"), Int32("stack_size"),
            Int32("flags"), Count("argv"), Count("envp"), Count("dtable"),
            Count("portarray"), Count("intarray")>>),
          <<"user_entry", "phdr_data", "phdr_size", "base_addr", "stack_base",
            "stack_size", "flags", "argv", "envp", "dtable", "portarray", "intarray">>)

exec_server ==
  [name |-> "exec", table |->
    26000 :> Xexec_exec @@
    26001 :> Xexec_setexecdata @@
    26002 :> Xexec_exec_file @@
    26003 :> Xexec_startup_get_info]

Callers ==
  {exec_exec, exec_setexecdata, exec_exec_file, exec_startup_get_info}
==============================================================================
