---------------------------- MODULE ProcessStubs -----------------------------
(* The process interface: six routines between 24000 and 24029; the other   *)
(* slots of its table are empty.                                             *)
EXTENDS MigMessage, TLC

proc_getprivports_Reply ==
  Layout(24104, <<Right("host_priv", 17), Right("device_master", 17)>>, <<>>)
proc_getprivports ==
  Stub("proc_getprivports", <<>>,
       Layout(24004, <<>>, <<>>), proc_getprivports_Reply,
       <<"host_priv", "device_master">>)
proc_getprivports_Request == Shape(<<>>, <<>>)
Xproc_getprivports ==
  Routine("proc_getprivports", proc_getprivports_Request, <<>>, <<>>,
          Shape(<<Right("host_priv", 19), Right("device_master", 19)>>, <<>>),
          <<"host_priv", "device_master">>)

proc_getallpids_Reply ==
  Layout(24105, <<Data("pidarray", 4)>>, <<Count("pidarray")>>)
proc_getallpids ==
  Stub("proc_getallpids", <<>>,
       Layout(24005, <<>>, <<>>), proc_getallpids_Reply, <<"pidarray">>)
proc_getallpids_Request == Shape(<<>>, <<>>)
Xproc_getallpids ==
  Routine("proc_getallpids", proc_getallpids_Request, <<>>, <<>>,
          Shape(<<Data("pidarray", 4)>>, <<Count("pidarray")>>), <<"pidarray">>)

proc_getpids_Reply ==
  Layout(24115, <<>>,
         <<Int32("RetCode"), Int32("pid"), Int32("ppid"), Int32("orphaned")>>)
proc_getpids ==
  Stub("proc_getpids", <<>>,
       Layout(24015, <<>>, <<>>), proc_getpids_Reply, <<"pid", "ppid", "orphaned">>)
proc_getpids_Request == Shape(<<>>, <<>>)
Xproc_getpids ==
  Routine("proc_getpids", proc_getpids_Request, <<>>, <<>>,
          Shape(<<>>,
            <<Int32("RetCode"), Int32("pid"), Int32("ppid"), Int32("orphaned")>>),
          <<"pid", "ppid", "orphaned">>)

proc_wait_Reply ==
  Layout(24119, <<>>,
         <<Int32("RetCode"), Int32("status"), Int32("sigcode"), Int32("pid_status")>>)
proc_wait ==
  Stub("proc_wait", <<"pid", "options">>,
       Layout(24019, <<>>, <<Int32("pid"), Int32("options")>>), proc_wait_Reply,
       <<"status", "sigcode", "pid_status">>)
proc_wait_Request == Shape(<<>>, <<Int32("pid"), Int32("options")>>)
Xproc_wait ==
  Routine("proc_wait", proc_wait_Request, <<"pid", "options">>, <<>>,
          Shape(<<>>,
            <<Int32("RetCode"), Int32("status"), Int32("sigcode"),
            Int32("pid_status")>>), <<"status", "sigcode", "pid_status">>)

proc_pid2task_Reply == Layout(24128, <<Right("task", 17)>>, <<>>)
proc_pid2task ==
  Stub("proc_pid2task", <<"pid">>,
       Layout(24028, <<>>, <<Int32("pid")>>), proc_pid2task_Reply, <<"task">>)
proc_pid2task_Request == Shape(<<>>, <<Int32("pid")>>)
Xproc_pid2task ==
  Routine("proc_pid2task", proc_pid2task_Request, <<"pid">>, <<>>,
          Shape(<<Right("task", 19)>>, <<>>), <<"task">>)

proc_task2pid_Reply == Layout(24129, <<>>, <<Int32("RetCode"), Int32("pid")>>)
proc_task2pid ==
  Stub("proc_task2pid", <<"task">>,
       Layout(24029, <<Right("task", 19)>>, <<>>), proc_task2pid_Reply, <<"pid">>)
proc_task2pid_Request == Shape(<<Right("task", 17)>>, <<>>)
Xproc_task2pid ==
  Routine("proc_task2pid", proc_task2pid_Request, <<"task">>, <<>>,
          Shape(<<>>, <<Int32("RetCode"), Int32("pid")>>), <<"pid">>)

process_server ==
  [name |-> "process", table |->
    24004 :> Xproc_getprivports @@
    24005 :> Xproc_getallpids @@
    24015 :> Xproc_getpids @@
    24019 :> Xproc_wait @@
    24028 :> Xproc_pid2task @@
    24029 :> Xproc_task2pid]

Callers ==
  {proc_getprivports, proc_getallpids, proc_getpids, proc_wait,
   proc_pid2task, proc_task2pid}
==============================================================================
