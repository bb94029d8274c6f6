--------------------------- MODULE HurdInterfaces ---------------------------
(***************************************************************************)
(* The interfaces that the repository has stubs for.                       *)
(***************************************************************************)
EXTENDS MigMessage

Auth == INSTANCE AuthStubs
Exec == INSTANCE ExecStubs
File == INSTANCE FilesystemStubs
Proc == INSTANCE ProcessStubs
Sock == INSTANCE SocketStubs
Io   == INSTANCE IoStubs
Fs   == INSTANCE FsStubs
Fsys == INSTANCE FsysStubs
Intr == INSTANCE InterruptStubs
Noti == INSTANCE NotifyStubs

HurdDemux ==
  [auth |-> Auth!auth_server, exec |-> Exec!exec_server, filesystem |-> File!fs_server,
   process |-> Proc!process_server, socket |-> Sock!socket_server, io |-> Io!io_server,
   fs |-> Fs!fs_server, fsys |-> Fsys!fsys_server,
   interrupt |-> Intr!interrupt_server, notify |-> Noti!notify_server]

HurdCallers ==
  [auth |-> Auth!Callers, exec |-> Exec!Callers, filesystem |-> File!Callers,
   process |-> Proc!Callers, socket |-> Sock!Callers, io |-> Io!Callers,
   fs |-> Fs!Callers, fsys |-> Fsys!Callers,
   interrupt |-> Intr!Callers, notify |-> Noti!Callers]
=============================================================================
