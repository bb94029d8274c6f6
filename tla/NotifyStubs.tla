----------------------------- MODULE NotifyStubs -----------------------------
(* The notifications of the kernel, ids 64 to 72, of which five have a stub: *)
(* simple routines, whose message asks for no reply.                         *)
EXTENDS MigMessage, TLC

mach_notify_port_deleted_Request == Shape(<<>>, <<Int32("name")>>)
Xmach_notify_port_deleted ==
  Routine("mach_notify_port_deleted", mach_notify_port_deleted_Request, <<"name">>,
          <<>>,
          Shape(<<>>, RetCode), <<>>)
mach_notify_port_deleted == [CallerOf(65, Xmach_notify_port_deleted) EXCEPT !.reply = NoReply]

mach_notify_port_destroyed_Request == Shape(<<Right("rights", 16)>>, <<>>)
Xmach_notify_port_destroyed ==
  Routine("mach_notify_port_destroyed", mach_notify_port_destroyed_Request,
          <<"rights">>, <<>>,
          Shape(<<>>, RetCode), <<>>)
mach_notify_port_destroyed == [CallerOf(69, Xmach_notify_port_destroyed) EXCEPT !.reply = NoReply]

mach_notify_no_senders_Request == Shape(<<>>, <<Int32("mscount")>>)
Xmach_notify_no_senders ==
  Routine("mach_notify_no_senders", mach_notify_no_senders_Request, <<"mscount">>,
          <<>>,
          Shape(<<>>, RetCode), <<>>)
mach_notify_no_senders == [CallerOf(70, Xmach_notify_no_senders) EXCEPT !.reply = NoReply]

mach_notify_send_once_Request == Shape(<<>>, <<>>)
Xmach_notify_send_once ==
  Routine("mach_notify_send_once", mach_notify_send_once_Request, <<>>, <<>>,
          Shape(<<>>, RetCode), <<>>)
mach_notify_send_once == [CallerOf(71, Xmach_notify_send_once) EXCEPT !.reply = NoReply]

mach_notify_dead_name_Request == Shape(<<>>, <<Int32("name")>>)
Xmach_notify_dead_name ==
  Routine("mach_notify_dead_name", mach_notify_dead_name_Request, <<"name">>, <<>>,
          Shape(<<>>, RetCode), <<>>)
mach_notify_dead_name == [CallerOf(72, Xmach_notify_dead_name) EXCEPT !.reply = NoReply]

notify_server ==
  [name |-> "notify", table |->
    65 :> Xmach_notify_port_deleted @@
    69 :> Xmach_notify_port_destroyed @@
    70 :> Xmach_notify_no_senders @@
    71 :> Xmach_notify_send_once @@
    72 :> Xmach_notify_dead_name]

Callers ==
  {mach_notify_port_deleted, mach_notify_port_destroyed,
   mach_notify_no_senders, mach_notify_send_once, mach_notify_dead_name}
==============================================================================
