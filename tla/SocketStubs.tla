----------------------------- MODULE SocketStubs -----------------------------
(* The socket interface, ids 26100 to 26111.  Addresses travel inline.      *)
EXTENDS MigMessage, TLC

socket_create_Reply == Layout(26200, <<Right("sock", 17)>>, <<>>)
socket_create ==
  Stub("socket_create", <<"sock_type", "protocol">>,
       Layout(26100, <<>>, <<Int32("sock_type"), Int32("protocol")>>),
       socket_create_Reply, <<"sock">>)
socket_create_Request == Shape(<<>>, <<Int32("sock_type"), Int32("protocol")>>)
Xsocket_create ==
  Routine("socket_create", socket_create_Request, <<"sock_type", "protocol">>, <<>>,
          Shape(<<Right("sock", 19)>>, <<>>), <<"sock">>)

socket_bind_Reply == Layout(26201, <<>>, RetCode)
socket_bind ==
  Stub("socket_bind", <<"addr">>,
       Layout(26101, <<>>, <<Block("addr", 16)>>), socket_bind_Reply, <<>>)
socket_bind_Request == Shape(<<>>, <<Block("addr", 16)>>)
Xsocket_bind ==
  Routine("socket_bind", socket_bind_Request, <<"addr">>, <<>>,
          Shape(<<>>, RetCode), <<>>)

socket_listen_Reply == Layout(26202, <<>>, RetCode)
socket_listen ==
  Stub("socket_listen", <<"backlog">>,
       Layout(26102, <<>>, <<Int32("backlog")>>), socket_listen_Reply, <<>>)
socket_listen_Request == Shape(<<>>, <<Int32("backlog")>>)
Xsocket_listen ==
  Routine("socket_listen", socket_listen_Request, <<"backlog">>, <<>>,
          Shape(<<>>, RetCode), <<>>)

socket_accept_Reply ==
  Layout(26203, <<Right("conn", 17)>>, <<Block("peer_addr", 16)>>)
socket_accept ==
  Stub("socket_accept", <<>>,
       Layout(26103, <<>>, <<>>), socket_accept_Reply, <<"conn", "peer_addr">>)
socket_accept_Request == Shape(<<>>, <<>>)
Xsocket_accept ==
  Routine("socket_accept", socket_accept_Request, <<>>, <<>>,
          Shape(<<Right("conn", 19)>>, <<Block("peer_addr", 16)>>),
          <<"conn", "peer_addr">>)

socket_connect_Reply == Layout(26204, <<>>, RetCode)
socket_connect ==
  Stub("socket_connect", <<"addr">>,
       Layout(26104, <<>>, <<Block("addr", 16)>>), socket_connect_Reply, <<>>)
socket_connect_Request == Shape(<<>>, <<Block("addr", 16)>>)
Xsocket_connect ==
  Routine("socket_connect", socket_connect_Request, <<"addr">>, <<>>,
          Shape(<<>>, RetCode), <<>>)

socket_send_Reply == Layout(26205, <<>>, <<Int32("RetCode"), Int32("amount")>>)
socket_send ==
  Stub("socket_send", <<"data", "flags">>,
       Layout(26105, <<Data("data", 1)>>, <<Count("data"), Int32("flags")>>),
       socket_send_Reply, <<"amount">>)
socket_send_Request == Shape(<<Data("data", 1)>>, <<Count("data"), Int32("flags")>>)
Xsocket_send ==
  Routine("socket_send", socket_send_Request, <<"data", "flags">>, <<"data">>,
          Shape(<<>>, <<Int32("RetCode"), Int32("amount")>>), <<"amount">>)

socket_recv_Reply == Layout(26206, <<Data("data", 1)>>, <<Count("data")>>)
socket_recv ==
  Stub("socket_recv", <<"flags", "amount">>,
       Layout(26106, <<>>, <<Int32("flags"), Int32("amount")>>), socket_recv_Reply,
       <<"data">>)
socket_recv_Request == Shape(<<>>, <<Int32("flags"), Int32("amount")>>)
Xsocket_recv ==
  Routine("socket_recv", socket_recv_Request, <<"flags", "amount">>, <<>>,
          Shape(<<Data("data", 1)>>, <<Count("data")>>), <<"data">>)

socket_name_Reply == Layout(26207, <<>>, <<Int32("RetCode"), Block("addr", 16)>>)
socket_name ==
  Stub("socket_name", <<>>,
       Layout(26107, <<>>, <<>>), socket_name_Reply, <<"addr">>)
socket_name_Request == Shape(<<>>, <<>>)
Xsocket_name ==
  Routine("socket_name", socket_name_Request, <<>>, <<>>,
          Shape(<<>>, <<Int32("RetCode"), Block("addr", 16)>>), <<"addr">>)

socket_peername_Reply ==
  Layout(26208, <<>>, <<Int32("RetCode"), Block("addr", 16)>>)
socket_peername ==
  Stub("socket_peername", <<>>,
       Layout(26108, <<>>, <<>>), socket_peername_Reply, <<"addr">>)
socket_peername_Request == Shape(<<>>, <<>>)
Xsocket_peername ==
  Routine("socket_peername", socket_peername_Request, <<>>, <<>>,
          Shape(<<>>, <<Int32("RetCode"), Block("addr", 16)>>), <<"addr">>)

socket_shutdown_Reply == Layout(26209, <<>>, RetCode)
socket_shutdown ==
  Stub("socket_shutdown", <<"how">>,
       Layout(26109, <<>>, <<Int32("how")>>), socket_shutdown_Reply, <<>>)
socket_shutdown_Request == Shape(<<>>, <<Int32("how")>>)
Xsocket_shutdown ==
  Routine("socket_shutdown", socket_shutdown_Request, <<"how">>, <<>>,
          Shape(<<>>, RetCode), <<>>)

socket_getopt_Reply == Layout(26210, <<Data("optval", 1)>>, <<Count("optval")>>)
socket_getopt ==
  Stub("socket_getopt", <<"level", "option">>,
       Layout(26110, <<>>, <<Int32("level"), Int32("option")>>),
       socket_getopt_Reply, <<"optval">>)
socket_getopt_Request == Shape(<<>>, <<Int32("level"), Int32("option")>>)
Xsocket_getopt ==
  Routine("socket_getopt", socket_getopt_Request, <<"level", "option">>, <<>>,
          Shape(<<Data("optval", 1)>>, <<Count("optval")>>), <<"optval">>)

socket_setopt_Reply == Layout(26211, <<>>, RetCode)
socket_setopt ==
  Stub("socket_setopt", <<"level", "option", "optval">>,
       Layout(26111, <<Data("optval", 1)>>,
         <<Int32("level"), Int32("option"), Count("optval")>>), socket_setopt_Reply,
       <<>>)
socket_setopt_Request ==
  Shape(<<Data("optval", 1)>>, <<Int32("level"), Int32("option"), Count("optval")>>)
Xsocket_setopt ==
  Routine("socket_setopt", socket_setopt_Request, <<"level", "option", "optval">>,
          <<"optval">>,
          Shape(<<>>, RetCode), <<>>)

socket_server ==
  [name |-> "socket", table |->
    26100 :> Xsocket_create @@
    26101 :> Xsocket_bind @@
    26102 :> Xsocket_listen @@
    26103 :> Xsocket_accept @@
    26104 :> Xsocket_connect @@
    26105 :> Xsocket_send @@
    26106 :> Xsocket_recv @@
    26107 :> Xsocket_name @@
    26108 :> Xsocket_peername @@
    26109 :> Xsocket_shutdown @@
    26110 :> Xsocket_getopt @@
    26111 :> Xsocket_setopt]

Callers ==
  {socket_create, socket_bind, socket_listen, socket_accept, socket_connect,
   socket_send, socket_recv, socket_name, socket_peername, socket_shutdown,
   socket_getopt, socket_setopt}
==============================================================================
