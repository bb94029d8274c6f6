------------------------------ MODULE Pfinet ------------------------------
(***************************************************************************)
(* The handlers of the pfinet server (compat/pfinet_xnu.c) on the handle   *)
(* table: socket_create and socket_accept open, every other handler passes *)
(* the descriptor of its handle to the host, and none closes it.           *)
(***************************************************************************)
EXTENDS HandleRing

PfinetArrive(t) == \/ Request(t, "create", FALSE)
                   \/ \E op \in {"accept", "socket"} : Request(t, op, TRUE)

Create(t) ==
  /\ pc[t] = "call" /\ job[t].op = "create"
  /\ OpenFrom(t, NoFile)

\* socket_accept: EBADF, or the new descriptor of a connection.
Accept(t) ==
  /\ pc[t] = "call" /\ job[t].op = "accept"
  /\ IF job[t].fd < 0 THEN End(t, NoFile) ELSE OpenFrom(t, Reached(fds, job[t].fd))

\* bind, listen, connect, send, recv, name, peername, shutdown, getopt, setopt.
SocketOp(t) ==
  /\ pc[t] = "call" /\ job[t].op = "socket"
  /\ End(t, IF job[t].fd < 0 THEN NoFile ELSE Reached(fds, job[t].fd))

PfinetNext == \E t \in Threads :
  PfinetArrive(t) \/ Create(t) \/ Accept(t) \/ SocketOp(t) \/ Common(t)
=============================================================================
