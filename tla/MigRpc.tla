------------------------------- MODULE MigRpc -------------------------------
(***************************************************************************)
(* Client threads call one server through the generated stubs.  The        *)
(* client half fills a request and sends it with its thread's reply port;  *)
(* the server half checks it, calls the handler, frees what came out of    *)
(* line and fills the reply, which the client half checks in turn.  The    *)
(* repository has no loop that receives for a demux: the one here is Mach's *)
(* mach_msg_server, with one thread.                                       *)
(***************************************************************************)
EXTENDS MigMessage, ProcServer, ExecServer, FiniteSets

CONSTANTS Clients,
          MaxCalls,   \* bound: calls of a behaviour
          Menus,      \* who is called through which stubs, with which arrays
          Lengths,    \* bound: elements of the first array of a reply
          Demux,      \* per interface: its name and its routines by their ids
          CallersOf   \* per interface: its client stubs

Interfaces == DOMAIN Demux
StubIds    == UNION {{<<i, s.name>> : s \in CallersOf[i]} : i \in Interfaces}
StubOf     == [p \in StubIds |-> CHOOSE s \in CallersOf[p[1]] : s.name = p[2]]

(* ext2fs and pfinet return table slots where a right belongs; these        *)
(* handlers allocate the memory they return; these may wait for ever.       *)
ReturnsSlot == {<<"filesystem", "dir_lookup">>, <<"filesystem", "dir_mkfile">>,
                <<"socket", "socket_create">>, <<"socket", "socket_accept">>}
Allocates   == {<<"filesystem", "dir_readdir">>, <<"filesystem", "file_getstat">>,
                <<"filesystem", "io_read">>, <<"socket", "socket_recv">>,
                <<"socket", "socket_getopt">>, <<"process", "proc_getallpids">>}
MayWait     == {<<"process", "proc_wait">>, <<"filesystem", "dir_lookup">>,
                <<"socket", "socket_accept">>, <<"socket", "socket_connect">>,
                <<"socket", "socket_send">>, <<"socket", "socket_recv">>}

ASSUME RpcAssumption ==
  /\ MaxCalls \in Nat /\ Lengths \subseteq Nat
  /\ \A m \in Menus : /\ m.server \in Interfaces /\ m.stubs \subseteq StubIds
                      /\ m.calls \in 0 .. MaxCalls /\ m.first \in Nat

(* What the layouts have to be like.  An interface has a routine for each of *)
(* its client stubs, whose messages pass its checks; a message to the server *)
(* of another interface that uses the same id does not.                      *)
ASSUME RoutinesAreSound ==
  \A i \in Interfaces : \A id \in DOMAIN Demux[i].table :
    LET x == Demux[i].table[id]
    IN  /\ WellFormed(x.request, x.args) /\ WellFormed(x.reply, x.outs)
        /\ Range(x.frees) = Arrays(x.request)

ASSUME StubsAreSound ==
  \A p \in StubIds :
    LET s == StubOf[p]
    IN  /\ WellFormed(s.request, s.ins) /\ WellFormed(s.reply, s.outs)
        /\ s.reply # NoReply => /\ s.reply.id = s.request.id + 100
                                /\ s.reply.id # MACH_NOTIFY_SEND_ONCE
                                /\ {ErrorSize, SizeOf(Shape(<<>>, <<>>))} \subseteq 0 .. SizeOf(s.reply)
        /\ p \in ReturnsSlot => \E i \in DOMAIN s.reply.desc : s.reply.desc[i].kind = "port"

ASSUME StubsAgree ==
  \A p \in StubIds :
    LET s == StubOf[p]
    IN  /\ s.request.id \in DOMAIN Demux[p[1]].table
        /\ LET x == Demux[p[1]].table[s.request.id]
           IN  /\ x.name = p[2] /\ x.args = s.ins /\ x.outs = s.outs
               /\ Passes(s.request, x.request)
               /\ s.reply # NoReply => Passes(x.reply, s.reply)
        /\ \A i \in Interfaces \ {p[1]} :
             s.request.id \in DOMAIN Demux[i].table
               => Refuses(s.request, Demux[i].table[s.request.id].request)

VARIABLES
  menu,      \* the server, the stubs in use, the calls left to make
  call,      \* the calls made, in order
  port,      \* per thread: the reply port it has cached, or 0
  inbox,     \* the reply ports that exist, each with its messages
  queue,     \* the requests on the server's port
  serving,   \* the request the server works on
  alive,     \* the server task exists
  heap,      \* what the server task holds out of messages
  twice,     \* what it released without holding it
  ran,       \* the handlers called, in order
  held       \* what the clients hold out of replies

vars == <<menu, call, port, inbox, queue, serving, alive, heap, twice, ran, held>>

Nothing == [stage |-> "none"]
Put(f, p, x) == [q \in DOMAIN f \union {p} |-> IF q = p THEN x ELSE f[q]]
Without(f, p) == [q \in DOMAIN f \ {p} |-> f[q]]

Init ==
  /\ menu \in Menus
  /\ call = <<>> /\ queue = <<>> /\ ran = <<>>
  /\ port = [c \in Clients |-> 0] /\ inbox = <<>>
  /\ serving = Nothing /\ alive = TRUE
  /\ heap = {} /\ twice = {} /\ held = {}

-----------------------------------------------------------------------------
(* Tokens: <<k, "in", i>> is argument i of call k, <<k, "out", i>> is result i *)
(* of call k; in its place <<k, "slot", i>> is a number that names no right,  *)
(* <<k, "named", i>> one that happens to name a right of the server.          *)
(* Arrays are empty, or array i has i - 1 elements more than array 1.         *)
NoToken == <<0, "none", 0>>

Length(first, i) == IF first = 0 THEN 0 ELSE first + i - 1

IndexOf(names, n) == CHOOSE i \in DOMAIN names : names[i] = n

Tokens(l, names, k, way) ==
  [n \in Named(l.desc) \union Named(l.inline) |->
     IF n \in Range(names) THEN <<k, way, IndexOf(names, n)>> ELSE NoToken]

Sizes(l, names, first) == [n \in Arrays(l) |-> Length(first, IndexOf(names, n))]

(* What the i-th of `names` is, as the two sides of a call should see it.   *)
Meant(l, names, first, k, way) ==
  [i \in DOMAIN names |->
     [value |-> <<k, way, i>>, len |-> IF names[i] \in Arrays(l) THEN Length(first, i) ELSE 0]]

(* A right, the memory of an array, the rights of an array. *)
Items(d) == CASE d.kind = "port"      -> {<<"right", d.value>>}
              [] d.kind = "ool"       -> {<<"memory", d.value>>}
              [] d.kind = "ool_ports" -> {<<"memory", d.value>>, <<"rights", d.value>>}

Contents(m) == UNION {Items(m.desc[i]) : i \in DOMAIN m.desc}

-----------------------------------------------------------------------------
(* The client half. *)
Idle(c)     == \A k \in DOMAIN call : call[k].client = c => call[k].state # "sent"
Pending(c)  == CHOOSE k \in DOMAIN call : call[k].client = c /\ call[k].state = "sent"

Made(c, p, state, code) ==
  Append(call, [client |-> c, stub |-> p, state |-> state, code |-> code, outs |-> <<>>])

Finished(k, code, outs) ==
  [call EXCEPT ![k].state = "done", ![k].code = code, ![k].outs = outs]

mig_get_reply_port(c) == IF port[c] = 0 THEN Len(call) + 1 ELSE port[c]

mig_dealloc_reply_port(c, p) ==
  /\ port' = [port EXCEPT ![c] = 0]
  /\ inbox' = Without(inbox, p)

mig_put_reply_port(c, p) ==
  /\ port' = [port EXCEPT ![c] = p]
  /\ inbox' = IF p \in DOMAIN inbox THEN inbox ELSE Put(inbox, p, <<>>)

\* Mutant: the reply port is cached again, whatever failed.
MachMsgErrorWithoutTimeout_KeepsPort(c, p, code) == mig_put_reply_port(c, p)

MachMsgErrorWithoutTimeout(c, p, code) ==
  IF code \in {"MACH_SEND_INVALID_DATA", "MACH_SEND_INVALID_DEST", "MACH_SEND_INVALID_HEADER"}
  THEN mig_put_reply_port(c, p)
  ELSE mig_dealloc_reply_port(c, p)

Request(s, first, k, p) ==
  LET body == Fill(s.request, Tokens(s.request, s.ins, k, "in"), Sizes(s.request, s.ins, first))
  IN  [id |-> s.request.id, reply |-> p, call |-> k,
       size |-> body.size, desc |-> body.desc, inline |-> body.inline]

MayCall(c) == Idle(c) /\ Len(call) < menu.calls

Send(c) ==
  /\ MayCall(c) /\ alive
  /\ \E p \in menu.stubs :
       LET k == Len(call) + 1
       IN  /\ StubOf[p].reply # NoReply
           /\ queue' = Append(queue, Request(StubOf[p], menu.first, k, mig_get_reply_port(c)))
           /\ call' = Made(c, p, "sent", "")
           /\ mig_put_reply_port(c, mig_get_reply_port(c))
  /\ UNCHANGED <<menu, serving, alive, heap, twice, ran, held>>

(* The send half of mach_msg fails: the server is gone, or another reason. *)
SendFails(c) ==
  /\ MayCall(c)
  /\ \E p \in menu.stubs, code \in {"MACH_SEND_INVALID_DEST", "MACH_SEND_NO_BUFFER"} :
       /\ StubOf[p].reply # NoReply /\ (code = "MACH_SEND_INVALID_DEST" <=> ~alive)
       /\ call' = Made(c, p, "done", code)
       /\ MachMsgErrorWithoutTimeout(c, mig_get_reply_port(c), code)
  /\ UNCHANGED <<menu, queue, serving, alive, heap, twice, ran, held>>

(* The kernel sends a notification. *)
Notify(c) ==
  /\ MayCall(c) /\ alive
  /\ \E p \in menu.stubs :
       /\ StubOf[p].reply = NoReply
       /\ queue' = Append(queue, Request(StubOf[p], menu.first, Len(call) + 1, 0))
       /\ call' = Made(c, p, "done", "SENT")
  /\ UNCHANGED <<menu, port, inbox, serving, alive, heap, twice, ran, held>>

(* What a stub keeps of a reply: nothing of one that it refuses. *)
Kept(code, m) == IF code = "OK" THEN Contents(m) ELSE {}

Receive(c) ==
  /\ ~Idle(c) /\ inbox[port[c]] # <<>>
  /\ LET k == Pending(c)
         s == StubOf[call[k].stub]
         m == Head(inbox[port[c]])
         code == CheckReply(s.reply, m)
     IN  IF m.size > SizeOf(s.reply)
         THEN /\ call' = Finished(k, "MACH_RCV_TOO_LARGE", <<>>)
              /\ MachMsgErrorWithoutTimeout(c, port[c], "MACH_RCV_TOO_LARGE")
              /\ UNCHANGED held
         ELSE /\ call' = Finished(k, code, IF code # "OK" THEN <<>>
                                        ELSE [i \in DOMAIN s.outs |-> Read(s.reply, m, s.outs[i])])
              /\ held' = held \union Kept(code, m)
              /\ inbox' = [inbox EXCEPT ![port[c]] = Tail(@)]
              /\ UNCHANGED port
  /\ UNCHANGED <<menu, queue, serving, alive, heap, twice, ran>>

(* The receive half of mach_msg fails, for a reason of the kernel's. *)
ReceiveFails(c) ==
  /\ ~Idle(c)
  /\ call' = Finished(Pending(c), "MACH_RCV_BODY_ERROR", <<>>)
  /\ MachMsgErrorWithoutTimeout(c, port[c], "MACH_RCV_BODY_ERROR")
  /\ UNCHANGED <<menu, queue, serving, alive, heap, twice, ran, held>>

-----------------------------------------------------------------------------
(* The server half. *)
Routines == Demux[menu.server].table
Serving  == Routines[serving.msg.id]

ErrorReply(m, code) ==
  [id |-> m.id + 100, size |-> ErrorSize, desc |-> <<>>, inline |-> <<>>, ret |-> code]

(* The demux: an id outside its table, or in an empty slot. *)
Verdict(server, m) ==
  LET table == Demux[server].table
  IN  IF m.id \notin DOMAIN table THEN "MIG_BAD_ID" ELSE CheckRequest(table[m.id].request, m)

Incoming == Deliver(Head(queue))

Dequeue == /\ alive /\ serving = Nothing /\ queue # <<>>
           /\ queue' = Tail(queue)
           /\ heap' = heap \union Contents(Incoming)

\* Mutant: a request that is not understood is dropped.
Refuse_Silent ==
  /\ Dequeue /\ Verdict(menu.server, Incoming) # "OK"
  /\ UNCHANGED <<menu, call, port, inbox, serving, alive, twice, ran, held>>

Refuse ==
  /\ Dequeue /\ Verdict(menu.server, Incoming) # "OK"
  /\ serving' = [stage |-> "reply", msg |-> Incoming, left |-> Contents(Incoming),
                 reply |-> ErrorReply(Incoming, Verdict(menu.server, Incoming))]
  /\ UNCHANGED <<menu, call, port, inbox, alive, twice, ran, held>>

Invoke ==
  /\ Dequeue /\ Verdict(menu.server, Incoming) = "OK"
  /\ LET x == Routines[Incoming.id]
     IN  ran' = Append(ran,
           [call |-> Incoming.call, routine |-> <<menu.server, x.name>>, ret |-> "",
            args |-> [i \in DOMAIN x.args |-> Read(x.request, Incoming, x.args[i])],
            first |-> 0])
  /\ serving' = [stage |-> "handler", msg |-> Incoming, left |-> Contents(Incoming)]
  /\ UNCHANGED <<menu, call, port, inbox, alive, twice, held>>

Outcomes(x) ==
  IF x.name \in DOMAIN ProcOutcomes THEN ProcOutcomes[x.name]
  ELSE IF x.name \in DOMAIN ExecOutcomes THEN ExecOutcomes[x.name]
  ELSE {[ret |-> "OK", count |-> n] : n \in IF Arrays(x.reply) = {} THEN {0} ELSE Lengths}
       \union {[ret |-> "FAILURE", count |-> 0]}

\* Mutant: the addresses of what was deallocated stay in the request.
Forgotten_Nothing(x, m) == {}

(* What the stub deallocates when the handler is back, and what it then      *)
(* forgets: of an array of rights, the rights as well.                       *)
Received(x, m, n) == m.desc[Position(x.request.desc, n)]
Freed(x, m)     == {<<"memory", Received(x, m, n).value>> : n \in Range(x.frees)}
Forgotten(x, m) == UNION {Items(Received(x, m, n)) : n \in Range(x.frees)}

(* A table slot, 0x200 and up or 0x100 and up, may name a right or none. *)
Ways(id) == IF id \in ReturnsSlot THEN {"slot", "named"} ELSE {"out"}

Outcome(x, m, n, way) ==
  LET body == Fill(x.reply, Tokens(x.reply, x.outs, m.call, way), Sizes(x.reply, x.outs, n))
  IN  [id |-> m.id + 100, ret |-> "OK",
       size |-> body.size, desc |-> body.desc, inline |-> body.inline]

Reply(x, m, o, way) ==
  IF o.ret # "OK" THEN ErrorReply(m, o.ret) ELSE Outcome(x, m, o.count, way)

Buffers(x, m) == {<<"buffer", <<m.call, "out", i>>>> : i \in
                    {j \in DOMAIN x.outs : x.outs[j] \in Arrays(x.reply)}}

HandlerReturns ==
  /\ serving.stage = "handler"
  /\ LET x == Serving
         m == serving.msg
         id == <<menu.server, x.name>>
     IN  \E o \in Outcomes(x), way \in Ways(id) :
           /\ serving' = [stage |-> "reply", msg |-> m,
                          left |-> serving.left \ Forgotten(x, m),
                          reply |-> Reply(x, m, o, way)]
           /\ heap' = (heap \ Freed(x, m)) \union
                        IF o.ret = "OK" /\ id \in Allocates THEN Buffers(x, m) ELSE {}
           /\ twice' = twice \union (Freed(x, m) \ heap)
           /\ ran' = [ran EXCEPT ![Len(ran)].ret = o.ret, ![Len(ran)].first = o.count]
  /\ UNCHANGED <<menu, call, port, inbox, queue, alive, held>>

(* A send-once right that is destroyed tells the port it names. *)
SendOnceNotification ==
  [id |-> MACH_NOTIFY_SEND_ONCE, size |-> SizeOf(Shape(<<>>, <<>>)), desc |-> <<>>,
   inline |-> <<>>, ret |-> "OK"]

Sendable(m) == \A i \in DOMAIN m.desc : m.desc[i].kind = "port" => m.desc[i].value[2] # "slot"

Post(p, m) == IF p \in DOMAIN inbox THEN [inbox EXCEPT ![p] = Append(@, Deliver(m))] ELSE inbox

(* The server loop: an error reply means the request is the loop's to       *)
(* destroy, a reply that cannot be sent is destroyed with its right.        *)
SendReply ==
  /\ serving.stage = "reply"
  /\ LET left == IF serving.reply.ret = "OK" THEN {} ELSE serving.left
     IN  heap' = heap \ left /\ twice' = twice \union (left \ heap)
  /\ inbox' = Post(serving.msg.reply,
                   IF Sendable(serving.reply) THEN serving.reply ELSE SendOnceNotification)
  /\ serving' = Nothing
  /\ UNCHANGED <<menu, call, port, queue, alive, ran, held>>

ServerDies ==
  /\ alive /\ alive' = FALSE
  /\ LET asked == {q.reply : q \in Range(queue)} \union
                    IF serving = Nothing THEN {} ELSE {serving.msg.reply}
     IN  inbox' = [p \in DOMAIN inbox |->
                     IF p \in asked THEN Append(inbox[p], SendOnceNotification) ELSE inbox[p]]
  /\ queue' = <<>> /\ serving' = Nothing /\ heap' = {}
  /\ UNCHANGED <<menu, call, port, twice, ran, held>>

-----------------------------------------------------------------------------
Client(c) == Send(c) \/ SendFails(c) \/ Notify(c) \/ Receive(c) \/ ReceiveFails(c)

Next == \/ \E c \in Clients : Client(c)
        \/ Refuse \/ Invoke \/ HandlerReturns \/ SendReply \/ ServerDies

Waits == serving.stage = "handler" /\ <<menu.server, Serving.name>> \in MayWait

(* The kernel runs the server thread and the threads that have a message;   *)
(* nothing says that waitpid, accept or recv return, nor openat on a FIFO   *)
(* that nobody writes to.                                                   *)
Fairness == /\ WF_vars(Refuse) /\ WF_vars(Invoke) /\ WF_vars(SendReply)
            /\ WF_vars(HandlerReturns /\ ~Waits)
            /\ \A c \in Clients : WF_vars(Receive(c))

Spec == Init /\ [][Next]_vars /\ Fairness
-----------------------------------------------------------------------------
Ran(k)   == {i \in DOMAIN ran : ran[i].call = k}
RanOk(k) == \E i \in Ran(k) : ran[i].ret = "OK"
Over(k)  == call[k].state = "done"
Own(k)   == call[k].stub[1] = menu.server

(* Every array of the call, request and reply, has a size in bytes that its  *)
(* 32-bit field holds.                                                       *)
FitsIn(l, names, first) ==
  \A i \in DOMAIN l.desc : l.desc[i].kind # "port" =>
    Sizes(l, names, first)[l.desc[i].name] * l.desc[i].elt < Word

SizesFit(k) ==
  LET s == StubOf[call[k].stub]
  IN  /\ FitsIn(s.request, s.ins, menu.first)
      /\ \A i \in Ran(k) : FitsIn(s.reply, s.outs, ran[i].first)

TypeOK ==
  /\ Len(call) <= menu.calls
  /\ \A k \in DOMAIN call :
       /\ call[k].client \in Clients /\ call[k].stub \in menu.stubs
       /\ call[k].state \in {"sent", "done"}
       /\ Len(call[k].outs) \in {0, Len(StubOf[call[k].stub].outs)}
  /\ port \in [Clients -> 0 .. MaxCalls] /\ DOMAIN inbox \subseteq 1 .. MaxCalls
  /\ serving.stage \in {"none", "handler", "reply"} /\ alive \in BOOLEAN
  /\ \A i \in DOMAIN ran : ran[i].call \in DOMAIN call
  /\ \A p \in DOMAIN inbox : Len(inbox[p]) <= 1

(* What a stub says went wrong did.  Whatever fails or comes late, a caller  *)
(* of the right server is told of a malformed request or reply only for an   *)
(* array whose size in bytes does not fit 32 bits; and that a server that    *)
(* lives has died only if its handler returned a table slot for a right.     *)
ErrorsAreTrue ==
  \A k \in DOMAIN call : Over(k) =>
    /\ Own(k) /\ call[k].code \in {"MIG_BAD_ID", "MIG_BAD_ARGUMENTS", "MIG_TYPE_ERROR",
                                    "MIG_REPLY_MISMATCH", "MACH_RCV_TOO_LARGE"}
         => ~SizesFit(k)
    /\ call[k].code = "MIG_SERVER_DIED" /\ alive
         => call[k].stub \in ReturnsSlot /\ RanOk(k)

(* A handler runs only for its own stub, with the caller's arguments, each   *)
(* in its place and each array as long as the caller said.  Interfaces share *)
(* ids 22000 to 22002; a call that reaches the wrong server runs nothing.    *)
ArgumentsArrive ==
  \A i \in DOMAIN ran :
    LET k == ran[i].call
        s == StubOf[call[k].stub]
    IN  /\ ran[i].routine = call[k].stub
        /\ ran[i].args = Meant(s.request, s.ins, menu.first, k, "in")

(* A successful call returns the results of its own execution, each in its   *)
(* place and with its length: never those of an earlier call whose reply     *)
(* came after the caller had given up.  Where the handler returns a table    *)
(* slot, the result is a right of the server's that the number names.        *)
Returned(id) == IF id \in ReturnsSlot THEN "named" ELSE "out"

ResultsArrive ==
  \A k \in DOMAIN call :
    Over(k) /\ call[k].code = "OK" =>
      \E i \in Ran(k) :
        LET s == StubOf[call[k].stub]
        IN  /\ ran[i].ret = "OK"
            /\ call[k].outs =
             Meant(s.reply, s.outs, ran[i].first, k, Returned(call[k].stub))

(* Between requests the server task holds nothing that came with a request   *)
(* that failed, except the rights of arrays: the stub forgets them with      *)
(* their memory before the handler's code is looked at.  The memory that a   *)
(* handler allocated for a reply stays too.  Nothing is released twice.      *)
(* What a client holds came with a call that it knows succeeded, and a       *)
(* thread has no reply port besides the cached one.                          *)
MessagesAreReleased ==
  /\ twice = {}
  /\ serving = Nothing =>
       \A h \in heap : \/ h[1] \in {"rights", "buffer"}
                       \/ h[1] = "right" /\ RanOk(h[2][1])
  /\ \A h \in held : Over(h[2][1]) /\ call[h[2][1]].code = "OK"
  /\ DOMAIN inbox = {port[c] : c \in Clients} \ {0}

(* Every call promises what a remote procedure call promises.                *)
StateOf(k) ==
  IF k \notin DOMAIN call THEN "none"
  ELSE IF call[k].state = "sent" THEN "pending"
  ELSE IF call[k].code = "OK" THEN "succeeded" ELSE "failed"

RpcCalls == 1 .. MaxCalls
Rpc == INSTANCE AtMostOnce WITH
         Calls <- RpcCalls,
         state <- [k \in RpcCalls |-> StateOf(k)],
         runs  <- [k \in RpcCalls |-> Cardinality(Ran(k))]

AtMostOnce == Rpc!Spec

(* A call that was sent returns, also when its reply cannot be sent and when *)
(* the server dies, unless the one server thread waits in a handler.         *)
CallsReturn ==
  \A k \in RpcCalls :
    (k \in DOMAIN call /\ call[k].state = "sent")
      ~> ((k \in DOMAIN call /\ Over(k)) \/ Waits)
=============================================================================
