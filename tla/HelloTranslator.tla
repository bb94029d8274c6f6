-------------------------- MODULE HelloTranslator --------------------------
(***************************************************************************)
(* The hello translator (hello_translator.c): a server thread receives     *)
(* requests on its Mach port and answers each on the reply port that came  *)
(* with it; the main thread is a client that queries and reads the         *)
(* content, then clears `running' and joins the server thread.  Other      *)
(* holders of a send right may send requests of their own.                 *)
(*                                                                         *)
(* Mach messages (external) are modelled as the code uses them: a port is  *)
(* a bounded FIFO queue, a full queue blocks the sender, mach_msg with     *)
(* SEND and RCV blocks until the reply arrives, and a send-once right      *)
(* carries at most one message: the reply, or, when the kernel destroys    *)
(* the right with a message that could not be delivered, perhaps a notice. *)
(* A send fails when the data it names is not mapped; the kernel does not  *)
(* run out of memory for messages.                                         *)
(***************************************************************************)
EXTENDS Integers, Sequences

CONSTANTS Others,      \* clients besides the main thread
          Main,
          Len0,        \* hello_content_len: 31 in the code
          Below,       \* offsets (an int64_t in the code) that clients ask for
          MaxOffset,   \* lie between -Below and MaxOffset, amounts up to MaxOffset
          QLimit,      \* queue limit of a port
          MaxCalls     \* bound on the calls of each other client

ASSUME HelloAssumption ==
  /\ Main \notin Others
  /\ Len0 \in Nat /\ Below \in Nat /\ MaxOffset \in Nat
  /\ QLimit \in Nat \ {0} /\ MaxCalls \in Nat

Clients == Others \cup {Main}

VARIABLES
  queue,     \* requests on the server port
  server,    \* "test", "receive", "handle" or "ended"
  req,       \* the request in the server's buffer
  running,
  call,      \* per client: the call it waits for, or NoCall
  reply,     \* per client: the message on its reply port, or NoReply
  script,    \* the main thread: "readable", "read", "clear", "join", "exit"
  calls      \* per other client: calls made so far

vars == <<queue, server, req, running, call, reply, script, calls>>

Offsets == (-Below) .. MaxOffset
Amounts == 0 .. MaxOffset
Request(c, id, offset, amount) ==
  [from |-> c, id |-> id, offset |-> offset, amount |-> amount]
\* Only a read carries an offset and an amount; any other id is unknown, and a
\* message of any id may be too large for the server's buffer.
RequestsOf(c) ==
  {Request(c, "read", o, a) : o \in Offsets, a \in Amounts}
    \cup {Request(c, id, 0, 0) : id \in {"readable", "unknown", "large"}}
Requests == UNION {RequestsOf(c) : c \in Clients}
NoCall == [id |-> "none"]
NoReply == [id |-> "none"]

\* handle_io_read for the offsets that Requests contains.
\* Mutant: the rest of the content is not limited.
ReadReply_Unlimited(r) ==
  [id |-> "read", start |-> r.offset, len |-> r.amount]

ReadReply(r) ==
  LET available == IF r.offset < Len0 THEN Len0 - r.offset ELSE 0 IN
  [id |-> "read", start |-> r.offset,
   len |-> IF r.amount < available THEN r.amount ELSE available]

ReadableReply == [id |-> "readable", start |-> 0, len |-> Len0]

\* The kernel's notice that a send-once right was destroyed.
Notice == [id |-> "notice", start |-> 0, len |-> 0]

\* The data of the reply begins before the content, where nothing may be mapped.
BeforeContent(r) == r.id = "read" /\ r.offset < 0 /\ ReadReply(r).len > 0

TypeOK ==
  /\ queue \in Seq(Requests) /\ Len(queue) <= QLimit
  /\ server \in {"test", "receive", "handle", "ended"}
  /\ req \in Requests
  /\ running \in BOOLEAN
  /\ \A c \in Clients : call[c] \in Requests \cup {NoCall}
  /\ script \in {"readable", "read", "clear", "join", "exit"}
  /\ calls \in [Others -> 0 .. MaxCalls]

Init ==
  /\ queue = <<>>
  /\ server = "test" /\ running = TRUE
  /\ req = Request(Main, "readable", 0, 0)
  /\ call = [c \in Clients |-> NoCall]
  /\ reply = [c \in Clients |-> NoReply]
  /\ script = "readable"
  /\ calls = [c \in Others |-> 0]

-----------------------------------------------------------------------------
(* Clients                                                                 *)

Send(r) ==
  /\ call[r.from] = NoCall /\ Len(queue) < QLimit
  /\ queue' = Append(queue, r)
  /\ call' = [call EXCEPT ![r.from] = r]

\* The reply arrives and mach_msg returns.
Receive(c) ==
  /\ reply[c] # NoReply
  /\ reply' = [reply EXCEPT ![c] = NoReply]
  /\ call' = [call EXCEPT ![c] = NoCall]

OtherSend(c) ==
  /\ calls[c] < MaxCalls
  /\ \E r \in RequestsOf(c) : Send(r)
  /\ calls' = [calls EXCEPT ![c] = @ + 1]
  /\ UNCHANGED <<server, req, running, reply, script>>

OtherReceive(c) ==
  /\ Receive(c)
  /\ UNCHANGED <<queue, server, req, running, script, calls>>

\* Mutant: the request is not cleared, and io_readable goes out with an amount.
MainSend_NotCleared ==
  /\ script \in {"readable", "read"}
  /\ Send(Request(Main, script, 0, MaxOffset))
  /\ UNCHANGED <<server, req, running, reply, script, calls>>

\* test_client: io_readable, then io_read of 100 bytes at offset 0.
MainSend ==
  /\ script \in {"readable", "read"}
  /\ Send(Request(Main, script, 0, IF script = "read" THEN MaxOffset ELSE 0))
  /\ UNCHANGED <<server, req, running, reply, script, calls>>

MainReceive ==
  /\ Receive(Main)
  /\ script' = IF script = "readable" THEN "read" ELSE "clear"
  /\ UNCHANGED <<queue, server, req, running, calls>>

ClearRunning ==
  /\ script = "clear" /\ script' = "join"
  /\ running' = FALSE
  /\ UNCHANGED <<queue, server, req, call, reply, calls>>

\* pthread_join returns once the server thread has ended.
Join ==
  /\ script = "join" /\ server = "ended"
  /\ script' = "exit"
  /\ UNCHANGED <<queue, server, req, running, call, reply, calls>>

-----------------------------------------------------------------------------
(* server_thread                                                           *)

TestRunning ==
  /\ server = "test"
  /\ server' = IF running THEN "receive" ELSE "ended"
  /\ UNCHANGED <<queue, req, running, call, reply, script, calls>>

\* The right to reply went with a message; its client may be told.
RightDestroyed(c) == reply' \in {reply, [reply EXCEPT ![c] = Notice]}

ServerReceive ==
  /\ server = "receive" /\ queue # <<>> /\ Head(queue).id # "large"
  /\ req' = Head(queue) /\ queue' = Tail(queue)
  /\ server' = "handle"
  /\ UNCHANGED <<running, call, reply, script, calls>>

\* mach_msg fails, and the message is gone.
ServerReceiveFails ==
  /\ server = "receive" /\ queue # <<>> /\ Head(queue).id = "large"
  /\ queue' = Tail(queue)
  /\ RightDestroyed(Head(queue).from)
  /\ server' = "test"
  /\ UNCHANGED <<req, running, call, script, calls>>

\* Mutant: io_readable is handled without a reply.
Answer_NotReadable(r) ==
  IF r.id = "read" THEN reply' = [reply EXCEPT ![r.from] = ReadReply(r)] ELSE UNCHANGED reply

\* Mutant: nothing is sent for an empty read.
Answer_NotEmpty(r) ==
  IF r.id = "read" /\ ReadReply(r).len = 0
  THEN UNCHANGED reply
  ELSE reply' = [reply EXCEPT ![r.from] =
                   IF r.id = "read" THEN ReadReply(r) ELSE ReadableReply]

Answer(r) ==
  reply' = [reply EXCEPT ![r.from] = IF r.id = "read" THEN ReadReply(r) ELSE ReadableReply]

Handle ==
  /\ server = "handle" /\ server' = "test"
  /\ req.id \in {"read", "readable"}
  /\ Answer(req)
  /\ UNCHANGED <<queue, req, running, call, script, calls>>

\* The send of handle_io_read fails, which is printed and forgotten.
HandleFails ==
  /\ server = "handle" /\ server' = "test"
  /\ BeforeContent(req)
  /\ RightDestroyed(req.from)
  /\ UNCHANGED <<queue, req, running, call, script, calls>>

\* The default case: the message is printed and nothing is sent.
HandleUnknown ==
  /\ server = "handle" /\ server' = "test"
  /\ req.id = "unknown"
  /\ UNCHANGED <<queue, req, running, call, reply, script, calls>>

Server == \/ TestRunning \/ ServerReceive \/ ServerReceiveFails
          \/ Handle \/ HandleFails \/ HandleUnknown
MainThread == MainSend \/ MainReceive \/ ClearRunning \/ Join

Next == Server \/ MainThread \/ \E c \in Others : OtherSend(c) \/ OtherReceive(c)

\* Both threads of the program are scheduled whenever they can run.
Spec == Init /\ [][Next]_vars /\ WF_vars(Server) /\ WF_vars(MainThread)

-----------------------------------------------------------------------------
\* The calls that the program may leave without an answer.
Droppable(r) == r.id \in {"unknown", "large"} \/ BeforeContent(r)

(***************************************************************************)
(* A reply reaches the client whose call it answers, only while that       *)
(* client waits, and says what the request asked for: a read at an offset  *)
(* that is not negative returns those of the bytes it asks for that are    *)
(* bytes of the content.  Only a call that was dropped gets a notice.      *)
(***************************************************************************)
RepliesMatchCalls ==
  \A c \in Clients : reply[c] # NoReply =>
    \/ reply[c] = Notice /\ call[c] # NoCall /\ Droppable(call[c])
    \/ /\ call[c].id = reply[c].id
       /\ reply[c].id = "read" /\ call[c].offset >= 0 =>
            LET returned == {reply[c].start + n : n \in 0 .. reply[c].len - 1}
                wanted   == {call[c].offset + n : n \in 0 .. call[c].amount - 1} IN
            returned = wanted \cap (0 .. Len0 - 1)

(***************************************************************************)
(* Every call of a client is in exactly one place: on the queue, in the    *)
(* server's hands or answered.  Dropped for ever are only those with an    *)
(* unknown id, those too large to receive, and the reads whose data begins *)
(* before the content, when it cannot be sent.                             *)
(***************************************************************************)
OneRequestPerCall ==
  \A c \in Clients : call[c] # NoCall =>
    LET queued == {i \in 1 .. Len(queue) : queue[i].from = c}
        handled == server = "handle" /\ req.from = c IN
      /\ \A i, j \in queued : i = j
      /\ (queued = {}) \/ (~handled /\ reply[c] = NoReply)
      /\ ~Droppable(call[c]) =>
           (queued # {}) \/ handled \/ (reply[c] # NoReply)

(***************************************************************************)
(* The main thread's test client gets both of its answers, whatever other  *)
(* clients send meanwhile, and clears `running'.                           *)
(***************************************************************************)
TestCompletes == <>(script = "join")

(***************************************************************************)
(* hello_translator.c, lines 316 and 319: "Wait for server to finish" and  *)
(* then "[MAIN] Translator shut down."                                     *)
(***************************************************************************)
MainExits == <>(script = "exit")
=============================================================================
