----------------------- MODULE HelloTranslatorProofs -----------------------
(***************************************************************************)
(* Which call a reply of the hello translator answers, and what it says,   *)
(* for every number of clients, every queue limit and every content.       *)
(***************************************************************************)
EXTENDS HelloTranslator, TLAPS

-----------------------------------------------------------------------------
(* The inductive invariant.                                                *)

Replies(r) == IF r.id = "read" THEN ReadReply(r) ELSE ReadableReply

Shape ==
  /\ queue \in Seq(Requests) /\ Len(queue) <= QLimit
  /\ server \in {"test", "receive", "handle", "ended"}
  /\ req \in Requests
  /\ running \in BOOLEAN
  /\ DOMAIN call = Clients /\ DOMAIN reply = Clients
  /\ \A c \in Clients : call[c] \in RequestsOf(c) \cup {NoCall}
  /\ script \in {"readable", "read", "clear", "join", "exit"}
  /\ calls \in [Others -> 0 .. MaxCalls]

\* A request on the queue is the call of a client that has no reply yet.
QueuedAreCalls ==
  \A i \in 1 .. Len(queue) :
    /\ call[queue[i].from] = queue[i] /\ reply[queue[i].from] = NoReply
    /\ \A j \in 1 .. Len(queue) : queue[j].from = queue[i].from => i = j

\* So is the one that the server works on, and it is not on the queue as well.
HandledIsCall ==
  server = "handle" =>
    /\ call[req.from] = req /\ reply[req.from] = NoReply
    /\ \A i \in 1 .. Len(queue) : queue[i].from # req.from

\* A reply answers the call of the client it was sent to.
RepliesAnswer ==
  \A c \in Clients : reply[c] # NoReply =>
    /\ call[c] # NoCall
    /\ \/ reply[c] = Notice /\ Droppable(call[c])
       \/ call[c].id \in {"read", "readable"} /\ reply[c] = Replies(call[c])

\* No call is lost, but for those that the program may drop.
CallsAreSomewhere ==
  \A c \in Clients : call[c] # NoCall /\ ~Droppable(call[c]) =>
    \/ \E i \in 1 .. Len(queue) : queue[i].from = c
    \/ server = "handle" /\ req.from = c
    \/ reply[c] # NoReply

HelloInv ==
  Shape /\ QueuedAreCalls /\ HandledIsCall /\ RepliesAnswer /\ CallsAreSomewhere

-----------------------------------------------------------------------------
(* Requests, replies and queues.                                           *)

\* What a client can ask for.
LEMMA RequestFacts ==
  ASSUME NEW c, NEW r \in RequestsOf(c)
  PROVE  /\ r.from = c /\ r.id \in {"read", "readable", "unknown", "large"} /\ r # NoCall
         /\ r.offset \in Int /\ r.amount \in Nat
<1>1. CASE \E o \in Offsets, a \in Amounts : r = Request(c, "read", o, a)
  BY <1>1, HelloAssumption DEF Request, Offsets, Amounts, NoCall
<1>2. CASE \E id \in {"readable", "unknown", "large"} : r = Request(c, id, 0, 0)
  BY <1>2 DEF Request, NoCall
<1> QED BY <1>1, <1>2 DEF RequestsOf

\* A request belongs to the client it names.
LEMMA RequestOwner ==
  ASSUME NEW r \in Requests
  PROVE  r.from \in Clients /\ r \in RequestsOf(r.from)
<1>1. PICK c \in Clients : r \in RequestsOf(c)
  BY DEF Requests
<1> QED BY <1>1, RequestFacts

\* A reply is never taken for an empty reply port.
LEMMA ReplyFacts ==
  ASSUME NEW r, r.id # "none"
  PROVE  Replies(r) # NoReply /\ Notice # NoReply
BY DEF Replies, ReadReply, ReadableReply, NoReply, Notice

\* What Append leaves and adds.
LEMMA Appending ==
  ASSUME NEW S, NEW q \in Seq(S), NEW x \in S
  PROVE  /\ Append(q, x) \in Seq(S) /\ Len(Append(q, x)) = Len(q) + 1
         /\ Append(q, x)[Len(q) + 1] = x
         /\ \A i \in 1 .. Len(q) : Append(q, x)[i] = q[i]
OBVIOUS

\* What Head takes and Tail leaves.
LEMMA Dequeuing ==
  ASSUME NEW S, NEW q \in Seq(S), q # <<>>
  PROVE  /\ Head(q) \in S /\ Tail(q) \in Seq(S)
         /\ Len(q) \in Nat \ {0} /\ Len(Tail(q)) = Len(q) - 1
         /\ Head(q) = q[1]
         /\ \A i \in 1 .. Len(q) - 1 : Tail(q)[i] = q[i + 1]
OBVIOUS

-----------------------------------------------------------------------------
(* The steps.                                                              *)

\* The invariant holds at the start.
LEMMA HelloInit == Init => HelloInv
<1> SUFFICES ASSUME Init PROVE HelloInv
  OBVIOUS
<1>1. Main \in Clients
  BY DEF Clients
<1>2. Request(Main, "readable", 0, 0) \in Requests
  BY <1>1 DEF Requests, RequestsOf
<1>3. Shape
  BY <1>2, HelloAssumption DEF Init, Shape
<1> QED
  BY <1>3 DEF Init, HelloInv, QueuedAreCalls, HandledIsCall, RepliesAnswer,
              CallsAreSomewhere

\* A client that has no call has no reply and no request under way.
LEMMA IdleClient ==
  ASSUME HelloInv, NEW c \in Clients, call[c] = NoCall
  PROVE  /\ reply[c] = NoReply
         /\ \A i \in 1 .. Len(queue) : queue[i].from # c
         /\ server = "handle" => req.from # c
<1>1. reply[c] = NoReply
  BY DEF HelloInv, RepliesAnswer
<1>2. \A i \in 1 .. Len(queue) : queue[i].from # c
  <2> SUFFICES ASSUME NEW i \in 1 .. Len(queue), queue[i].from = c PROVE FALSE
    OBVIOUS
  <2>1. queue[i] \in Requests
    BY DEF HelloInv, Shape
  <2>2. queue[i] # NoCall
    BY <2>1, RequestOwner, RequestFacts
  <2> QED BY <2>2 DEF HelloInv, QueuedAreCalls
<1>3. server = "handle" => req.from # c
  <2>1. req # NoCall
    BY RequestOwner, RequestFacts DEF HelloInv, Shape
  <2> QED BY <2>1 DEF HelloInv, HandledIsCall
<1> QED BY <1>1, <1>2, <1>3

\* A request joins the queue.
LEMMA SendKeeps ==
  ASSUME HelloInv, NEW c \in Clients, NEW r \in RequestsOf(c), Send(r),
         UNCHANGED <<server, req, running, reply>>,
         script' \in {"readable", "read", "clear", "join", "exit"},
         calls' \in [Others -> 0 .. MaxCalls]
  PROVE  HelloInv'
<1>1. r.from = c /\ r \in Requests
  BY RequestFacts DEF Requests
<1>2. /\ queue \in Seq(Requests) /\ Len(queue) < QLimit /\ queue' = Append(queue, r)
      /\ DOMAIN call = Clients /\ call[c] = NoCall
      /\ call' = [call EXCEPT ![c] = r]
  BY <1>1 DEF Send, HelloInv, Shape
<1>3. /\ reply[c] = NoReply
      /\ \A i \in 1 .. Len(queue) : queue[i].from # c
      /\ server = "handle" => req.from # c
  BY <1>2, IdleClient
<1>4. /\ queue' \in Seq(Requests) /\ Len(queue') = Len(queue) + 1 /\ Len(queue) \in Nat
      /\ queue'[Len(queue) + 1] = r
      /\ \A i \in 1 .. Len(queue) : queue'[i] = queue[i]
  BY <1>1, <1>2, Appending
<1>5. call'[c] = r /\ DOMAIN call' = Clients /\ \A d \in Clients : d # c => call'[d] = call[d]
  BY <1>2
<1>6. Shape'
  <2>1. Len(queue') <= QLimit
    BY <1>2, <1>4, HelloAssumption
  <2>2. \A d \in Clients : call'[d] \in RequestsOf(d) \cup {NoCall}
    BY <1>5 DEF HelloInv, Shape
  <2> QED BY <1>4, <1>5, <2>1, <2>2 DEF HelloInv, Shape
<1>7. QueuedAreCalls'
  <2> SUFFICES ASSUME NEW i \in 1 .. Len(queue')
               PROVE  /\ call'[queue'[i].from] = queue'[i] /\ reply'[queue'[i].from] = NoReply
                      /\ \A j \in 1 .. Len(queue') : queue'[j].from = queue'[i].from => i = j
    BY DEF QueuedAreCalls
  <2>1. CASE i = Len(queue) + 1
    <3>1. \A j \in 1 .. Len(queue') : queue'[j].from = c => j = i
      BY <1>3, <1>4, <2>1
    <3> QED BY <1>1, <1>3, <1>4, <1>5, <2>1, <3>1
  <2>2. CASE i \in 1 .. Len(queue)
    <3>1. queue'[i] = queue[i] /\ queue[i].from # c /\ queue[i].from \in Clients
      BY <1>2, <1>3, <1>4, <2>2, RequestOwner
    <3>2. call'[queue[i].from] = queue[i] /\ reply'[queue[i].from] = NoReply
      BY <1>5, <2>2, <3>1 DEF HelloInv, QueuedAreCalls
    <3>3. ASSUME NEW j \in 1 .. Len(queue'), queue'[j].from = queue[i].from PROVE i = j
      <4>1. j # Len(queue) + 1
        BY <1>1, <1>4, <3>1, <3>3
      <4>2. j \in 1 .. Len(queue)
        BY <1>4, <4>1
      <4> QED BY <1>4, <2>2, <3>3, <4>2 DEF HelloInv, QueuedAreCalls
    <3> QED BY <3>1, <3>2, <3>3
  <2> QED BY <1>4, <2>1, <2>2
<1>8. HandledIsCall'
  <2> SUFFICES ASSUME server = "handle"
               PROVE  /\ call'[req.from] = req /\ reply[req.from] = NoReply
                      /\ \A i \in 1 .. Len(queue') : queue'[i].from # req.from
    BY DEF HandledIsCall
  <2>1. req.from \in Clients /\ req.from # c
    BY <1>3, RequestOwner DEF HelloInv, Shape
  <2>2. \A i \in 1 .. Len(queue') : i = Len(queue) + 1 \/ i \in 1 .. Len(queue)
    BY <1>4
  <2> QED BY <1>1, <1>4, <1>5, <2>1, <2>2 DEF HelloInv, HandledIsCall
<1>9. RepliesAnswer'
  BY <1>3, <1>5 DEF HelloInv, RepliesAnswer
<1>10. CallsAreSomewhere'
  <2> SUFFICES ASSUME NEW d \in Clients, call'[d] # NoCall, ~Droppable(call'[d])
               PROVE  \/ \E i \in 1 .. Len(queue') : queue'[i].from = d
                      \/ server = "handle" /\ req.from = d
                      \/ reply[d] # NoReply
    BY DEF CallsAreSomewhere
  <2>1. CASE d = c
    BY <1>1, <1>4, <2>1
  <2>2. CASE d # c
    <3>1. CASE \E i \in 1 .. Len(queue) : queue[i].from = d
      BY <1>4, <3>1
    <3> QED BY <1>5, <2>2, <3>1 DEF HelloInv, CallsAreSomewhere
  <2> QED BY <2>1, <2>2
<1> QED BY <1>6, <1>7, <1>8, <1>9, <1>10 DEF HelloInv

\* A reply is taken and the call is over.
LEMMA ReceiveKeeps ==
  ASSUME HelloInv, NEW c \in Clients, Receive(c),
         UNCHANGED <<queue, server, req, running, calls>>,
         script' \in {"readable", "read", "clear", "join", "exit"}
  PROVE  HelloInv'
<1>1. /\ reply[c] # NoReply /\ DOMAIN call = Clients /\ DOMAIN reply = Clients
      /\ reply' = [reply EXCEPT ![c] = NoReply] /\ call' = [call EXCEPT ![c] = NoCall]
  BY DEF Receive, HelloInv, Shape
<1>2. /\ reply'[c] = NoReply /\ call'[c] = NoCall
      /\ DOMAIN call' = Clients /\ DOMAIN reply' = Clients
      /\ \A d \in Clients : d # c => reply'[d] = reply[d] /\ call'[d] = call[d]
  BY <1>1
<1>3. \A i \in 1 .. Len(queue) : queue[i].from # c /\ queue[i].from \in Clients
  <2>1. \A i \in 1 .. Len(queue) : queue[i] \in Requests
    BY DEF HelloInv, Shape
  <2> QED BY <1>1, <2>1, RequestOwner DEF HelloInv, QueuedAreCalls
<1>4. req.from \in Clients /\ (server = "handle" => req.from # c)
  BY <1>1, RequestOwner DEF HelloInv, Shape, HandledIsCall
<1>5. Shape'
  BY <1>2 DEF HelloInv, Shape
<1>6. QueuedAreCalls' /\ HandledIsCall'
  BY <1>2, <1>3, <1>4 DEF HelloInv, QueuedAreCalls, HandledIsCall
<1>7. RepliesAnswer' /\ CallsAreSomewhere'
  BY <1>2 DEF HelloInv, RepliesAnswer, CallsAreSomewhere
<1> QED BY <1>5, <1>6, <1>7 DEF HelloInv

\* What the oldest request leaves behind.
LEMMA HeadLeaves ==
  ASSUME HelloInv, queue # <<>>, queue' = Tail(queue)
  PROVE  /\ queue' \in Seq(Requests) /\ Len(queue') <= QLimit
         /\ Head(queue) \in Requests
         /\ call[Head(queue).from] = Head(queue) /\ reply[Head(queue).from] = NoReply
         /\ \A i \in 1 .. Len(queue') :
              /\ call[queue'[i].from] = queue'[i] /\ reply[queue'[i].from] = NoReply
              /\ queue'[i].from # Head(queue).from /\ queue'[i].from \in Clients
              /\ \A j \in 1 .. Len(queue') : queue'[j].from = queue'[i].from => i = j
         /\ \A i \in 1 .. Len(queue) :
              \/ queue[i].from = Head(queue).from
              \/ \E j \in 1 .. Len(queue') : queue'[j].from = queue[i].from
<1>1. /\ queue \in Seq(Requests) /\ Len(queue) <= QLimit
      /\ \A i \in 1 .. Len(queue) : queue[i] \in Requests
  BY DEF HelloInv, Shape
<1>2. /\ Head(queue) \in Requests /\ queue' \in Seq(Requests)
      /\ Len(queue) \in Nat \ {0} /\ Len(queue') = Len(queue) - 1
      /\ Head(queue) = queue[1] /\ 1 \in 1 .. Len(queue)
      /\ \A i \in 1 .. Len(queue) - 1 : queue'[i] = queue[i + 1]
  BY <1>1, Dequeuing
<1>3. \A i \in 1 .. Len(queue') : i + 1 \in 1 .. Len(queue) /\ queue'[i] = queue[i + 1]
  BY <1>2
<1>4. call[queue[1].from] = queue[1] /\ reply[queue[1].from] = NoReply
  BY <1>2 DEF HelloInv, QueuedAreCalls
<1>5. ASSUME NEW i \in 1 .. Len(queue')
      PROVE  /\ call[queue'[i].from] = queue'[i] /\ reply[queue'[i].from] = NoReply
             /\ queue'[i].from # queue[1].from /\ queue'[i].from \in Clients
             /\ \A j \in 1 .. Len(queue') : queue'[j].from = queue'[i].from => i = j
  <2>1. call[queue'[i].from] = queue'[i] /\ reply[queue'[i].from] = NoReply
    BY <1>3 DEF HelloInv, QueuedAreCalls
  <2>2. ASSUME NEW j \in 1 .. Len(queue'), queue'[j].from = queue'[i].from PROVE i = j
    <3>1. i + 1 = j + 1
      BY <1>3, <2>2 DEF HelloInv, QueuedAreCalls
    <3> QED BY <3>1, <1>2
  <2>3. ASSUME queue'[i].from = queue[1].from PROVE FALSE
    <3>1. i + 1 = 1
      BY <1>2, <1>3, <2>3 DEF HelloInv, QueuedAreCalls
    <3> QED BY <3>1, <1>2
  <2>4. queue'[i].from \in Clients
    BY <1>1, <1>3, RequestOwner
  <2> QED BY <2>1, <2>2, <2>3, <2>4
<1>6. ASSUME NEW i \in 1 .. Len(queue), i # 1
      PROVE  \E j \in 1 .. Len(queue') : queue'[j].from = queue[i].from
  <2>1. i - 1 \in 1 .. Len(queue) - 1 /\ (i - 1) + 1 = i
    BY <1>2, <1>6
  <2>2. queue'[i - 1].from = queue[i].from
    BY <1>2, <2>1
  <2> QED BY <1>2, <2>1, <2>2
<1>7. Len(queue') <= QLimit
  BY <1>1, <1>2, HelloAssumption
<1> QED BY SMTT(30), <1>2, <1>4, <1>5, <1>6, <1>7

\* The server takes the oldest request.
LEMMA ServerReceiveKeeps ==
  ASSUME HelloInv, ServerReceive
  PROVE  HelloInv'
<1>1. /\ queue # <<>> /\ server = "receive" /\ server' = "handle"
      /\ req' = Head(queue) /\ queue' = Tail(queue)
      /\ UNCHANGED <<running, call, reply, script, calls>>
  BY DEF ServerReceive
<1>2. Shape'
  BY <1>1, HeadLeaves DEF HelloInv, Shape
<1>3. QueuedAreCalls' /\ HandledIsCall'
  BY <1>1, HeadLeaves DEF QueuedAreCalls, HandledIsCall
<1>4. RepliesAnswer'
  BY <1>1 DEF HelloInv, RepliesAnswer
<1>5. CallsAreSomewhere'
  <2> SUFFICES ASSUME NEW d \in Clients, call[d] # NoCall, ~Droppable(call[d])
               PROVE  \/ \E i \in 1 .. Len(queue') : queue'[i].from = d
                      \/ req'.from = d
                      \/ reply[d] # NoReply
    BY <1>1 DEF CallsAreSomewhere
  <2>1. (\E i \in 1 .. Len(queue) : queue[i].from = d) \/ reply[d] # NoReply
    BY <1>1 DEF HelloInv, CallsAreSomewhere
  <2>2. \A i \in 1 .. Len(queue) :
          \/ queue[i].from = Head(queue).from
          \/ \E j \in 1 .. Len(queue') : queue'[j].from = queue[i].from
    BY <1>1, HeadLeaves
  <2> QED BY <1>1, <2>1, <2>2
<1> QED BY <1>2, <1>3, <1>4, <1>5 DEF HelloInv

\* A right to reply that was destroyed leaves its port as it is or with a notice.
LEMMA DestroyedFacts ==
  ASSUME HelloInv, NEW c \in Clients, RightDestroyed(c), reply[c] = NoReply,
         call[c] # NoCall, Droppable(call[c]), call' = call
  PROVE  /\ DOMAIN reply' = Clients
         /\ \A d \in Clients : d # c => reply'[d] = reply[d]
         /\ RepliesAnswer'
<1>1. /\ DOMAIN reply' = Clients /\ reply'[c] \in {NoReply, Notice}
      /\ \A d \in Clients : d # c => reply'[d] = reply[d]
  BY DEF RightDestroyed, HelloInv, Shape
<1>2. RepliesAnswer'
  BY <1>1 DEF HelloInv, RepliesAnswer
<1> QED BY <1>1, <1>2

\* The oldest request is too large, and is lost.
LEMMA ServerReceiveFailsKeeps ==
  ASSUME HelloInv, ServerReceiveFails
  PROVE  HelloInv'
<1> DEFINE r == Head(queue)
           c == r.from
<1>1. /\ queue # <<>> /\ server = "receive" /\ server' = "test" /\ r.id = "large"
      /\ queue' = Tail(queue) /\ RightDestroyed(c)
      /\ UNCHANGED <<req, running, call, script, calls>>
  BY DEF ServerReceiveFails
<1>2. /\ r \in Requests /\ c \in Clients /\ r # NoCall /\ call[c] = r /\ reply[c] = NoReply
      /\ Droppable(r)
  BY <1>1, HeadLeaves, RequestOwner, RequestFacts DEF Droppable
<1>3. /\ DOMAIN reply' = Clients
      /\ \A d \in Clients : d # c => reply'[d] = reply[d]
      /\ RepliesAnswer'
  BY <1>1, <1>2, DestroyedFacts
<1>4. Shape'
  BY <1>1, <1>3, HeadLeaves DEF HelloInv, Shape
<1>5. QueuedAreCalls' /\ HandledIsCall'
  BY <1>1, <1>3, HeadLeaves DEF QueuedAreCalls, HandledIsCall
<1>6. CallsAreSomewhere'
  <2> SUFFICES ASSUME NEW d \in Clients, call[d] # NoCall, ~Droppable(call[d])
               PROVE  (\E i \in 1 .. Len(queue') : queue'[i].from = d) \/ reply'[d] # NoReply
    BY <1>1 DEF CallsAreSomewhere
  <2>1. d # c
    BY <1>2
  <2>2. (\E i \in 1 .. Len(queue) : queue[i].from = d) \/ reply[d] # NoReply
    BY <1>1 DEF HelloInv, CallsAreSomewhere
  <2>3. \A i \in 1 .. Len(queue) :
          \/ queue[i].from = c
          \/ \E j \in 1 .. Len(queue') : queue'[j].from = queue[i].from
    BY <1>1, HeadLeaves
  <2> QED BY <1>3, <2>1, <2>2, <2>3
<1> QED BY <1>3, <1>4, <1>5, <1>6 DEF HelloInv

\* The server answers a request that it knows.
LEMMA HandleKeeps ==
  ASSUME HelloInv, Handle
  PROVE  HelloInv'
<1> DEFINE c == req.from
<1>1. /\ server = "handle" /\ server' = "test" /\ req.id \in {"read", "readable"}
      /\ UNCHANGED <<queue, req, running, call, script, calls>>
      /\ reply' = [reply EXCEPT ![c] = Replies(req)]
  BY DEF Handle, Answer, Replies
<1>2. c \in Clients /\ req # NoCall
  BY RequestOwner, RequestFacts DEF HelloInv, Shape
<1>3. /\ call[c] = req /\ reply[c] = NoReply
      /\ \A i \in 1 .. Len(queue) : queue[i].from # c
  BY <1>1 DEF HelloInv, HandledIsCall
<1>4. /\ reply'[c] = Replies(req) /\ DOMAIN reply' = Clients
      /\ \A d \in Clients : d # c => reply'[d] = reply[d]
  BY <1>1, <1>2 DEF HelloInv, Shape
<1>5. \A i \in 1 .. Len(queue) : queue[i].from \in Clients
  <2>1. \A i \in 1 .. Len(queue) : queue[i] \in Requests
    BY DEF HelloInv, Shape
  <2> QED BY <2>1, RequestOwner
<1>6. Replies(req) # NoReply
  BY <1>1, ReplyFacts
<1> HIDE DEF c
<1>7. Shape'
  BY <1>1, <1>4 DEF HelloInv, Shape
<1>8. QueuedAreCalls' /\ HandledIsCall'
  BY <1>1, <1>3, <1>4, <1>5 DEF HelloInv, QueuedAreCalls, HandledIsCall
<1>9. RepliesAnswer'
  BY <1>1, <1>2, <1>3, <1>4 DEF HelloInv, RepliesAnswer
<1>10. CallsAreSomewhere'
  <2> SUFFICES ASSUME NEW d \in Clients, call[d] # NoCall, ~Droppable(call[d])
               PROVE  (\E i \in 1 .. Len(queue) : queue[i].from = d) \/ reply'[d] # NoReply
    BY <1>1 DEF CallsAreSomewhere
  <2>1. \/ \E i \in 1 .. Len(queue) : queue[i].from = d
        \/ d = c
        \/ reply[d] # NoReply
    BY DEF HelloInv, CallsAreSomewhere, c
  <2> QED BY <1>4, <1>6, <2>1
<1> QED BY <1>7, <1>8, <1>9, <1>10 DEF HelloInv

\* The reply cannot be sent.
LEMMA HandleFailsKeeps ==
  ASSUME HelloInv, HandleFails
  PROVE  HelloInv'
<1> DEFINE c == req.from
<1>1. /\ server = "handle" /\ server' = "test" /\ BeforeContent(req) /\ RightDestroyed(c)
      /\ UNCHANGED <<queue, req, running, call, script, calls>>
  BY DEF HandleFails
<1>2. /\ c \in Clients /\ req # NoCall /\ Droppable(req)
  BY <1>1, RequestOwner, RequestFacts DEF HelloInv, Shape, Droppable
<1>3. /\ call[c] = req /\ reply[c] = NoReply
      /\ \A i \in 1 .. Len(queue) : queue[i].from # c
  BY <1>1 DEF HelloInv, HandledIsCall
<1>4. /\ DOMAIN reply' = Clients
      /\ \A d \in Clients : d # c => reply'[d] = reply[d]
      /\ RepliesAnswer'
  BY <1>1, <1>2, <1>3, DestroyedFacts
<1>5. \A i \in 1 .. Len(queue) : queue[i].from \in Clients
  <2>1. \A i \in 1 .. Len(queue) : queue[i] \in Requests
    BY DEF HelloInv, Shape
  <2> QED BY <2>1, RequestOwner
<1>6. Shape'
  BY <1>1, <1>4 DEF HelloInv, Shape
<1>7. QueuedAreCalls' /\ HandledIsCall'
  BY <1>1, <1>3, <1>4, <1>5 DEF HelloInv, QueuedAreCalls, HandledIsCall
<1>8. CallsAreSomewhere'
  <2> SUFFICES ASSUME NEW d \in Clients, call[d] # NoCall, ~Droppable(call[d])
               PROVE  (\E i \in 1 .. Len(queue) : queue[i].from = d) \/ reply'[d] # NoReply
    BY <1>1 DEF CallsAreSomewhere
  <2>1. d # c
    BY <1>2, <1>3
  <2>2. \/ \E i \in 1 .. Len(queue) : queue[i].from = d
        \/ reply[d] # NoReply
    BY <2>1 DEF HelloInv, CallsAreSomewhere
  <2> QED BY <1>4, <2>1, <2>2
<1> QED BY <1>4, <1>6, <1>7, <1>8 DEF HelloInv

\* The server drops a request that it does not know.
LEMMA HandleUnknownKeeps ==
  ASSUME HelloInv, HandleUnknown
  PROVE  HelloInv'
<1>1. /\ server = "handle" /\ server' = "test" /\ req.id = "unknown"
      /\ UNCHANGED <<queue, req, running, call, reply, script, calls>>
  BY DEF HandleUnknown
<1>2. Shape' /\ QueuedAreCalls' /\ HandledIsCall' /\ RepliesAnswer'
  BY <1>1 DEF HelloInv, Shape, QueuedAreCalls, HandledIsCall, RepliesAnswer
<1>3. CallsAreSomewhere'
  BY <1>1 DEF HelloInv, CallsAreSomewhere, HandledIsCall, Droppable
<1> QED BY <1>2, <1>3 DEF HelloInv

\* Steps that neither send, receive nor handle.
LEMMA QuietStepKeeps ==
  ASSUME HelloInv, UNCHANGED <<queue, req, call, reply, calls>>,
         server' \in {"test", "receive", "ended"} \/ server' = server,
         server # "handle" \/ server' = server, running' \in BOOLEAN,
         script' \in {"readable", "read", "clear", "join", "exit"}
  PROVE  HelloInv'
<1>1. Shape'
  BY DEF HelloInv, Shape
<1>2. QueuedAreCalls' /\ RepliesAnswer'
  BY DEF HelloInv, QueuedAreCalls, RepliesAnswer
<1>3. HandledIsCall' /\ CallsAreSomewhere'
  BY DEF HelloInv, HandledIsCall, CallsAreSomewhere
<1> QED BY <1>1, <1>2, <1>3 DEF HelloInv

\* Every step keeps the invariant.
LEMMA HelloStep == HelloInv /\ [Next]_vars => HelloInv'
<1> SUFFICES ASSUME HelloInv, [Next]_vars PROVE HelloInv'
  OBVIOUS
<1>1. ASSUME NEW c \in Others, OtherSend(c) PROVE HelloInv'
  <2>1. PICK r \in RequestsOf(c) : Send(r)
    BY <1>1 DEF OtherSend
  <2>2. calls' \in [Others -> 0 .. MaxCalls]
    BY <1>1, HelloAssumption DEF OtherSend, HelloInv, Shape
  <2>3. UNCHANGED <<server, req, running, reply, script>>
    BY <1>1 DEF OtherSend
  <2>4. script' \in {"readable", "read", "clear", "join", "exit"} /\ c \in Clients
    BY <2>3 DEF HelloInv, Shape, Clients
  <2> QED BY <2>1, <2>2, <2>3, <2>4, SendKeeps
<1>2. ASSUME NEW c \in Others, OtherReceive(c) PROVE HelloInv'
  <2>1. Receive(c) /\ UNCHANGED <<queue, server, req, running, script, calls>>
    BY <1>2 DEF OtherReceive
  <2>2. script' \in {"readable", "read", "clear", "join", "exit"} /\ c \in Clients
    BY <2>1 DEF HelloInv, Shape, Clients
  <2> QED BY <2>1, <2>2, ReceiveKeeps
<1>3. CASE MainSend
  <2> DEFINE r == Request(Main, script, 0, IF script = "read" THEN MaxOffset ELSE 0)
  <2>1. Send(r) /\ UNCHANGED <<server, req, running, reply, script, calls>>
    BY <1>3 DEF MainSend
  <2>2. r \in RequestsOf(Main)
    <3>1. 0 \in Offsets /\ MaxOffset \in Amounts /\ 0 \in Amounts
      BY HelloAssumption DEF Offsets, Amounts
    <3> QED BY <1>3, <3>1 DEF MainSend, RequestsOf
  <2>3. /\ script' \in {"readable", "read", "clear", "join", "exit"}
        /\ calls' \in [Others -> 0 .. MaxCalls] /\ Main \in Clients
    BY <2>1 DEF HelloInv, Shape, Clients
  <2> HIDE DEF r
  <2> QED BY <2>1, <2>2, <2>3, SendKeeps
<1>4. CASE MainReceive
  <2>1. Receive(Main) /\ UNCHANGED <<queue, server, req, running, calls>>
    BY <1>4 DEF MainReceive
  <2>2. script' \in {"readable", "read", "clear", "join", "exit"} /\ Main \in Clients
    BY <1>4 DEF MainReceive, Clients
  <2> QED BY <2>1, <2>2, ReceiveKeeps
<1>5. CASE ClearRunning
  <2>1. /\ UNCHANGED <<queue, req, call, reply, calls>> /\ server' = server
        /\ running' \in BOOLEAN /\ script' = "join"
    BY <1>5 DEF ClearRunning
  <2> QED BY <2>1, QuietStepKeeps
<1>6. CASE Join
  <2>1. /\ UNCHANGED <<queue, req, call, reply, calls>> /\ server' = server
        /\ running' = running /\ script' = "exit"
    BY <1>6 DEF Join
  <2> QED BY <2>1, QuietStepKeeps DEF HelloInv, Shape
<1>7. CASE TestRunning
  <2>1. /\ UNCHANGED <<queue, req, call, reply, calls>>
        /\ server = "test" /\ server' \in {"test", "receive", "ended"}
        /\ running' = running /\ script' = script
    BY <1>7 DEF TestRunning
  <2> QED BY <2>1, QuietStepKeeps DEF HelloInv, Shape
<1>8. CASE ServerReceive
  BY <1>8, ServerReceiveKeeps
<1>9. CASE Handle
  BY <1>9, HandleKeeps
<1>10. CASE HandleUnknown
  BY <1>10, HandleUnknownKeeps
<1>11. CASE ServerReceiveFails \/ HandleFails
  BY <1>11, ServerReceiveFailsKeeps, HandleFailsKeeps
<1>12. CASE UNCHANGED vars
  BY <1>12, QuietStepKeeps DEF vars, HelloInv, Shape
<1> QED
  BY <1>1, <1>2, <1>3, <1>4, <1>5, <1>6, <1>7, <1>8, <1>9, <1>10, <1>11, <1>12
  DEF Next, Server, MainThread

\* The inductive invariant, of every behaviour.
LEMMA HelloAlways == Spec => []HelloInv
BY HelloInit, HelloStep, PTL DEF Spec

-----------------------------------------------------------------------------
(* The properties.                                                         *)

(***************************************************************************)
(* Every variable of the translator keeps its type: the queue holds        *)
(* requests of clients and never more of them than the port's limit.       *)
(***************************************************************************)
THEOREM TypeCorrect == Spec => []TypeOK
<1>1. HelloInv => TypeOK
  <2> SUFFICES ASSUME HelloInv, NEW c \in Clients PROVE call[c] \in Requests \cup {NoCall}
    BY DEF HelloInv, Shape, TypeOK
  <2> QED BY DEF HelloInv, Shape, Requests
<1> QED BY <1>1, HelloAlways, PTL

(***************************************************************************)
(* server_thread with any number of clients: every call is in exactly one  *)
(* place, but for those that it may drop (OneRequestPerCall).              *)
(***************************************************************************)
THEOREM CallsAreInOnePlace == Spec => []OneRequestPerCall
<1>1. ASSUME HelloInv, NEW c \in Clients, call[c] # NoCall
      PROVE  LET queued == {i \in 1 .. Len(queue) : queue[i].from = c}
                 handled == server = "handle" /\ req.from = c IN
               /\ \A i, j \in queued : i = j
               /\ (queued = {}) \/ (~handled /\ reply[c] = NoReply)
               /\ ~Droppable(call[c]) =>
                    (queued # {}) \/ handled \/ (reply[c] # NoReply)
  <2> DEFINE queued == {i \in 1 .. Len(queue) : queue[i].from = c}
             handled == server = "handle" /\ req.from = c
  <2>1. \A i, j \in queued : i = j
    BY <1>1 DEF HelloInv, QueuedAreCalls
  <2>2. ASSUME NEW i \in queued PROVE ~handled /\ reply[c] = NoReply
    BY <1>1 DEF HelloInv, QueuedAreCalls, HandledIsCall
  <2>3. ~Droppable(call[c]) => (queued # {}) \/ handled \/ (reply[c] # NoReply)
    BY <1>1 DEF HelloInv, CallsAreSomewhere
  <2> QED BY <2>1, <2>2, <2>3
<1>2. HelloInv => OneRequestPerCall
  BY <1>1 DEF OneRequestPerCall
<1> QED BY <1>2, HelloAlways, PTL

\* What a read returns, as a set of places in the content: those of the
\* places it asks for that the content has.
LEMMA ReadReturnsContent ==
  ASSUME NEW r, r.offset \in Nat, r.amount \in Nat
  PROVE  {ReadReply(r).start + n : n \in 0 .. ReadReply(r).len - 1} =
           {r.offset + n : n \in 0 .. r.amount - 1} \cap (0 .. Len0 - 1)
<1> DEFINE o == r.offset
           a == r.amount
           l == ReadReply(r).len
<1>1. o \in Nat /\ a \in Nat /\ Len0 \in Nat
  BY HelloAssumption
<1>2. /\ ReadReply(r).start = o
      /\ l = IF o < Len0 THEN (IF a < Len0 - o THEN a ELSE Len0 - o)
                         ELSE (IF a < 0 THEN a ELSE 0)
  BY DEF ReadReply
<1> HIDE DEF o, a, l
<1>3. l \in Nat /\ l <= a /\ (l > 0 => o + l <= Len0) /\ (l < a => o + l >= Len0)
  BY <1>1, <1>2
<1>4. {o + n : n \in 0 .. l - 1} = {o + n : n \in 0 .. a - 1} \cap (0 .. Len0 - 1)
  <2>1. ASSUME NEW n \in 0 .. l - 1 PROVE n \in 0 .. a - 1 /\ o + n \in 0 .. Len0 - 1
    BY <1>1, <1>3
  <2>2. ASSUME NEW n \in 0 .. a - 1, o + n \in 0 .. Len0 - 1 PROVE n \in 0 .. l - 1
    BY <1>1, <1>3, <2>2
  <2> QED BY <2>1, <2>2
<1> QED BY <1>2, <1>4 DEF o, a, l

(***************************************************************************)
(* A reply reaches the client whose call it answers, while it waits, with  *)
(* the bytes it asked for (RepliesMatchCalls), for every offset that is    *)
(* not negative, every amount and every length of the content; a notice    *)
(* reaches only a client whose call was dropped.                           *)
(***************************************************************************)
THEOREM RepliesAlwaysMatch == Spec => []RepliesMatchCalls
<1>1. ASSUME HelloInv, NEW c \in Clients, reply[c] # NoReply,
             ~(reply[c] = Notice /\ call[c] # NoCall /\ Droppable(call[c]))
      PROVE  /\ call[c].id = reply[c].id
             /\ reply[c].id = "read" /\ call[c].offset >= 0 =>
                  LET returned == {reply[c].start + n : n \in 0 .. reply[c].len - 1}
                      wanted   == {call[c].offset + n : n \in 0 .. call[c].amount - 1} IN
                  returned = wanted \cap (0 .. Len0 - 1)
  <2>1. /\ call[c] # NoCall
        /\ call[c].id \in {"read", "readable"} /\ reply[c] = Replies(call[c])
    BY <1>1 DEF HelloInv, RepliesAnswer
  <2>2. call[c] \in RequestsOf(c)
    BY <1>1, <2>1 DEF HelloInv, Shape
  <2>3. call[c].offset \in Int /\ call[c].amount \in Nat
    BY <2>2, RequestFacts
  <2>4. call[c].id = reply[c].id
    BY <2>1, <2>3 DEF Replies, ReadReply, ReadableReply
  <2>5. ASSUME reply[c].id = "read", call[c].offset >= 0
        PROVE  {reply[c].start + n : n \in 0 .. reply[c].len - 1} =
                 {call[c].offset + n : n \in 0 .. call[c].amount - 1} \cap (0 .. Len0 - 1)
    <3>1. reply[c] = ReadReply(call[c])
      BY <2>1, <2>4, <2>5 DEF Replies
    <3>2. call[c].offset \in Nat
      BY <2>3, <2>5
    <3> QED BY <2>3, <3>1, <3>2, ReadReturnsContent
  <2> QED BY <2>4, <2>5
<1>2. HelloInv => RepliesMatchCalls
  BY <1>1 DEF RepliesMatchCalls
<1> QED BY <1>2, HelloAlways, PTL
=============================================================================
