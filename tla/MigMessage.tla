----------------------------- MODULE MigMessage -----------------------------
(***************************************************************************)
(* The messages of the Hurd RPCs as the generated stubs build and check    *)
(* them: typed descriptors first, inline fields after them.  A value is a  *)
(* token that says which call put it there and as which argument.          *)
(***************************************************************************)
EXTENDS Integers, Sequences, SequencesExt

CONSTANT Word   \* one more than the largest 32-bit count

ASSUME WordHoldsCounts == Word \in Nat /\ Word > 0

MACH_MSG_TYPE_MOVE_RECEIVE == 16
MACH_MSG_TYPE_PORT_SEND    == 17
MACH_MSG_TYPE_COPY_SEND    == 19
MACH_MSG_TYPE_MAKE_SEND    == 20
MACH_NOTIFY_SEND_ONCE      == 71
Polymorphic                == 0    \* the handler picks the disposition

(* Descriptors: a right, memory of `elt`-byte elements, an array of rights. *)
(* Every one is sent with deallocate FALSE.                                  *)
Right(n, d)  == [kind |-> "port", name |-> n, disp |-> d, elt |-> 1]
Data(n, b)   == [kind |-> "ool", name |-> n, disp |-> 0, elt |-> b]
Rights(n, d) == [kind |-> "ool_ports", name |-> n, disp |-> d, elt |-> 1]

(* Inline fields, with their bytes; Count(n) is nCnt, of the array n. *)
Block(n, b) == [name |-> n, bytes |-> b, count |-> FALSE]
Int32(n)    == Block(n, 4)
Int64(n)    == Block(n, 8)
Count(n)    == [name |-> n, bytes |-> 4, count |-> TRUE]
RetCode     == <<Int32("RetCode")>>

Shape(desc, inline)      == [desc |-> desc, inline |-> inline]
Layout(id, desc, inline) == [id |-> id, desc |-> desc, inline |-> inline]
NoReply == Layout(0, <<>>, <<>>)     \* of a simple routine

(* sizeof: header, body and descriptors, NDR record and fields. *)
DescriptorBytes(d) == IF d.kind = "port" THEN 12 ELSE 16

SizeOf(l) ==
  24 + (IF l.desc = <<>> THEN 0
        ELSE FoldLeft(LAMBDA s, d : s + DescriptorBytes(d), 4, l.desc))
     + (IF l.inline = <<>> THEN 0
        ELSE FoldLeft(LAMBDA s, f : s + f.bytes, 8, l.inline))

ErrorSize == SizeOf(Shape(<<>>, RetCode))      \* sizeof(mig_reply_error_t)

(* A client stub: its arguments and results in the order of its prototype.  *)
Stub(n, ins, request, reply, outs) ==
  [name |-> n, ins |-> ins, request |-> request, reply |-> reply, outs |-> outs]

(* A server stub: the shape it checks, the arguments it passes on and the   *)
(* results it asks for, what it frees after the handler, and its reply.     *)
Routine(n, request, args, frees, reply, outs) ==
  [name |-> n, request |-> request, args |-> args, frees |-> frees,
   reply |-> reply, outs |-> outs]

(* What the kernel makes of a disposition on the way. *)
Carried(d) == IF d \in {MACH_MSG_TYPE_COPY_SEND, MACH_MSG_TYPE_MAKE_SEND}
              THEN MACH_MSG_TYPE_PORT_SEND ELSE d

(* A caller whose code is not here, for the stub x of a server. *)
CallerOf(id, x) ==
  LET Sent(d) == [d EXCEPT !.disp = IF @ = MACH_MSG_TYPE_PORT_SEND
                                    THEN MACH_MSG_TYPE_COPY_SEND ELSE @]
      Got(d)  == [d EXCEPT !.disp = Carried(@)]
  IN  Stub(x.name, x.args,
           Layout(id, [i \in DOMAIN x.request.desc |-> Sent(x.request.desc[i])], x.request.inline),
           Layout(id + 100, [i \in DOMAIN x.reply.desc |-> Got(x.reply.desc[i])], x.reply.inline),
           x.outs)

Position(items, n) == CHOOSE i \in DOMAIN items : items[i].name = n
Named(items)       == {items[i].name : i \in DOMAIN items}
Arrays(l)          == {l.desc[i].name : i \in {j \in DOMAIN l.desc : l.desc[j].kind # "port"}}

(* The body of a message: `value` gives every name its token, `count` every *)
(* array its number of elements; sizes in bytes are 32-bit.                  *)
Fill(l, value, count) ==
  [size   |-> SizeOf(l),
   desc   |-> [i \in DOMAIN l.desc |->
                [kind |-> l.desc[i].kind, disp |-> l.desc[i].disp,
                 value |-> value[l.desc[i].name],
                 len |-> IF l.desc[i].kind = "port" THEN 0
                         ELSE (count[l.desc[i].name] * l.desc[i].elt) % Word]],
   inline |-> [i \in DOMAIN l.inline |->
                [value |-> value[l.inline[i].name],
                 len |-> IF l.inline[i].count THEN count[l.inline[i].name] ELSE 0]]]

Deliver(m) == [m EXCEPT !.desc = [i \in DOMAIN m.desc |->
                 [m.desc[i] EXCEPT !.disp = Carried(@)]]]

Elements(l, m, i) == m.desc[i].len \div l.desc[i].elt

(* Types and dispositions, and sizes against the counts beside them. *)
TypesAgree(l, m) ==
  \A i \in DOMAIN l.desc :
    /\ m.desc[i].kind = l.desc[i].kind
    /\ l.desc[i].disp \in {m.desc[i].disp, Polymorphic}

CountsAgree(l, m) ==
  \A i \in DOMAIN l.desc, j \in DOMAIN l.inline :
    l.inline[j].count /\ l.inline[j].name = l.desc[i].name
      => Elements(l, m, i) = m.inline[j].len

\* Mutant: the counts beside the arrays are not compared.
CheckRequest_NoCounts(l, m) ==
  IF m.size # SizeOf(l) \/ Len(m.desc) # Len(l.desc) THEN "MIG_BAD_ARGUMENTS"
  ELSE IF ~TypesAgree(l, m) THEN "MIG_TYPE_ERROR"
  ELSE "OK"

(* __MIG_check__Request__: an empty `desc` is a clear complex bit. *)
CheckRequest(l, m) ==
  IF m.size # SizeOf(l) \/ Len(m.desc) # Len(l.desc) THEN "MIG_BAD_ARGUMENTS"
  ELSE IF ~(TypesAgree(l, m) /\ CountsAgree(l, m)) THEN "MIG_TYPE_ERROR"
  ELSE "OK"

\* Mutant: an error reply is held against the layout of a whole one.
CheckReply_WholeOnly(l, m) ==
  IF m.id # l.id
  THEN IF m.id = MACH_NOTIFY_SEND_ONCE THEN "MIG_SERVER_DIED" ELSE "MIG_REPLY_MISMATCH"
  ELSE IF m.size # SizeOf(l) \/ Len(m.desc) # Len(l.desc) THEN "MIG_TYPE_ERROR"
  ELSE IF m.desc = <<>> /\ m.ret # "OK" THEN m.ret
  ELSE IF ~(TypesAgree(l, m) /\ CountsAgree(l, m)) THEN "MIG_TYPE_ERROR"
  ELSE "OK"

\* Mutant: a reply of the right size is one with results, whatever its code.
CheckReply_SizeOnly(l, m) ==
  LET whole == m.size = SizeOf(l) /\ Len(m.desc) = Len(l.desc)
      error == m.size = ErrorSize /\ m.desc = <<>> /\ m.ret # "OK"
  IN  IF m.id # l.id
      THEN IF m.id = MACH_NOTIFY_SEND_ONCE THEN "MIG_SERVER_DIED" ELSE "MIG_REPLY_MISMATCH"
      ELSE IF ~whole THEN (IF error THEN m.ret ELSE "MIG_TYPE_ERROR")
      ELSE IF ~(TypesAgree(l, m) /\ CountsAgree(l, m)) THEN "MIG_TYPE_ERROR"
      ELSE "OK"

(* __MIG_check__Reply__: an error reply is accepted for its code only.  A    *)
(* reply that carries a count carries a descriptor as well.                   *)
CheckReply(l, m) ==
  LET whole == m.size = SizeOf(l) /\ Len(m.desc) = Len(l.desc)
      error == m.size = ErrorSize /\ m.desc = <<>> /\ m.ret # "OK"
  IN  IF m.id # l.id
      THEN IF m.id = MACH_NOTIFY_SEND_ONCE THEN "MIG_SERVER_DIED" ELSE "MIG_REPLY_MISMATCH"
      ELSE IF ~whole /\ ~error THEN "MIG_TYPE_ERROR"
      ELSE IF m.desc = <<>> /\ m.ret # "OK" THEN m.ret
      ELSE IF ~(TypesAgree(l, m) /\ CountsAgree(l, m)) THEN "MIG_TYPE_ERROR"
      ELSE "OK"

IsList(q) == Len(q) \in Nat /\ DOMAIN q = 1 .. Len(q)

(* A layout whose values have `names`: each name once, every array with one *)
(* count beside it and in whole elements.                                    *)
WellFormed(l, names) ==
  /\ IsList(l.desc) /\ IsList(l.inline) /\ IsList(names) /\ SizeOf(l) \in Nat
  /\ \A i \in DOMAIN l.desc : /\ l.desc[i].kind \in {"port", "ool", "ool_ports"}
                            /\ l.desc[i].elt \in Nat \ {0}
  /\ \A i, j \in DOMAIN l.desc : l.desc[i].name = l.desc[j].name => i = j
  /\ \A i, j \in DOMAIN names : names[i] = names[j] => i = j
  /\ Arrays(l) = {l.inline[i].name : i \in {j \in DOMAIN l.inline : l.inline[j].count}}
  /\ Named(l.desc) \subseteq Range(names)
  /\ Range(names) \subseteq Named(l.desc) \union Named(l.inline)

(* A message laid out as l passes the check for r: the same fields, and each *)
(* disposition the one that the kernel makes of the sender's.                *)
Passes(l, r) ==
  /\ SizeOf(l) = SizeOf(r) /\ Len(l.desc) = Len(r.desc) /\ l.inline = r.inline
  /\ \A i \in DOMAIN r.desc :
       /\ r.desc[i].kind = l.desc[i].kind /\ r.desc[i].name = l.desc[i].name
       /\ r.desc[i].elt = l.desc[i].elt
       /\ r.desc[i].disp \in {Carried(l.desc[i].disp), Polymorphic}

(* It cannot pass, whatever it carries.                                      *)
Refuses(l, r) ==
  \/ SizeOf(l) # SizeOf(r) \/ Len(l.desc) # Len(r.desc)
  \/ \E i \in DOMAIN r.desc :
       \/ r.desc[i].kind # l.desc[i].kind
       \/ r.desc[i].disp \notin {Carried(l.desc[i].disp), Polymorphic}

(* What the code reads as `n` in a message it takes for an l. *)
Read(l, m, n) ==
  IF n \in Named(l.desc)
  THEN LET i == Position(l.desc, n)
       IN  [value |-> m.desc[i].value, len |-> Elements(l, m, i)]
  ELSE m.inline[Position(l.inline, n)]
=============================================================================
