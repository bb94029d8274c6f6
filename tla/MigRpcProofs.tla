---------------------------- MODULE MigRpcProofs ----------------------------
(***************************************************************************)
(* What the stubs promise their callers, for all interfaces whose layouts  *)
(* agree (MigRpc's assumptions, which TLC evaluates on the repository's),  *)
(* for every number of clients and calls and all lengths of arrays.        *)
(*                                                                         *)
(* First what Fill, Deliver, the checks and Read do to one message, then   *)
(* the inductive invariant IInv, then one lemma for each action.           *)
(***************************************************************************)
EXTENDS MigRpc, FiniteSetTheorems, TLAPS

-----------------------------------------------------------------------------
(* Lists.                                                                  *)

\* A list of whatever elements.
Listed(q) == \E S : q \in Seq(S)

\* The places of a list.
LEMMA ListPlaces ==
  ASSUME NEW q, Listed(q)
  PROVE  Len(q) \in Nat /\ DOMAIN q = 1 .. Len(q)
BY DEF Listed

\* A list of the right domain.
LEMMA ListOf ==
  ASSUME NEW n \in Nat, NEW f, DOMAIN f = 1 .. n, f = [i \in 1 .. n |-> f[i]]
  PROVE  Listed(f) /\ Len(f) = n
<1>1. PICK S : S = {f[i] : i \in 1 .. n}
  OBVIOUS
<1>2. f \in [1 .. n -> S]
  BY <1>1
<1>3. f \in Seq(S)
  BY <1>2
<1> QED BY <1>2, <1>3 DEF Listed

\* What Append leaves and adds.
LEMMA Appended ==
  ASSUME NEW q, Listed(q), NEW x
  PROVE  /\ Listed(Append(q, x)) /\ Len(Append(q, x)) = Len(q) + 1
         /\ Append(q, x)[Len(q) + 1] = x
         /\ \A i \in 1 .. Len(q) : Append(q, x)[i] = q[i]
<1>1. PICK S : q \in Seq(S)
  BY DEF Listed
<1>2. q \in Seq(S \union {x}) /\ x \in S \union {x}
  BY <1>1
<1> QED BY <1>2 DEF Listed

\* What an update of one place leaves.
LEMMA Updated ==
  ASSUME NEW q, Listed(q), NEW i \in 1 .. Len(q), NEW x
  PROVE  /\ Listed([q EXCEPT ![i] = x]) /\ Len([q EXCEPT ![i] = x]) = Len(q)
         /\ [q EXCEPT ![i] = x][i] = x
         /\ \A k \in 1 .. Len(q) : k # i => [q EXCEPT ![i] = x][k] = q[k]
<1>1. PICK S : q \in Seq(S)
  BY DEF Listed
<1>2. q \in Seq(S \union {x}) /\ x \in S \union {x}
  BY <1>1
<1> QED BY <1>2 DEF Listed

\* What Head takes and Tail leaves.
LEMMA Taken ==
  ASSUME NEW q, Listed(q), q # <<>>
  PROVE  /\ Len(q) \in Nat \ {0} /\ Head(q) = q[1]
         /\ Listed(Tail(q)) /\ Len(Tail(q)) = Len(q) - 1
         /\ \A i \in 1 .. Len(q) - 1 : Tail(q)[i] = q[i + 1]
BY DEF Listed

-----------------------------------------------------------------------------
(* Messages on their way.                                                  *)

\* What a message says that was filled from the layout l and delivered.
Carries(m, l, names, first, k, way) ==
  /\ m.size = SizeOf(l)
  /\ DOMAIN m.desc = DOMAIN l.desc /\ Len(m.desc) = Len(l.desc)
  /\ \A i \in DOMAIN l.desc :
       /\ m.desc[i].kind = l.desc[i].kind /\ m.desc[i].disp = Carried(l.desc[i].disp)
       /\ m.desc[i].value = Tokens(l, names, k, way)[l.desc[i].name]
       /\ m.desc[i].len = IF l.desc[i].kind = "port" THEN 0
                          ELSE (Sizes(l, names, first)[l.desc[i].name] * l.desc[i].elt) % Word
  /\ \A i \in DOMAIN l.inline :
       m.inline[i] = [value |-> Tokens(l, names, k, way)[l.inline[i].name],
                      len |-> IF l.inline[i].count THEN Sizes(l, names, first)[l.inline[i].name]
                              ELSE 0]

\* A descriptor list keeps its length when each of its members is changed.
LEMMA SameLength ==
  ASSUME NEW q, IsList(q), NEW f, DOMAIN f = DOMAIN q, f = [i \in DOMAIN q |-> f[i]]
  PROVE  Len(f) = Len(q)
BY ListOf DEF IsList

\* Delivery changes the dispositions and nothing else.
LEMMA FilledArrives ==
  ASSUME NEW l, NEW names, NEW first, NEW k, NEW way, WellFormed(l, names), NEW q,
         {"size", "desc", "inline"} \subseteq DOMAIN q,
         LET body == Fill(l, Tokens(l, names, k, way), Sizes(l, names, first))
         IN  q.size = body.size /\ q.desc = body.desc /\ q.inline = body.inline
  PROVE  /\ Carries(Deliver(q), l, names, first, k, way)
         /\ \A f \in DOMAIN q : f # "desc" => Deliver(q)[f] = q[f]
<1> DEFINE m == Deliver(q)
           d(i) == [kind |-> l.desc[i].kind, disp |-> l.desc[i].disp,
                    value |-> Tokens(l, names, k, way)[l.desc[i].name],
                    len |-> IF l.desc[i].kind = "port" THEN 0
                            ELSE (Sizes(l, names, first)[l.desc[i].name] * l.desc[i].elt) % Word]
           e(i) == [value |-> Tokens(l, names, k, way)[l.inline[i].name],
                    len |-> IF l.inline[i].count THEN Sizes(l, names, first)[l.inline[i].name]
                            ELSE 0]
<1>1. /\ q.size = SizeOf(l) /\ q.desc = [i \in DOMAIN l.desc |-> d(i)]
      /\ q.inline = [i \in DOMAIN l.inline |-> e(i)]
  BY DEF Fill
<1> HIDE DEF d, e
<1>2. m = [q EXCEPT !.desc = [i \in DOMAIN q.desc |-> [q.desc[i] EXCEPT !.disp = Carried(@)]]]
  BY DEF Deliver
<1> HIDE DEF m
<1>3. \A f \in DOMAIN q : f # "desc" => m[f] = q[f]
  BY <1>2
<1>4. /\ m.size = SizeOf(l)
      /\ m.inline = [i \in DOMAIN l.inline |-> e(i)]
      /\ m.desc = [i \in DOMAIN q.desc |-> [q.desc[i] EXCEPT !.disp = Carried(@)]]
  BY <1>1, <1>2
<1>5. DOMAIN m.desc = DOMAIN l.desc /\ Len(m.desc) = Len(l.desc)
  <2>1. DOMAIN m.desc = DOMAIN l.desc /\ m.desc = [i \in DOMAIN l.desc |-> m.desc[i]]
    BY <1>1, <1>4
  <2> QED BY <2>1, SameLength DEF WellFormed
<1>6. ASSUME NEW i \in DOMAIN l.desc
      PROVE  /\ m.desc[i].kind = l.desc[i].kind /\ m.desc[i].disp = Carried(l.desc[i].disp)
             /\ m.desc[i].value = Tokens(l, names, k, way)[l.desc[i].name]
             /\ m.desc[i].len = IF l.desc[i].kind = "port" THEN 0
                       ELSE (Sizes(l, names, first)[l.desc[i].name] * l.desc[i].elt) % Word
  <2>1. m.desc[i] = [d(i) EXCEPT !.disp = Carried(@)]
    BY <1>1, <1>4
  <2> QED BY <2>1 DEF d
<1>7. ASSUME NEW i \in DOMAIN l.inline PROVE m.inline[i] = e(i)
  BY <1>4
<1>8. Carries(m, l, names, first, k, way)
  BY <1>4, <1>5, <1>6, <1>7 DEF Carries, e
<1> QED BY <1>3, <1>8 DEF m

\* The request of call k, as it arrives.
LEMMA RequestArrives ==
  ASSUME NEW s, NEW first, NEW k, NEW p, WellFormed(s.request, s.ins)
  PROVE  LET m == Deliver(Request(s, first, k, p))
         IN  /\ m.id = s.request.id /\ m.call = k /\ m.reply = p
             /\ Carries(m, s.request, s.ins, first, k, "in")
<1> DEFINE l == s.request
           body == Fill(l, Tokens(l, s.ins, k, "in"), Sizes(l, s.ins, first))
           q == Request(s, first, k, p)
<1>1. q = [id |-> l.id, reply |-> p, call |-> k,
           size |-> body.size, desc |-> body.desc, inline |-> body.inline]
  BY DEF Request
<1> HIDE DEF q, body
<1>2. /\ DOMAIN q = {"id", "reply", "call", "size", "desc", "inline"}
      /\ q.id = l.id /\ q.reply = p /\ q.call = k
      /\ q.size = body.size /\ q.desc = body.desc /\ q.inline = body.inline
  BY <1>1
<1>3. /\ Carries(Deliver(q), l, s.ins, first, k, "in")
      /\ \A f \in DOMAIN q : f # "desc" => Deliver(q)[f] = q[f]
  BY <1>2, FilledArrives DEF body
<1> QED BY <1>2, <1>3 DEF q

\* What its fields are before.
LEMMA RequestFields ==
  ASSUME NEW s, NEW first, NEW k, NEW p
  PROVE  LET q == Request(s, first, k, p)
         IN  q.id = s.request.id /\ q.call = k /\ q.reply = p
BY DEF Request

\* The reply with the results of a handler, as it arrives.
LEMMA ResultArrives ==
  ASSUME NEW x, NEW q, NEW n, NEW way, WellFormed(x.reply, x.outs)
  PROVE  LET m == Deliver(Outcome(x, q, n, way))
         IN  /\ m.id = q.id + 100 /\ m.ret = "OK"
             /\ Carries(m, x.reply, x.outs, n, q.call, way)
<1> DEFINE l == x.reply
           body == Fill(l, Tokens(l, x.outs, q.call, way), Sizes(l, x.outs, n))
           o == Outcome(x, q, n, way)
<1>1. o = [id |-> q.id + 100, ret |-> "OK",
           size |-> body.size, desc |-> body.desc, inline |-> body.inline]
  BY DEF Outcome
<1> HIDE DEF o, body
<1>2. /\ DOMAIN o = {"id", "ret", "size", "desc", "inline"}
      /\ o.id = q.id + 100 /\ o.ret = "OK"
      /\ o.size = body.size /\ o.desc = body.desc /\ o.inline = body.inline
  BY <1>1
<1>3. /\ Carries(Deliver(o), l, x.outs, n, q.call, way)
      /\ \A f \in DOMAIN o : f # "desc" => Deliver(o)[f] = o[f]
  BY <1>2, FilledArrives DEF body
<1> QED BY <1>2, <1>3 DEF o

\* The tokens in it.
LEMMA ResultTokens ==
  ASSUME NEW x, NEW q, NEW n, NEW way, WellFormed(x.reply, x.outs)
  PROVE  LET o == Outcome(x, q, n, way)
         IN  /\ o.ret = "OK" /\ DOMAIN o.desc = DOMAIN x.reply.desc
             /\ \A i \in DOMAIN x.reply.desc : /\ o.desc[i].kind = x.reply.desc[i].kind
                                               /\ o.desc[i].value[2] = way
<1> DEFINE l == x.reply
           t == Tokens(l, x.outs, q.call, way)
           c == Sizes(l, x.outs, n)
           o == Outcome(x, q, n, way)
           d(i) == [kind |-> l.desc[i].kind, disp |-> l.desc[i].disp, value |-> t[l.desc[i].name],
                    len |-> IF l.desc[i].kind = "port" THEN 0
                            ELSE (c[l.desc[i].name] * l.desc[i].elt) % Word]
<1>1. o.ret = "OK" /\ o.desc = [i \in DOMAIN l.desc |-> d(i)]
  <2> DEFINE body == Fill(l, t, c)
  <2>1. o = [id |-> q.id + 100, ret |-> "OK",
             size |-> body.size, desc |-> body.desc, inline |-> body.inline]
    BY DEF Outcome
  <2> HIDE DEF body, o
  <2>2. o.ret = "OK" /\ o.desc = body.desc
    BY <2>1
  <2> HIDE DEF d
  <2>3. body.desc = [i \in DOMAIN l.desc |-> d(i)]
    BY DEF body, Fill, d
  <2> QED BY <2>2, <2>3
<1>2. ASSUME NEW i \in DOMAIN l.desc PROVE t[l.desc[i].name][2] = way
  <2>1. l.desc[i].name \in Named(l.desc) /\ l.desc[i].name \in Range(x.outs)
    BY DEF WellFormed, Named
  <2> QED BY <2>1 DEF Tokens
<1> HIDE DEF o, t, c, d
<1>3. ASSUME NEW i \in DOMAIN l.desc
      PROVE  o.desc[i].kind = l.desc[i].kind /\ o.desc[i].value = t[l.desc[i].name]
  <2>1. o.desc[i] = d(i)
    BY <1>1
  <2> QED BY <2>1 DEF d
<1>4. DOMAIN o.desc = DOMAIN l.desc
  BY <1>1
<1> QED BY <1>1, <1>2, <1>3, <1>4 DEF o

\* A reply with a number that names no right where the layout has one cannot be
\* sent, and only such a reply cannot be.
LEMMA SlotsAreNotSent ==
  ASSUME NEW x, NEW q, NEW n, NEW id, NEW way \in Ways(id), WellFormed(x.reply, x.outs)
  PROVE  /\ id \in ReturnsSlot /\ Sendable(Outcome(x, q, n, way))
              /\ (\E i \in DOMAIN x.reply.desc : x.reply.desc[i].kind = "port")
            => way = "named"
         /\ ~Sendable(Outcome(x, q, n, way)) => id \in ReturnsSlot
<1>1. PICK o : o = Outcome(x, q, n, way)
  OBVIOUS
<1>2. DOMAIN o.desc = DOMAIN x.reply.desc
  BY <1>1, ResultTokens
<1>3. \A i \in DOMAIN x.reply.desc : o.desc[i].kind = x.reply.desc[i].kind /\ o.desc[i].value[2] = way
  BY <1>1, ResultTokens
<1>4. Sendable(o) /\ (\E i \in DOMAIN x.reply.desc : x.reply.desc[i].kind = "port") => way # "slot"
  BY <1>2, <1>3 DEF Sendable
<1>5. ~Sendable(o) => way = "slot"
  BY <1>2, <1>3 DEF Sendable
<1> QED BY <1>1, <1>4, <1>5 DEF Ways

\* An error reply, as it arrives.
LEMMA ErrorArrives ==
  ASSUME NEW q, NEW code
  PROVE  /\ LET m == Deliver(ErrorReply(q, code))
            IN  m.id = q.id + 100 /\ m.size = ErrorSize /\ m.desc = <<>> /\ m.ret = code
         /\ Sendable(ErrorReply(q, code))
<1> DEFINE o == ErrorReply(q, code)
<1>1. o = [id |-> q.id + 100, size |-> ErrorSize, desc |-> <<>>, inline |-> <<>>, ret |-> code]
  BY DEF ErrorReply
<1> HIDE DEF o
<1>2. o.desc = <<>> /\ DOMAIN o.desc = {}
  BY <1>1
<1>3. [i \in DOMAIN o.desc |-> [o.desc[i] EXCEPT !.disp = Carried(@)]] = <<>>
  BY <1>2
<1>4. Deliver(o) = [o EXCEPT !.desc = <<>>]
  BY <1>3, Zenon DEF Deliver
<1>5. Sendable(o)
  BY <1>2 DEF Sendable
<1> QED BY <1>1, <1>4, <1>5 DEF o

-----------------------------------------------------------------------------
(* What the checks make of a message.                                      *)

\* Every name has one index.
LEMMA IndexIs ==
  ASSUME NEW l, NEW names, WellFormed(l, names), NEW a \in DOMAIN names
  PROVE  IndexOf(names, names[a]) = a /\ a \in Nat \ {0}
<1>1. names[IndexOf(names, names[a])] = names[a] /\ IndexOf(names, names[a]) \in DOMAIN names
  BY DEF IndexOf
<1> QED BY <1>1 DEF WellFormed, IsList

\* The token of the a-th name.
LEMMA TokenIs ==
  ASSUME NEW l, NEW names, WellFormed(l, names), NEW a \in DOMAIN names, NEW k, NEW way
  PROVE  Tokens(l, names, k, way)[names[a]] = <<k, way, a>>
<1>1. names[a] \in Range(names)
  BY DEF Range
<1>2. names[a] \in Named(l.desc) \union Named(l.inline)
  BY <1>1 DEF WellFormed
<1> QED BY <1>1, <1>2, IndexIs DEF Tokens

\* The descriptors whose names are arrays' are those of arrays.
LEMMA ArrayKind ==
  ASSUME NEW l, NEW names, WellFormed(l, names), NEW i \in DOMAIN l.desc
  PROVE  l.desc[i].kind # "port" <=> l.desc[i].name \in Arrays(l)
BY DEF WellFormed, Arrays

\* An array has a length.
LEMMA SizeIs ==
  ASSUME NEW l, NEW names, WellFormed(l, names), NEW first \in Nat, NEW n \in Arrays(l)
  PROVE  /\ Sizes(l, names, first)[n] \in Nat
         /\ \A a \in DOMAIN names : names[a] = n => Sizes(l, names, first)[n] = Length(first, a)
<1>1. n \in Range(names)
  BY DEF WellFormed, Arrays, Named
<1>2. PICK a \in DOMAIN names : names[a] = n
  BY <1>1 DEF Range
<1>3. IndexOf(names, n) = a /\ a \in Nat \ {0}
  BY <1>2, IndexIs
<1>4. Sizes(l, names, first)[n] = Length(first, a)
  BY <1>3 DEF Sizes
<1>5. Length(first, a) \in Nat
  BY <1>3 DEF Length
<1>6. \A b \in DOMAIN names : names[b] = n => b = a
  BY <1>2 DEF WellFormed
<1> QED BY <1>4, <1>5, <1>6

\* A size that fits its field gives the number of elements back.
LEMMA WholeElements ==
  ASSUME NEW c \in Nat, NEW e \in Nat \ {0}, c * e < Word
  PROVE  ((c * e) % Word) \div e = c
<1>1. c * e \in Nat
  OBVIOUS
<1>2. (c * e) % Word = c * e
  BY <1>1, WordHoldsCounts
<1>3. (c * e) \div e = c
  BY <1>1
<1> QED BY <1>2, <1>3

\* What a count says.
LEMMA CountIs ==
  ASSUME NEW l, NEW names, NEW first, NEW k, NEW way, NEW m,
         Carries(m, l, names, first, k, way), NEW j \in DOMAIN l.inline, l.inline[j].count
  PROVE  m.inline[j].len = Sizes(l, names, first)[l.inline[j].name]
<1> DEFINE v == Tokens(l, names, k, way)[l.inline[j].name]
           c == Sizes(l, names, first)[l.inline[j].name]
<1>1. m.inline[j] = [value |-> v, len |-> IF l.inline[j].count THEN c ELSE 0]
  BY DEF Carries
<1>2. (IF l.inline[j].count THEN c ELSE 0) = c
  BY Zenon
<1> HIDE DEF v, c
<1>3. m.inline[j] = [value |-> v, len |-> c]
  BY <1>1, <1>2, Zenon
<1>4. m.inline[j].len = c
  BY <1>3
<1> QED BY <1>4 DEF c

\* A message of the same layout, all of whose sizes fit, passes.
LEMMA PassesChecks ==
  ASSUME NEW l, NEW r, NEW names, NEW first \in Nat, NEW k, NEW way, NEW m,
         WellFormed(l, names), WellFormed(r, names), Passes(l, r),
         Carries(m, l, names, first, k, way)
  PROVE  /\ m.size = SizeOf(r) /\ Len(m.desc) = Len(r.desc) /\ TypesAgree(r, m)
         /\ FitsIn(l, names, first) => CountsAgree(r, m)
<1>1. DOMAIN l.desc = DOMAIN r.desc
  BY DEF WellFormed, IsList, Passes
<1>2. m.size = SizeOf(r) /\ Len(m.desc) = Len(r.desc)
  BY DEF Passes, Carries
<1>3. TypesAgree(r, m)
  BY <1>1 DEF Passes, Carries, TypesAgree
<1>4. ASSUME FitsIn(l, names, first), NEW i \in DOMAIN r.desc, NEW j \in DOMAIN r.inline,
             r.inline[j].count, r.inline[j].name = r.desc[i].name
      PROVE  Elements(r, m, i) = m.inline[j].len
  <2>1. r.desc[i].name \in Arrays(r) /\ r.inline = l.inline /\ i \in DOMAIN l.desc
    BY <1>1, <1>4 DEF WellFormed, Passes
  <2>2. l.desc[i].name = r.desc[i].name /\ l.desc[i].kind = r.desc[i].kind
        /\ l.desc[i].elt = r.desc[i].elt /\ r.desc[i].kind # "port"
    BY <2>1, ArrayKind DEF Passes
  <2>3. l.desc[i].name \in Arrays(l)
    BY <2>1, <2>2, ArrayKind
  <2>4. PICK c : c = Sizes(l, names, first)[l.desc[i].name]
    OBVIOUS
  <2>5. c \in Nat /\ l.desc[i].elt \in Nat \ {0}
    BY <2>1, <2>3, <2>4, SizeIs DEF WellFormed
  <2>6. c * l.desc[i].elt < Word
    BY <1>4, <2>1, <2>2, <2>4 DEF FitsIn
  <2>7. m.desc[i].len = (c * l.desc[i].elt) % Word
    BY <2>1, <2>2, <2>4 DEF Carries
  <2>8. Elements(r, m, i) = c
    BY <2>2, <2>5, <2>6, <2>7, WholeElements DEF Elements
  <2>9. m.inline[j].len = c
    <3>1. j \in DOMAIN l.inline /\ l.inline[j].count /\ l.inline[j].name = l.desc[i].name
      BY <1>4, <2>1, <2>2
    <3> QED BY <3>1, <2>4, CountIs
  <2> QED BY <2>8, <2>9
<1> QED BY <1>2, <1>3, <1>4 DEF CountsAgree

\* A message of another layout does not.
LEMMA RefusesChecks ==
  ASSUME NEW l, NEW r, NEW names, NEW first, NEW k, NEW way, NEW m,
         WellFormed(l, names), Refuses(l, r), Carries(m, l, names, first, k, way)
  PROVE  CheckRequest(r, m) # "OK"
<1>1. m.size = SizeOf(r) /\ Len(m.desc) = Len(r.desc) => ~TypesAgree(r, m)
  BY DEF Refuses, Carries, TypesAgree
<1> QED BY <1>1 DEF CheckRequest

\* What is read from a message that passed: each value in its place, each array
\* with its length.
LEMMA ReadsMeant ==
  ASSUME NEW l, NEW r, NEW names, NEW first \in Nat, NEW k, NEW way, NEW m,
         WellFormed(l, names), WellFormed(r, names), Passes(l, r),
         Carries(m, l, names, first, k, way), CountsAgree(r, m), NEW a \in DOMAIN names
  PROVE  Read(r, m, names[a]) =
           [value |-> <<k, way, a>>,
            len |-> IF names[a] \in Arrays(l) THEN Length(first, a) ELSE 0]
<1> DEFINE n == names[a]
<1>1. DOMAIN l.desc = DOMAIN r.desc /\ r.inline = l.inline
  BY DEF WellFormed, IsList, Passes
<1>2. Tokens(l, names, k, way)[n] = <<k, way, a>>
  BY TokenIs
<1>3. n \in Named(r.desc) \/ n \in Named(r.inline)
  BY DEF WellFormed, Range
<1>4. Arrays(l) = Arrays(r)
  BY <1>1 DEF WellFormed
<1>5. CASE n \in Named(r.desc)
  <2>1. PICK i : i = Position(r.desc, n)
    OBVIOUS
  <2>2. i \in DOMAIN r.desc /\ r.desc[i].name = n
    BY <1>5, <2>1 DEF Position, Named
  <2>3. i \in DOMAIN l.desc /\ l.desc[i].name = n /\ l.desc[i].kind = r.desc[i].kind
    BY <1>1, <2>2 DEF Passes
  <2>4. Read(r, m, n) = [value |-> m.desc[i].value, len |-> Elements(r, m, i)]
    BY <1>5, <2>1 DEF Read
  <2>5. m.desc[i].value = <<k, way, a>>
    BY <1>2, <2>3 DEF Carries
  <2>6. CASE n \in Arrays(l)
    <3>1. PICK j \in DOMAIN r.inline : r.inline[j].count /\ r.inline[j].name = n
      BY <1>1, <2>6 DEF WellFormed
    <3>2. Elements(r, m, i) = m.inline[j].len
      BY <2>2, <3>1 DEF CountsAgree
    <3>3. m.inline[j].len = Sizes(l, names, first)[n]
      BY <1>1, <3>1, CountIs
    <3>4. Sizes(l, names, first)[n] = Length(first, a)
      BY <2>6, SizeIs
    <3> QED BY <2>4, <2>5, <2>6, <3>2, <3>3, <3>4
  <2>7. CASE n \notin Arrays(l)
    <3>1. l.desc[i].kind = "port"
      BY <2>3, <2>7, ArrayKind
    <3>2. m.desc[i].len = 0
      BY <2>3, <3>1 DEF Carries
    <3>3. r.desc[i].elt \in Nat \ {0}
      BY <2>2 DEF WellFormed
    <3>4. Elements(r, m, i) = 0
      BY <3>2, <3>3 DEF Elements
    <3> QED BY <2>4, <2>5, <2>7, <3>4
  <2> QED BY <2>6, <2>7
<1>6. CASE n \notin Named(r.desc)
  <2>1. PICK j : j = Position(r.inline, n)
    OBVIOUS
  <2>2. j \in DOMAIN l.inline /\ l.inline[j].name = n
    BY <1>1, <1>3, <1>6, <2>1 DEF Position, Named
  <2>3. Read(r, m, n) = m.inline[j]
    BY <1>6, <2>1 DEF Read
  <2>4. n \notin Arrays(l)
    BY <1>4, <1>6 DEF Arrays, Named
  <2>5. ~l.inline[j].count
    BY <2>2, <2>4 DEF WellFormed
  <2>6. m.inline[j] = [value |-> <<k, way, a>>, len |-> 0]
    BY <1>2, <2>2, <2>5 DEF Carries
  <2> QED BY <2>3, <2>4, <2>6
<1> QED BY <1>5, <1>6

-----------------------------------------------------------------------------
(* What a message brings with it.                                          *)

\* It all belongs to the call of the message.
LEMMA ContentsOfCall ==
  ASSUME NEW l, NEW names, NEW first, NEW k, NEW way, NEW m, WellFormed(l, names),
         Carries(m, l, names, first, k, way), NEW h \in Contents(m)
  PROVE  h[1] \in {"right", "memory", "rights"} /\ h[2][1] = k
<1>1. PICK i \in DOMAIN l.desc : h \in Items(m.desc[i])
  BY DEF Contents, Carries
<1>2. PICK a \in DOMAIN names : names[a] = l.desc[i].name
  <2>1. l.desc[i].name \in Named(l.desc) /\ Named(l.desc) \subseteq Range(names)
    BY DEF WellFormed, Named
  <2> QED BY <2>1 DEF Range
<1>3. m.desc[i].value = <<k, way, a>>
  BY <1>2, TokenIs DEF Carries
<1>4. m.desc[i].kind \in {"port", "ool", "ool_ports"}
  BY DEF Carries, WellFormed
<1>5. h[1] \in {"right", "memory", "rights"} /\ h[2] = m.desc[i].value
  BY <1>1, <1>4 DEF Items
<1> QED BY <1>3, <1>5

\* The stub forgets what it frees, which is something that it received, and of
\* what it received it leaves only rights.
LEMMA FreedIsReceived ==
  ASSUME NEW x, NEW m, WellFormed(x.request, x.args), Range(x.frees) = Arrays(x.request),
         TypesAgree(x.request, m), DOMAIN m.desc = DOMAIN x.request.desc
  PROVE  /\ Freed(x, m) \subseteq Forgotten(x, m) /\ Freed(x, m) \subseteq Contents(m)
         /\ \A h \in Contents(m) \ Forgotten(x, m) : h[1] = "right"
         /\ \A h \in Forgotten(x, m) \ Freed(x, m) : h[1] = "rights"
<1> DEFINE l == x.request
<1>1. \A i \in DOMAIN l.desc : m.desc[i].kind = l.desc[i].kind
  BY DEF TypesAgree
<1>2. ASSUME NEW n \in Range(x.frees)
      PROVE  \E i \in DOMAIN l.desc : l.desc[i].name = n /\ Received(x, m, n) = m.desc[i]
                                      /\ m.desc[i].kind \in {"ool", "ool_ports"}
  <2>1. PICK j \in DOMAIN l.desc : l.desc[j].kind # "port" /\ l.desc[j].name = n
    BY DEF Arrays
  <2>2. Position(l.desc, n) = j
    BY <2>1 DEF Position, WellFormed
  <2> QED BY <1>1, <2>1, <2>2 DEF Received, WellFormed
<1>3. ASSUME NEW n \in Range(x.frees)
      PROVE  /\ <<"memory", Received(x, m, n).value>> \in Items(Received(x, m, n))
             /\ <<"memory", Received(x, m, n).value>> \in Contents(m)
  BY <1>2 DEF Items, Contents
<1>4. ASSUME NEW h \in Contents(m), h[1] # "right" PROVE h \in Forgotten(x, m)
  <2>1. PICK i \in DOMAIN l.desc : h \in Items(m.desc[i])
    BY DEF Contents
  <2>2. m.desc[i].kind # "port"
    BY <1>4, <2>1 DEF Items
  <2>3. l.desc[i].name \in Range(x.frees)
    BY <1>1, <2>2 DEF Arrays
  <2>4. Position(l.desc, l.desc[i].name) = i
    BY DEF Position, WellFormed
  <2> QED BY <2>1, <2>3, <2>4 DEF Forgotten, Received
<1>5. ASSUME NEW h \in Forgotten(x, m), h \notin Freed(x, m) PROVE h[1] = "rights"
  <2>1. PICK n \in Range(x.frees) : h \in Items(Received(x, m, n))
    BY DEF Forgotten
  <2>2. h # <<"memory", Received(x, m, n).value>>
    BY <1>5 DEF Freed
  <2>3. Received(x, m, n).kind \in {"ool", "ool_ports"}
    BY <1>2
  <2> QED BY <2>1, <2>2, <2>3 DEF Items
<1> QED BY <1>3, <1>4, <1>5 DEF Freed, Forgotten

-----------------------------------------------------------------------------
(* Handlers and stubs.                                                     *)

\* A handler succeeds or fails, and returns so many elements.
LEMMA OutcomeTypes ==
  ASSUME NEW x, NEW o \in Outcomes(x)
  PROVE  o.ret \in {"OK", "FAILURE"} /\ o.count \in Nat
<1> DEFINE Good(r) == r.ret \in {"OK", "FAILURE"} /\ r.count \in Nat
<1>1. \A n \in Nat : Good(Returns(n))
  BY DEF Returns
<1>2. Good(Fails) /\ Good(Done) /\ Good(EOPNOTSUPP)
  BY DEF Fails, Done, EOPNOTSUPP
<1>3. Len(proc_table) \in Nat
  BY DEF proc_table
<1>4. CASE x.name \in DOMAIN ProcOutcomes
  <2> HIDE DEF Good
  <2>1. \A r \in ProcOutcomes[x.name] : Good(r)
    BY <1>1, <1>2, <1>3, <1>4
       DEF ProcOutcomes, proc_getprivports, proc_getallpids, proc_getpids, proc_wait,
           proc_pid2task, proc_task2pid
  <2> QED BY <1>4, <2>1 DEF Outcomes, Good
<1>5. CASE x.name \notin DOMAIN ProcOutcomes /\ x.name \in DOMAIN ExecOutcomes
  <2> HIDE DEF Good
  <2>1. \A r \in ExecOutcomes[x.name] : Good(r)
    BY <1>2, <1>5
       DEF ExecOutcomes, exec_exec, exec_setexecdata, exec_exec_file, exec_startup_get_info
  <2> QED BY <1>5, <2>1 DEF Outcomes, Good
<1>6. CASE x.name \notin DOMAIN ProcOutcomes /\ x.name \notin DOMAIN ExecOutcomes
  <2>1. \/ o = [ret |-> "FAILURE", count |-> 0]
        \/ \E n \in Lengths \union {0} : o = [ret |-> "OK", count |-> n]
    BY <1>6 DEF Outcomes
  <2> QED BY <2>1, RpcAssumption
<1> QED BY <1>4, <1>5, <1>6

\* The name of a stub is its interface and its name there.
LEMMA StubNames ==
  ASSUME NEW p \in StubIds
  PROVE  p[1] \in Interfaces /\ p = <<p[1], p[2]>>
BY DEF StubIds

\* The server's check lets the requests of its own stubs pass if their sizes
\* fit, and no other request.
LEMMA Verdicts ==
  ASSUME NEW p \in StubIds, NEW server \in Interfaces, NEW first \in Nat, NEW k, NEW pt
  PROVE  LET s == StubOf[p]
             q == Deliver(Request(s, first, k, pt))
             x == Demux[server].table[q.id]
         IN  /\ Verdict(server, q) = "OK" =>
                  /\ server = p[1] /\ q.id \in DOMAIN Demux[server].table
                  /\ TypesAgree(x.request, q) /\ CountsAgree(x.request, q)
             /\ server = p[1] /\ FitsIn(s.request, s.ins, first) => Verdict(server, q) = "OK"
<1> DEFINE s == StubOf[p]
           q == Deliver(Request(s, first, k, pt))
           x == Demux[server].table[q.id]
<1>1. WellFormed(s.request, s.ins)
  BY StubsAreSound
<1>2. q.id = s.request.id /\ Carries(q, s.request, s.ins, first, k, "in")
  BY <1>1, RequestArrives
<1> HIDE DEF s, q
<1>3. ASSUME Verdict(server, q) = "OK"
      PROVE  q.id \in DOMAIN Demux[server].table /\ CheckRequest(x.request, q) = "OK"
  BY <1>3 DEF Verdict
<1>4. ASSUME Verdict(server, q) = "OK" PROVE server = p[1]
  <2>1. server # p[1] => Refuses(s.request, x.request)
    BY <1>2, <1>3, <1>4, StubsAgree DEF s
  <2> QED BY <1>1, <1>2, <1>3, <1>4, <2>1, RefusesChecks
<1>5. ASSUME Verdict(server, q) = "OK"
      PROVE  TypesAgree(x.request, q) /\ CountsAgree(x.request, q)
  BY <1>3, <1>5 DEF CheckRequest
<1>6. ASSUME server = p[1], FitsIn(s.request, s.ins, first) PROVE Verdict(server, q) = "OK"
  <2>1. q.id \in DOMAIN Demux[server].table /\ Passes(s.request, x.request) /\ x.args = s.ins
    BY <1>2, <1>6, StubsAgree DEF s
  <2>2. WellFormed(x.request, s.ins)
    BY <2>1, RoutinesAreSound
  <2>3. /\ q.size = SizeOf(x.request) /\ Len(q.desc) = Len(x.request.desc)
        /\ TypesAgree(x.request, q) /\ CountsAgree(x.request, q)
    <3>1. PICK l, r, names : l = s.request /\ r = x.request /\ names = s.ins
      OBVIOUS
    <3>2. /\ WellFormed(l, names) /\ WellFormed(r, names) /\ Passes(l, r)
          /\ Carries(q, l, names, first, k, "in") /\ FitsIn(l, names, first)
      BY <1>1, <1>2, <1>6, <2>1, <2>2, <3>1
    <3>3. q.size = SizeOf(r) /\ Len(q.desc) = Len(r.desc) /\ TypesAgree(r, q) /\ CountsAgree(r, q)
      BY <3>2, PassesChecks
    <3> QED BY <3>1, <3>3
  <2> QED BY <2>1, <2>3 DEF Verdict, CheckRequest
<1> QED BY <1>3, <1>4, <1>5, <1>6 DEF s, q

\* What the stub x hands on of the message m.
Given(x, m) == [i \in DOMAIN x.args |-> Read(x.request, m, x.args[i])]

\* What the handler of a request that passed is given.
LEMMA HandlersAreGiven ==
  ASSUME NEW p \in StubIds, NEW server \in Interfaces, NEW first \in Nat, NEW k, NEW pt, NEW q, NEW x,
         q = Deliver(Request(StubOf[p], first, k, pt)), x = Demux[server].table[q.id],
         Verdict(server, q) = "OK"
  PROVE  /\ <<server, x.name>> = p
         /\ Given(x, q) = Meant(StubOf[p].request, StubOf[p].ins, first, k, "in")
<1>1. PICK s : s = StubOf[p]
  OBVIOUS
<1>3. WellFormed(s.request, s.ins) /\ q.id = s.request.id /\ Carries(q, s.request, s.ins, first, k, "in")
  BY <1>1, RequestArrives, StubsAreSound
<1>4. server = p[1] /\ q.id \in DOMAIN Demux[server].table /\ CountsAgree(x.request, q)
  BY Verdicts
<1>5. x.name = p[2] /\ x.args = s.ins /\ Passes(s.request, x.request)
  BY <1>1, <1>3, <1>4, StubsAgree
<1>6. WellFormed(x.request, s.ins)
  BY <1>4, <1>5, RoutinesAreSound
<1>7. PICK l, r, names : l = s.request /\ r = x.request /\ names = s.ins
  OBVIOUS
<1>8. ASSUME NEW i \in DOMAIN names
      PROVE  Read(r, q, names[i]) =
               [value |-> <<k, "in", i>>, len |-> IF names[i] \in Arrays(l) THEN Length(first, i) ELSE 0]
  <2>1. /\ WellFormed(l, names) /\ WellFormed(r, names) /\ Passes(l, r)
        /\ Carries(q, l, names, first, k, "in") /\ CountsAgree(r, q)
    BY <1>3, <1>4, <1>5, <1>6, <1>7
  <2> QED BY <2>1, ReadsMeant
<1>9. [i \in DOMAIN names |-> Read(r, q, names[i])] = Meant(l, names, first, k, "in")
  BY <1>8 DEF Meant
<1>10. <<server, x.name>> = p
  BY <1>4, <1>5, StubNames
<1> QED BY <1>1, <1>5, <1>7, <1>9, <1>10 DEF Given

\* Arrays that fit one of two layouts that agree fit the other.
LEMMA FitsAlike ==
  ASSUME NEW l, NEW r, NEW names, NEW first, WellFormed(l, names), WellFormed(r, names),
         Passes(l, r), FitsIn(r, names, first)
  PROVE  FitsIn(l, names, first)
<1>1. DOMAIN l.desc = DOMAIN r.desc /\ l.inline = r.inline
  BY DEF WellFormed, IsList, Passes
<1>2. Arrays(l) = Arrays(r)
  BY <1>1 DEF WellFormed
<1>3. Sizes(l, names, first) = Sizes(r, names, first)
  BY <1>2 DEF Sizes
<1> QED BY <1>1, <1>3 DEF FitsIn, Passes

\* Arrays without elements fit.
LEMMA NothingFits ==
  ASSUME NEW l, NEW names, WellFormed(l, names)
  PROVE  FitsIn(l, names, 0)
<1>1. ASSUME NEW i \in DOMAIN l.desc, l.desc[i].kind # "port"
      PROVE  Sizes(l, names, 0)[l.desc[i].name] * l.desc[i].elt < Word
  <2>1. l.desc[i].name \in Arrays(l)
    BY <1>1, ArrayKind
  <2>2. Sizes(l, names, 0)[l.desc[i].name] = 0
    BY <2>1 DEF Sizes, Length
  <2>3. l.desc[i].elt \in Nat
    BY DEF WellFormed
  <2>4. 0 * l.desc[i].elt = 0
    BY <2>3
  <2> QED BY <2>2, <2>4, WordHoldsCounts
<1> QED BY <1>1 DEF FitsIn

-----------------------------------------------------------------------------
(* What a client makes of a reply.                                         *)

\* The routine that serves the stub p.
RoutineOf(p) == Demux[p[1]].table[StubOf[p].request.id]

\* A reply with the results of call k, of n elements.
ResultFor(m, p, k, n) ==
  /\ m.id = StubOf[p].request.id + 100 /\ m.ret = "OK"
  /\ Carries(m, RoutineOf(p).reply, StubOf[p].outs, n, k, Returned(p))

\* An error reply: the handler failed, or the request was not understood.
ErrorFor(m, p, server, first) ==
  /\ m.id = StubOf[p].request.id + 100 /\ m.size = ErrorSize /\ m.desc = <<>>
  /\ m.ret \in {"FAILURE", "MIG_BAD_ID", "MIG_BAD_ARGUMENTS", "MIG_TYPE_ERROR"}
  /\ m.ret # "FAILURE" /\ server = p[1]
       => ~FitsIn(StubOf[p].request, StubOf[p].ins, first)

\* A notification that the send-once right was destroyed.
Notification(m) == m.id = MACH_NOTIFY_SEND_ONCE /\ m.size = SizeOf(Shape(<<>>, <<>>))

\* The stub takes the results for what they are; it refuses them only for a
\* size that does not fit.
LEMMA ResultsAreTaken ==
  ASSUME NEW p \in StubIds, StubOf[p].reply # NoReply, NEW m, NEW k, NEW n \in Nat,
         ResultFor(m, p, k, n)
  PROVE  LET s == StubOf[p]
         IN  /\ ~(m.size > SizeOf(s.reply))
             /\ CheckReply(s.reply, m) \in {"OK", "MIG_TYPE_ERROR"}
             /\ FitsIn(s.reply, s.outs, n) => CheckReply(s.reply, m) = "OK"
             /\ CheckReply(s.reply, m) = "OK" =>
                  [i \in DOMAIN s.outs |-> Read(s.reply, m, s.outs[i])]
                  = Meant(s.reply, s.outs, n, k, Returned(p))
             /\ \A h \in Contents(m) : h[2][1] = k
<1>1. PICK s, l, r, names : /\ s = StubOf[p] /\ l = RoutineOf(p).reply
                            /\ r = s.reply /\ names = s.outs
  OBVIOUS
<1>2. WellFormed(r, names) /\ r.id = s.request.id + 100
  BY <1>1, StubsAreSound
<1>3. WellFormed(l, names) /\ Passes(l, r)
  BY <1>1, StubNames, StubsAgree, RoutinesAreSound DEF RoutineOf
<1>4. m.id = r.id /\ m.ret = "OK" /\ Carries(m, l, names, n, k, Returned(p))
  BY <1>1, <1>2 DEF ResultFor
<1>5. /\ m.size = SizeOf(r) /\ Len(m.desc) = Len(r.desc) /\ TypesAgree(r, m)
      /\ FitsIn(l, names, n) => CountsAgree(r, m)
  BY <1>2, <1>3, <1>4, PassesChecks
<1>6. ~(m.size > SizeOf(r))
  BY <1>2, <1>5 DEF WellFormed
<1>7. CheckReply(r, m) = IF CountsAgree(r, m) THEN "OK" ELSE "MIG_TYPE_ERROR"
  BY <1>4, <1>5 DEF CheckReply
<1>8. FitsIn(r, names, n) => CheckReply(r, m) = "OK"
  BY <1>2, <1>3, <1>5, <1>7, FitsAlike
<1>9. Arrays(l) = Arrays(r)
  BY <1>2, <1>3 DEF WellFormed, Passes
<1>10. ASSUME CountsAgree(r, m)
       PROVE  [i \in DOMAIN names |-> Read(r, m, names[i])] = Meant(r, names, n, k, Returned(p))
  <2>1. ASSUME NEW i \in DOMAIN names
        PROVE  Read(r, m, names[i]) =
                 [value |-> <<k, Returned(p), i>>,
                  len |-> IF names[i] \in Arrays(r) THEN Length(n, i) ELSE 0]
    BY <1>2, <1>3, <1>4, <1>9, <1>10, ReadsMeant
  <2> QED BY <2>1 DEF Meant
<1>11. \A h \in Contents(m) : h[2][1] = k
  BY <1>3, <1>4, ContentsOfCall
<1> QED BY <1>1, <1>6, <1>7, <1>8, <1>10, <1>11

\* Of an error reply the stub takes the code.
LEMMA ErrorsAreTaken ==
  ASSUME NEW p \in StubIds, StubOf[p].reply # NoReply, NEW m, NEW server, NEW first,
         ErrorFor(m, p, server, first)
  PROVE  LET s == StubOf[p]
         IN  ~(m.size > SizeOf(s.reply)) /\ CheckReply(s.reply, m) = m.ret
<1>1. PICK r : r = StubOf[p].reply
  OBVIOUS
<1>2. WellFormed(r, StubOf[p].outs) /\ r.id = StubOf[p].request.id + 100 /\ ErrorSize \in 0 .. SizeOf(r)
  BY <1>1, StubsAreSound
<1>3. m.id = r.id /\ m.size = ErrorSize /\ m.desc = <<>> /\ m.ret # "OK"
  BY <1>2 DEF ErrorFor
<1>4. CheckReply(r, m) = m.ret
  BY <1>3 DEF CheckReply
<1>5. ~(m.size > SizeOf(r))
  BY <1>2, <1>3 DEF WellFormed
<1> QED BY <1>1, <1>4, <1>5

\* A notification is taken for the server's death.
LEMMA NotificationsAreTaken ==
  ASSUME NEW p \in StubIds, StubOf[p].reply # NoReply, NEW m, Notification(m)
  PROVE  LET s == StubOf[p]
         IN  ~(m.size > SizeOf(s.reply)) /\ CheckReply(s.reply, m) = "MIG_SERVER_DIED"
<1>1. PICK r : r = StubOf[p].reply
  OBVIOUS
<1>2. /\ WellFormed(r, StubOf[p].outs) /\ r.id # MACH_NOTIFY_SEND_ONCE
      /\ SizeOf(Shape(<<>>, <<>>)) \in 0 .. SizeOf(r)
  BY <1>1, StubsAreSound
<1>3. CheckReply(r, m) = "MIG_SERVER_DIED"
  BY <1>2 DEF CheckReply, Notification
<1>4. ~(m.size > SizeOf(r))
  BY <1>2 DEF WellFormed, Notification
<1> QED BY <1>1, <1>3, <1>4

\* What a reply that can be sent is when it arrives.
LEMMA ResultIsSent ==
  ASSUME NEW p \in StubIds, NEW server \in Interfaces, NEW first \in Nat, NEW k, NEW pt, NEW n,
         NEW way
  PROVE  LET q == Deliver(Request(StubOf[p], first, k, pt))
             o == Outcome(Demux[server].table[q.id], q, n, way)
         IN  way \in Ways(<<server, Demux[server].table[q.id].name>>) /\ Verdict(server, q) = "OK" =>
               /\ o.ret = "OK"
               /\ StubOf[p].reply # NoReply /\ Sendable(o) => ResultFor(Deliver(o), p, k, n)
               /\ ~Sendable(o) => p \in ReturnsSlot
<1> SUFFICES ASSUME LET q == Deliver(Request(StubOf[p], first, k, pt))
                    IN  /\ way \in Ways(<<server, Demux[server].table[q.id].name>>)
                        /\ Verdict(server, q) = "OK"
             PROVE  LET q == Deliver(Request(StubOf[p], first, k, pt))
                        o == Outcome(Demux[server].table[q.id], q, n, way)
                    IN  /\ o.ret = "OK"
                        /\ StubOf[p].reply # NoReply /\ Sendable(o) => ResultFor(Deliver(o), p, k, n)
                        /\ ~Sendable(o) => p \in ReturnsSlot
  OBVIOUS
<1>1. PICK s, q : s = StubOf[p] /\ q = Deliver(Request(s, first, k, pt))
  OBVIOUS
<1>2. PICK x : x = Demux[server].table[q.id]
  OBVIOUS
<1>3. PICK o : o = Outcome(x, q, n, way)
  OBVIOUS
<1>4. q.id = s.request.id /\ q.call = k
  BY <1>1, RequestArrives, StubsAreSound
<1>5. server = p[1] /\ q.id \in DOMAIN Demux[server].table
  BY <1>1, Verdicts
<1>6. x = RoutineOf(p) /\ x.outs = s.outs /\ WellFormed(x.reply, x.outs)
  BY <1>1, <1>2, <1>4, <1>5, StubsAgree, RoutinesAreSound DEF RoutineOf
<1>7. <<server, x.name>> = p
  <2>1. x.name = p[2]
    BY <1>1, <1>2, <1>4, <1>5, StubsAgree
  <2> QED BY <1>5, <2>1, StubNames
<1>7a. way \in Ways(p)
  BY <1>1, <1>2, <1>7
<1>8. o.ret = "OK" /\ ~Sendable(o) => p \in ReturnsSlot
  BY <1>3, <1>6, <1>7a, SlotsAreNotSent, ResultTokens
<1>9. ASSUME s.reply # NoReply, Sendable(o) PROVE ResultFor(Deliver(o), p, k, n)
  <2>1. Passes(x.reply, s.reply)
    BY <1>1, <1>4, <1>6, <1>9, StubsAgree DEF RoutineOf
  <2>2. p \in ReturnsSlot => \E i \in DOMAIN s.reply.desc : s.reply.desc[i].kind = "port"
    BY <1>1, StubsAreSound
  <2>3. DOMAIN s.reply.desc = DOMAIN x.reply.desc
    <3>1. WellFormed(s.reply, s.outs)
      BY <1>1, StubsAreSound
    <3> QED BY <1>6, <2>1, <3>1 DEF WellFormed, IsList, Passes
  <2>4. p \in ReturnsSlot => way = "named"
    BY <1>3, <1>6, <1>7a, <1>9, <2>1, <2>2, <2>3, SlotsAreNotSent DEF Passes
  <2>5. way = Returned(p)
    BY <1>7a, <2>4 DEF Ways, Returned
  <2> QED BY <1>1, <1>3, <1>4, <1>6, <2>5, ResultArrives DEF ResultFor
<1>10. o.ret = "OK"
  BY <1>3 DEF Outcome
<1> QED BY <1>1, <1>2, <1>3, <1>8, <1>9, <1>10

\* What the reply to a request that was refused, or whose handler failed, is.
LEMMA ErrorIsSent ==
  ASSUME NEW p \in StubIds, NEW server \in Interfaces, NEW first \in Nat, NEW k, NEW pt, NEW code,
         code # "OK",
         code \in {"FAILURE", Verdict(server, Deliver(Request(StubOf[p], first, k, pt)))}
  PROVE  LET o == ErrorReply(Deliver(Request(StubOf[p], first, k, pt)), code)
         IN  o.ret = code /\ Sendable(o) /\ ErrorFor(Deliver(o), p, server, first)
<1>1. PICK q : q = Deliver(Request(StubOf[p], first, k, pt))
  OBVIOUS
<1>2. q.id = StubOf[p].request.id
  BY <1>1, RequestArrives, StubsAreSound
<1>3. PICK m : m = Deliver(ErrorReply(q, code))
  OBVIOUS
<1>4. /\ m.id = StubOf[p].request.id + 100 /\ m.size = ErrorSize /\ m.desc = <<>> /\ m.ret = code
      /\ Sendable(ErrorReply(q, code))
  BY <1>2, <1>3, ErrorArrives
<1>5. code \in {"FAILURE", "MIG_BAD_ID", "MIG_BAD_ARGUMENTS", "MIG_TYPE_ERROR"}
  BY <1>1 DEF Verdict, CheckRequest
<1>6. code # "FAILURE" /\ server = p[1] => ~FitsIn(StubOf[p].request, StubOf[p].ins, first)
  BY <1>1, Verdicts
<1>7. ErrorReply(q, code).ret = code
  BY DEF ErrorReply
<1> QED BY <1>1, <1>3, <1>4, <1>5, <1>6, <1>7 DEF ErrorFor

-----------------------------------------------------------------------------
(* The inductive invariant.                                                *)

\* The calls: a thread waits in at most one.
CallsInv ==
  /\ menu \in Menus /\ Listed(call) /\ Len(call) <= menu.calls
  /\ \A k \in DOMAIN call :
       /\ DOMAIN call[k] = {"client", "stub", "state", "code", "outs"}
       /\ call[k].client \in Clients /\ call[k].stub \in menu.stubs
       /\ call[k].state \in {"sent", "done"}
       /\ call[k].state = "sent" => StubOf[call[k].stub].reply # NoReply
       /\ Len(call[k].outs) \in {0, Len(StubOf[call[k].stub].outs)}
  /\ \A j, k \in DOMAIN call :
       call[j].state = "sent" /\ call[k].state = "sent" /\ call[j].client = call[k].client => j = k

\* The reply ports: each is one thread's, and named by no later call than its own.
PortsInv ==
  /\ port \in [Clients -> 0 .. Len(call)]
  /\ \A k \in DOMAIN call : call[k].state = "sent" => port[call[k].client] # 0
  /\ \A c, d \in Clients : port[c] # 0 /\ port[c] = port[d] => c = d
  /\ DOMAIN inbox = {port[c] : c \in Clients} \ {0}

\* The requests that wait are those of different calls, none of which has run.
RequestsInv ==
  /\ Listed(queue)
  /\ \A i \in DOMAIN queue :
       /\ queue[i].call \in DOMAIN call /\ queue[i].reply \in 0 .. Len(call)
       /\ queue[i] = Request(StubOf[call[queue[i].call].stub], menu.first,
                             queue[i].call, queue[i].reply)
       /\ \A j \in DOMAIN ran : ran[j].call # queue[i].call
  /\ \A i, j \in DOMAIN queue : queue[i].call = queue[j].call => i = j

\* What the server answers to the request q: an error, or n elements.
Refusal(server, q, r) ==
  \E code \in {"FAILURE", Verdict(server, q)} : code # "OK" /\ r = ErrorReply(q, code)

Success(server, q, n, r) ==
  LET x == Demux[server].table[q.id]
  IN  Verdict(server, q) = "OK" /\ \E way \in Ways(<<server, x.name>>) : r = Outcome(x, q, n, way)

\* The request that the server works on, and what it made of it.
ServingInv ==
  serving # Nothing =>
    /\ serving.stage \in {"handler", "reply"}
    /\ serving.msg.call \in DOMAIN call /\ serving.msg.reply \in 0 .. Len(call)
    /\ serving.msg = Deliver(Request(StubOf[call[serving.msg.call].stub], menu.first,
                                     serving.msg.call, serving.msg.reply))
    /\ \A i \in DOMAIN queue : queue[i].call # serving.msg.call
    /\ serving.stage = "handler" =>
         /\ ran # <<>> /\ ran[Len(ran)].call = serving.msg.call /\ ran[Len(ran)].ret = ""
         /\ serving.left = Contents(serving.msg) /\ Verdict(menu.server, serving.msg) = "OK"
    /\ serving.stage = "reply" =>
         \/ Refusal(menu.server, serving.msg, serving.reply)
         \/ \E i \in DOMAIN ran :
              /\ ran[i].call = serving.msg.call /\ ran[i].ret = "OK"
              /\ Success(menu.server, serving.msg, ran[i].first, serving.reply)

\* The handlers that ran, each for another call and with that call's arguments.
RanInv ==
  /\ Listed(ran)
  /\ \A i \in DOMAIN ran :
       /\ DOMAIN ran[i] = {"call", "routine", "ret", "args", "first"}
       /\ ran[i].call \in DOMAIN call
       /\ ran[i].ret \in {"", "OK", "FAILURE"} /\ ran[i].first \in Nat
       /\ ran[i].ret = "" => ran[i].first = 0
  /\ \A i, j \in DOMAIN ran : ran[i].call = ran[j].call => i = j
  /\ ArgumentsArrive

\* The caller of k waits at the port p.
Live(k, p) == call[k].state = "sent" /\ port[call[k].client] = p

\* The request of k waits or is worked on, and is to be answered at p.
Flying(k, p) ==
  \/ \E i \in DOMAIN queue : queue[i].call = k /\ queue[i].reply = p
  \/ serving # Nothing /\ serving.msg.call = k /\ serving.msg.reply = p

\* Of a request in flight the reply port is gone, or empty and the caller's.
TrafficInv ==
  \A k \in DOMAIN call, p \in DOMAIN inbox : Flying(k, p) => Live(k, p) /\ inbox[p] = <<>>

\* The reply m answers the call k: with an error, its results, or a notification.
MessageFor(k, m) ==
  \/ ErrorFor(m, call[k].stub, menu.server, menu.first)
  \/ \E i \in DOMAIN ran : /\ ran[i].call = k /\ ran[i].ret = "OK"
                           /\ ResultFor(m, call[k].stub, k, ran[i].first)
  \/ Notification(m) /\ (alive => call[k].stub \in ReturnsSlot /\ RanOk(k))

\* A reply port holds nothing, or the one reply to the call that waits there.
InboxInv ==
  \A p \in DOMAIN inbox :
    \/ inbox[p] = <<>>
    \/ \E k \in DOMAIN call :
         Live(k, p) /\ inbox[p] = <<inbox[p][1]>> /\ MessageFor(k, inbox[p][1])

\* What the server holds, and what it will still let go of.
HeapInv ==
  /\ twice = {}
  /\ serving # Nothing => serving.left \subseteq heap
  /\ \A h \in heap : \/ h[1] \in {"rights", "buffer"}
                     \/ h[1] = "right" /\ RanOk(h[2][1])
                     \/ serving # Nothing /\ h \in serving.left
  /\ serving # Nothing /\ serving.stage = "reply" /\ serving.reply.ret = "OK" =>
       \A h \in serving.left : h[1] = "right" /\ RanOk(h[2][1])
  /\ \A h \in held : h[2][1] \in DOMAIN call /\ Over(h[2][1]) /\ call[h[2][1]].code = "OK"

IInv == /\ CallsInv /\ PortsInv /\ RequestsInv /\ ServingInv /\ RanInv
        /\ TrafficInv /\ InboxInv /\ HeapInv /\ ErrorsAreTrue /\ ResultsArrive

\* It holds at the start.
LEMMA StartsWell == Init => IInv
<1> SUFFICES ASSUME Init PROVE IInv
  OBVIOUS
<1> USE DEF Init
<1>1. Listed(<<>>) /\ Len(<<>>) = 0 /\ DOMAIN <<>> = {}
  <2>1. <<>> \in Seq({})
    OBVIOUS
  <2> QED BY <2>1 DEF Listed
<1>2. menu.calls \in Nat
  BY RpcAssumption
<1>3. CallsInv
  BY <1>1, <1>2 DEF CallsInv
<1>4. PortsInv
  BY <1>1 DEF PortsInv
<1>5. RequestsInv /\ RanInv
  BY <1>1 DEF RequestsInv, RanInv, ArgumentsArrive
<1>6. ServingInv /\ TrafficInv /\ InboxInv /\ HeapInv
  BY <1>1 DEF ServingInv, TrafficInv, InboxInv, HeapInv
<1>7. ErrorsAreTrue /\ ResultsArrive
  BY <1>1 DEF ErrorsAreTrue, ResultsArrive
<1> QED BY <1>3, <1>4, <1>5, <1>6, <1>7 DEF IInv

-----------------------------------------------------------------------------
(* What the steps leave alone.                                             *)

\* Calls keep their caller and their stub, and those that are over do not change.
KeepsCalls ==
  /\ menu' = menu /\ Len(call) <= Len(call') /\ DOMAIN call \subseteq DOMAIN call'
  /\ \A k \in DOMAIN call :
       /\ call'[k].client = call[k].client /\ call'[k].stub = call[k].stub
       /\ call[k].state = "done" => call'[k] = call[k]

\* Handlers that ran keep their call, and those that are back do not change.
KeepsRuns ==
  /\ DOMAIN ran \subseteq DOMAIN ran'
  /\ \A i \in DOMAIN ran : /\ ran'[i].call = ran[i].call
                           /\ ran[i].ret # "" => ran'[i] = ran[i]

\* What the menu offers are stubs.
LEMMA MenuOffers ==
  ASSUME CallsInv
  PROVE  /\ menu.server \in Interfaces /\ menu.first \in Nat /\ menu.calls \in 0 .. MaxCalls
         /\ menu.stubs \subseteq StubIds /\ Len(call) \in Nat /\ DOMAIN call = 1 .. Len(call)
         /\ \A k \in DOMAIN call : call[k].stub \in StubIds
BY RpcAssumption, ListPlaces DEF CallsInv

\* A call that is made.
LEMMA CallMade ==
  ASSUME CallsInv, NEW c \in Clients, NEW p \in menu.stubs, NEW st \in {"sent", "done"}, NEW code,
         MayCall(c), st = "sent" => StubOf[p].reply # NoReply,
         call' = Made(c, p, st, code), menu' = menu
  PROVE  /\ CallsInv' /\ KeepsCalls /\ Len(call') = Len(call) + 1
         /\ DOMAIN call' = DOMAIN call \union {Len(call) + 1} /\ Len(call) + 1 \notin DOMAIN call
         /\ \A k \in DOMAIN call : call'[k] = call[k]
         /\ LET new == call'[Len(call) + 1]
            IN  /\ new.client = c /\ new.stub = p /\ new.state = st /\ new.code = code
                /\ new.outs = <<>>
<1> DEFINE r == [client |-> c, stub |-> p, state |-> st, code |-> code, outs |-> <<>>]
           n == Len(call) + 1
<1>1. call' = Append(call, r)
  BY DEF Made
<1>2. /\ r.client = c /\ r.stub = p /\ r.state = st /\ r.code = code /\ r.outs = <<>>
      /\ DOMAIN r = {"client", "stub", "state", "code", "outs"}
  OBVIOUS
<1> HIDE DEF r
<1>3. /\ Listed(call) /\ Len(call) \in Nat /\ DOMAIN call = 1 .. Len(call) /\ menu.calls \in Nat
      /\ Len(call) < menu.calls /\ Idle(c)
  BY MenuOffers DEF CallsInv, MayCall
<1>4. /\ Listed(call') /\ Len(call') = n /\ call'[n] = r
      /\ \A k \in DOMAIN call : call'[k] = call[k]
  BY <1>1, <1>3, Appended
<1>5. DOMAIN call' = DOMAIN call \union {n} /\ n \notin DOMAIN call
  BY <1>3, <1>4, ListPlaces
<1>6. KeepsCalls
  BY <1>3, <1>4, <1>5 DEF KeepsCalls
<1>7. \A k \in DOMAIN call' :
        /\ DOMAIN call'[k] = {"client", "stub", "state", "code", "outs"}
        /\ call'[k].client \in Clients /\ call'[k].stub \in menu.stubs
        /\ call'[k].state \in {"sent", "done"}
        /\ call'[k].state = "sent" => StubOf[call'[k].stub].reply # NoReply
        /\ Len(call'[k].outs) \in {0, Len(StubOf[call'[k].stub].outs)}
  <2>1. Len(<<>>) = 0
    OBVIOUS
  <2>2. \A k \in DOMAIN call :
        /\ DOMAIN call[k] = {"client", "stub", "state", "code", "outs"}
        /\ call[k].client \in Clients /\ call[k].stub \in menu.stubs
        /\ call[k].state \in {"sent", "done"}
        /\ call[k].state = "sent" => StubOf[call[k].stub].reply # NoReply
        /\ Len(call[k].outs) \in {0, Len(StubOf[call[k].stub].outs)}
    BY DEF CallsInv
  <2> QED BY <1>2, <1>4, <1>5, <2>1, <2>2
<1>8. \A j, k \in DOMAIN call' :
        call'[j].state = "sent" /\ call'[k].state = "sent" /\ call'[j].client = call'[k].client
          => j = k
  <2>1. \A k \in DOMAIN call : call[k].client = c => call[k].state # "sent"
    BY <1>3 DEF Idle
  <2>2. \A j, k \in DOMAIN call :
        call[j].state = "sent" /\ call[k].state = "sent" /\ call[j].client = call[k].client => j = k
    BY DEF CallsInv
  <2> QED BY <1>2, <1>4, <1>5, <2>1, <2>2
<1>9. CallsInv'
  <2>1. menu \in Menus /\ Len(call') <= menu.calls
    BY <1>3, <1>4 DEF CallsInv
  <2> QED BY <1>4, <1>7, <1>8, <2>1 DEF CallsInv
<1> QED BY <1>2, <1>4, <1>5, <1>6, <1>9

\* The call that a thread waits in, and its end.
LEMMA CallEnds ==
  ASSUME CallsInv, NEW c \in Clients, ~Idle(c), NEW code, NEW outs,
         Len(outs) \in {0, Len(StubOf[call[Pending(c)].stub].outs)},
         call' = Finished(Pending(c), code, outs), menu' = menu
  PROVE  LET k == Pending(c)
         IN  /\ CallsInv' /\ KeepsCalls /\ Len(call') = Len(call) /\ DOMAIN call' = DOMAIN call
             /\ k \in DOMAIN call /\ call[k].client = c /\ call[k].state = "sent"
             /\ call'[k].state = "done" /\ call'[k].code = code /\ call'[k].outs = outs
             /\ \A j \in DOMAIN call : j # k => call'[j] = call[j]
<1>1. PICK k : k = Pending(c)
  OBVIOUS
<1>2. k \in DOMAIN call /\ call[k].client = c /\ call[k].state = "sent"
  BY <1>1 DEF Idle, Pending
<1>3. PICK old : old = call[k]
  OBVIOUS
<1>4. PICK r : r = [old EXCEPT !.state = "done", !.code = code, !.outs = outs]
  OBVIOUS
<1>5. DOMAIN old = {"client", "stub", "state", "code", "outs"}
  BY <1>2, <1>3 DEF CallsInv
<1>6. /\ DOMAIN r = DOMAIN old /\ r.client = old.client /\ r.stub = old.stub
      /\ r.state = "done" /\ r.code = code /\ r.outs = outs
  BY <1>4, <1>5
<1>7. Listed(call) /\ Len(call) \in Nat /\ DOMAIN call = 1 .. Len(call)
  BY MenuOffers DEF CallsInv
<1>8. call' = [call EXCEPT ![k] = r]
  BY <1>1, <1>2, <1>3, <1>4, <1>7 DEF Finished
<1>9. /\ Listed(call') /\ Len(call') = Len(call) /\ call'[k] = r
      /\ \A j \in DOMAIN call : j # k => call'[j] = call[j]
  <2>1. k \in 1 .. Len(call)
    BY <1>2, <1>7
  <2>2. /\ Listed([call EXCEPT ![k] = r]) /\ Len([call EXCEPT ![k] = r]) = Len(call)
        /\ [call EXCEPT ![k] = r][k] = r
        /\ \A j \in 1 .. Len(call) : j # k => [call EXCEPT ![k] = r][j] = call[j]
    BY <1>7, <2>1, Updated
  <2> QED BY <1>7, <1>8, <2>2
<1>10. DOMAIN call' = DOMAIN call
  BY <1>8
<1>11. KeepsCalls
  BY <1>2, <1>3, <1>6, <1>7, <1>9, <1>10 DEF KeepsCalls
<1>12. \A j \in DOMAIN call' :
        /\ DOMAIN call'[j] = {"client", "stub", "state", "code", "outs"}
        /\ call'[j].client \in Clients /\ call'[j].stub \in menu.stubs
        /\ call'[j].state \in {"sent", "done"}
        /\ call'[j].state = "sent" => StubOf[call'[j].stub].reply # NoReply
        /\ Len(call'[j].outs) \in {0, Len(StubOf[call'[j].stub].outs)}
  <2>1. \A j \in DOMAIN call :
        /\ DOMAIN call[j] = {"client", "stub", "state", "code", "outs"}
        /\ call[j].client \in Clients /\ call[j].stub \in menu.stubs
        /\ call[j].state \in {"sent", "done"}
        /\ call[j].state = "sent" => StubOf[call[j].stub].reply # NoReply
        /\ Len(call[j].outs) \in {0, Len(StubOf[call[j].stub].outs)}
    BY DEF CallsInv
  <2>2. Len(r.outs) \in {0, Len(StubOf[r.stub].outs)}
    BY <1>1, <1>3, <1>6
  <2> QED BY <1>2, <1>3, <1>6, <1>9, <1>10, <2>1, <2>2
<1>13. \A i, j \in DOMAIN call' :
        call'[i].state = "sent" /\ call'[j].state = "sent" /\ call'[i].client = call'[j].client
          => i = j
  <2>1. \A i, j \in DOMAIN call :
        call[i].state = "sent" /\ call[j].state = "sent" /\ call[i].client = call[j].client => i = j
    BY DEF CallsInv
  <2> QED BY <1>6, <1>9, <1>10, <2>1
<1>14. CallsInv'
  <2>1. menu \in Menus /\ Len(call') <= menu.calls
    BY <1>9 DEF CallsInv
  <2> QED BY <1>9, <1>12, <1>13, <2>1 DEF CallsInv
<1> QED BY <1>1, <1>2, <1>6, <1>9, <1>10, <1>11, <1>14

\* Requests that wait stay good.
LEMMA RequestsStay ==
  ASSUME CallsInv, RequestsInv, KeepsCalls, Len(call') \in Nat, queue' = queue, ran' = ran
  PROVE  RequestsInv'
<1>1. Len(call) \in Nat
  BY MenuOffers
<1> QED BY <1>1 DEF RequestsInv, KeepsCalls

\* So does the one that the server works on.
LEMMA ServingStays ==
  ASSUME CallsInv, ServingInv, KeepsCalls, Len(call') \in Nat, serving' = serving, ran' = ran,
         serving # Nothing => \A i \in DOMAIN queue' : queue'[i].call # serving.msg.call
  PROVE  ServingInv'
<1> SUFFICES ASSUME serving # Nothing PROVE ServingInv'
  BY DEF ServingInv, Nothing
<1>1. Len(call) \in Nat /\ Len(call) <= Len(call') /\ menu' = menu
  BY MenuOffers DEF KeepsCalls
<1>2. PICK k : k = serving.msg.call
  OBVIOUS
<1>3. k \in DOMAIN call /\ serving.msg.reply \in 0 .. Len(call)
  BY <1>2 DEF ServingInv
<1>4. k \in DOMAIN call' /\ call'[k].stub = call[k].stub /\ serving.msg.reply \in 0 .. Len(call')
  BY <1>1, <1>3 DEF KeepsCalls
<1> QED BY <1>1, <1>2, <1>3, <1>4 DEF ServingInv

\* So do the handlers that ran.
LEMMA RunsStay ==
  ASSUME RanInv, KeepsCalls, ran' = ran
  PROVE  RanInv' /\ KeepsRuns
<1>1. ArgumentsArrive'
  BY DEF RanInv, KeepsCalls, ArgumentsArrive
<1> QED BY <1>1 DEF RanInv, KeepsCalls, KeepsRuns

\* A handler that succeeded did.
LEMMA RunsAreKnown ==
  ASSUME KeepsRuns, NEW k, RanOk(k)
  PROVE  RanOk(k)'
BY DEF KeepsRuns, RanOk, Ran

\* What is held stays held for a reason.
LEMMA HeapStays ==
  ASSUME HeapInv, KeepsCalls, KeepsRuns, UNCHANGED <<heap, twice, serving, held>>
  PROVE  HeapInv'
<1>1. \A k : RanOk(k) => RanOk(k)'
  BY RunsAreKnown
<1>2. \A h \in held : h[2][1] \in DOMAIN call' /\ Over(h[2][1])' /\ call'[h[2][1]].code = "OK"
  BY DEF HeapInv, KeepsCalls, Over
<1> QED BY <1>1, <1>2 DEF HeapInv

\* A size that does not fit never will.
LEMMA SizesStay ==
  ASSUME CallsInv, RanInv, KeepsCalls, KeepsRuns, NEW k \in DOMAIN call, SizesFit(k)'
  PROVE  SizesFit(k)
<1>1. PICK s : s = StubOf[call[k].stub]
  OBVIOUS
<1>2. call'[k].stub = call[k].stub /\ menu' = menu
  BY DEF KeepsCalls
<1>3. /\ FitsIn(s.request, s.ins, menu.first)
      /\ \A i \in Ran(k)' : FitsIn(s.reply, s.outs, ran'[i].first)
  BY <1>1, <1>2 DEF SizesFit
<1>4. ASSUME NEW i \in Ran(k) PROVE FitsIn(s.reply, s.outs, ran[i].first)
  <2>1. i \in DOMAIN ran /\ ran[i].call = k
    BY DEF Ran
  <2>2. CASE ran[i].ret = ""
    <3>1. ran[i].first = 0
      BY <2>1, <2>2 DEF RanInv
    <3>2. WellFormed(s.reply, s.outs)
      BY <1>1, MenuOffers, StubsAreSound
    <3> QED BY <3>1, <3>2, NothingFits
  <2>3. CASE ran[i].ret # ""
    <3>1. i \in DOMAIN ran' /\ ran'[i] = ran[i]
      BY <2>1, <2>3 DEF KeepsRuns
    <3>2. i \in Ran(k)'
      BY <2>1, <3>1 DEF Ran
    <3> QED BY <1>3, <3>1, <3>2
  <2> QED BY <2>2, <2>3
<1> QED BY <1>1, <1>3, <1>4 DEF SizesFit

\* What ErrorsAreTrue and ResultsArrive say of one call.
TrueError(k) ==
  Over(k) =>
    /\ Own(k) /\ call[k].code \in {"MIG_BAD_ID", "MIG_BAD_ARGUMENTS", "MIG_TYPE_ERROR",
                                    "MIG_REPLY_MISMATCH", "MACH_RCV_TOO_LARGE"}
         => ~SizesFit(k)
    /\ call[k].code = "MIG_SERVER_DIED" /\ alive
         => call[k].stub \in ReturnsSlot /\ RanOk(k)

OwnResult(k) ==
  Over(k) /\ call[k].code = "OK" =>
    \E i \in DOMAIN ran :
      /\ ran[i].call = k /\ ran[i].ret = "OK"
      /\ call[k].outs = Meant(StubOf[call[k].stub].reply, StubOf[call[k].stub].outs,
                              ran[i].first, k, Returned(call[k].stub))

\* They say it of every call.
LEMMA OfEveryCall ==
  /\ ErrorsAreTrue <=> \A k \in DOMAIN call : TrueError(k)
  /\ ResultsArrive <=> \A k \in DOMAIN call : OwnResult(k)
<1>1. ErrorsAreTrue <=> \A k \in DOMAIN call : TrueError(k)
  BY DEF ErrorsAreTrue, TrueError
<1>2. ResultsArrive <=> \A k \in DOMAIN call : OwnResult(k)
  BY DEF ResultsArrive, OwnResult, Ran
<1> QED BY <1>1, <1>2

\* What was true of a call that is over stays true.
LEMMA TalesStay ==
  ASSUME CallsInv, RanInv, ErrorsAreTrue, ResultsArrive, KeepsCalls, KeepsRuns, alive' => alive,
         \A k \in DOMAIN call' :
           (k \in DOMAIN call /\ call[k].state = "done") \/ (TrueError(k)' /\ OwnResult(k)')
  PROVE  ErrorsAreTrue' /\ ResultsArrive'
<1>1. ASSUME NEW k \in DOMAIN call, call[k].state = "done"
      PROVE  TrueError(k)' /\ OwnResult(k)'
  <2>1. call'[k] = call[k] /\ menu' = menu /\ TrueError(k) /\ OwnResult(k)
    BY <1>1, OfEveryCall DEF KeepsCalls
  <2>2. SizesFit(k)' => SizesFit(k)
    BY SizesStay
  <2>3. RanOk(k) => RanOk(k)'
    BY RunsAreKnown
  <2>4. Over(k) /\ (Own(k)' <=> Own(k))
    BY <1>1, <2>1 DEF Own, Over
  <2>5. TrueError(k)'
    BY <2>1, <2>2, <2>3, <2>4 DEF TrueError
  <2>6. OwnResult(k)'
    <3>1. \A i \in DOMAIN ran : ran[i].ret = "OK" => i \in DOMAIN ran' /\ ran'[i] = ran[i]
      BY DEF KeepsRuns
    <3> QED BY <2>1, <2>4, <3>1 DEF OwnResult
  <2> QED BY <2>5, <2>6
<1>2. \A k \in DOMAIN call' : TrueError(k)' /\ OwnResult(k)'
  BY <1>1
<1>3. ErrorsAreTrue'
  BY <1>2 DEF ErrorsAreTrue, TrueError
<1>4. ResultsArrive'
  BY <1>2 DEF ResultsArrive, OwnResult, Ran
<1> QED BY <1>3, <1>4

\* What flies is a request to the call's own reply port, or to one before it.
LEMMA FlyingIs ==
  ASSUME RequestsInv, ServingInv, NEW k, NEW p, Flying(k, p)
  PROVE  k \in DOMAIN call /\ p \in 0 .. Len(call)
BY DEF Flying, RequestsInv, ServingInv

\* One call at most waits at a port.
LEMMA LiveOnce ==
  ASSUME CallsInv, PortsInv, NEW j \in DOMAIN call, NEW k \in DOMAIN call, NEW p,
         Live(j, p), Live(k, p)
  PROVE  j = k
<1>1. call[j].client \in Clients /\ call[k].client \in Clients /\ port[call[j].client] # 0
  BY DEF CallsInv, PortsInv, Live
<1>2. call[j].client = call[k].client
  BY <1>1 DEF PortsInv, Live
<1> QED BY <1>2 DEF CallsInv, Live

\* A reply stays the one for its call.
LEMMA MessageStays ==
  ASSUME KeepsCalls, KeepsRuns, alive' => alive, NEW k \in DOMAIN call, NEW m, MessageFor(k, m)
  PROVE  MessageFor(k, m)'
<1>1. call'[k].stub = call[k].stub /\ menu' = menu
  BY DEF KeepsCalls
<1>2. RanOk(k) => RanOk(k)'
  BY RunsAreKnown
<1>3. \A i \in DOMAIN ran : ran[i].ret = "OK" => i \in DOMAIN ran' /\ ran'[i] = ran[i]
  BY DEF KeepsRuns
<1> QED BY <1>1, <1>2, <1>3 DEF MessageFor

\* A step of the client c leaves the ports and the calls of the others alone.
LEMMA OthersStay ==
  ASSUME CallsInv, PortsInv, TrafficInv, InboxInv, KeepsCalls, KeepsRuns, alive' => alive,
         NEW c \in Clients,
         \A k \in DOMAIN call : call[k].client # c => call'[k] = call[k],
         \A d \in Clients : d # c => port'[d] = port[d],
         \A p \in DOMAIN inbox' : \/ p \in DOMAIN inbox /\ p # port[c] /\ inbox'[p] = inbox[p]
                                  \/ inbox'[p] = <<>>,
         \A k \in DOMAIN call', p \in DOMAIN inbox' : Flying(k, p)' =>
           \/ k \in DOMAIN call /\ Flying(k, p) /\ p \in DOMAIN inbox /\ p # port[c]
           \/ Live(k, p)' /\ inbox'[p] = <<>>
  PROVE  TrafficInv' /\ InboxInv'
<1>1. ASSUME NEW k \in DOMAIN call, NEW p, Live(k, p), p # port[c]
      PROVE  k \in DOMAIN call' /\ Live(k, p)'
  <2>1. call[k].client \in Clients /\ call[k].client # c
    BY <1>1 DEF CallsInv, Live
  <2>2. call'[k] = call[k] /\ port'[call[k].client] = port[call[k].client]
    BY <2>1
  <2> QED BY <1>1, <2>2 DEF Live, KeepsCalls
<1>2. ASSUME NEW k \in DOMAIN call', NEW p \in DOMAIN inbox', Flying(k, p)'
      PROVE  Live(k, p)' /\ inbox'[p] = <<>>
  <2>1. CASE k \in DOMAIN call /\ Flying(k, p) /\ p \in DOMAIN inbox /\ p # port[c]
    <3>1. Live(k, p) /\ inbox[p] = <<>>
      BY <2>1 DEF TrafficInv
    <3> QED BY <1>1, <2>1, <3>1
  <2> QED BY <1>2, <2>1
<1>3. ASSUME NEW p \in DOMAIN inbox', inbox'[p] # <<>>
      PROVE  \E k \in DOMAIN call' :
               Live(k, p)' /\ inbox'[p] = <<inbox'[p][1]>> /\ MessageFor(k, inbox[p][1])'
  <2>1. p \in DOMAIN inbox /\ p # port[c] /\ inbox'[p] = inbox[p]
    BY <1>3
  <2>2. PICK k \in DOMAIN call :
          Live(k, p) /\ inbox[p] = <<inbox[p][1]>> /\ MessageFor(k, inbox[p][1])
    BY <1>3, <2>1 DEF InboxInv
  <2>3. PICK m : m = inbox[p][1]
    OBVIOUS
  <2>4. MessageFor(k, m)'
    BY <2>2, <2>3, MessageStays
  <2>5. MessageFor(k, inbox[p][1])'
    BY <2>1, <2>3, <2>4 DEF MessageFor
  <2> QED BY <1>1, <2>1, <2>2, <2>5
<1>4. TrafficInv'
  BY <1>2 DEF TrafficInv
<1>5. InboxInv'
  BY <1>3 DEF InboxInv
<1> QED BY <1>4, <1>5

\* Nothing is under way to the port of a thread that does not wait.
LEMMA IdlePort ==
  ASSUME CallsInv, PortsInv, TrafficInv, InboxInv, NEW c \in Clients, Idle(c), port[c] # 0
  PROVE  /\ port[c] \in DOMAIN inbox /\ inbox[port[c]] = <<>>
         /\ \A k \in DOMAIN call : ~Flying(k, port[c])
<1>1. ASSUME NEW k \in DOMAIN call PROVE ~Live(k, port[c])
  <2>1. SUFFICES ASSUME Live(k, port[c]) PROVE FALSE
    OBVIOUS
  <2>2. call[k].client = c
    BY <2>1 DEF CallsInv, PortsInv, Live
  <2> QED BY <2>1, <2>2 DEF Idle, Live
<1>2. port[c] \in DOMAIN inbox
  BY DEF PortsInv
<1>3. inbox[port[c]] = <<>>
  BY <1>1, <1>2 DEF InboxInv
<1> QED BY <1>1, <1>2, <1>3 DEF TrafficInv

\* A thread that calls caches the reply port that it uses.
LEMMA PortPut ==
  ASSUME CallsInv, PortsInv, TrafficInv, InboxInv, NEW c \in Clients, Idle(c),
         NEW p, p = mig_get_reply_port(c), port' = [port EXCEPT ![c] = p],
         inbox' = IF p \in DOMAIN inbox THEN inbox ELSE Put(inbox, p, <<>>)
  PROVE  /\ p \in 1 .. Len(call) + 1 /\ port'[c] = p
         /\ port' \in [Clients -> 0 .. Len(call) + 1]
         /\ \A d \in Clients : d # c => port'[d] = port[d]
         /\ \A d, e \in Clients : port'[d] # 0 /\ port'[d] = port'[e] => d = e
         /\ DOMAIN inbox' = {port'[d] : d \in Clients} \ {0}
         /\ p \in DOMAIN inbox' /\ inbox'[p] = <<>>
         /\ \A r \in DOMAIN inbox' : r # p => r \in DOMAIN inbox /\ r # port[c] /\ inbox'[r] = inbox[r]
         /\ \A k \in DOMAIN call : Flying(k, p) => p = Len(call) + 1
<1>1. /\ Len(call) \in Nat /\ port \in [Clients -> 0 .. Len(call)]
      /\ DOMAIN inbox = {port[d] : d \in Clients} \ {0}
      /\ \A d, e \in Clients : port[d] # 0 /\ port[d] = port[e] => d = e
  BY MenuOffers DEF PortsInv
<1>2. /\ port' = [port EXCEPT ![c] = p]
      /\ inbox' = IF p \in DOMAIN inbox THEN inbox ELSE Put(inbox, p, <<>>)
  OBVIOUS
<1>3. CASE port[c] # 0
  <2>1. p = port[c] /\ p \in DOMAIN inbox /\ inbox[p] = <<>> /\ \A k \in DOMAIN call : ~Flying(k, p)
    BY <1>3, IdlePort DEF mig_get_reply_port
  <2>2. inbox' = inbox /\ port' = port
    BY <1>1, <1>2, <2>1
  <2>3. p \in 1 .. Len(call) + 1 /\ port \in [Clients -> 0 .. Len(call) + 1]
    BY <1>1, <1>3, <2>1
  <2> QED BY <1>1, <2>1, <2>2, <2>3
<1>4. CASE port[c] = 0
  <2>1. p = Len(call) + 1 /\ p \notin DOMAIN inbox
    BY <1>1, <1>4 DEF mig_get_reply_port
  <2>2. inbox' = Put(inbox, p, <<>>)
    BY <1>2, <2>1
  <2>3. /\ DOMAIN inbox' = DOMAIN inbox \union {p} /\ inbox'[p] = <<>>
        /\ \A r \in DOMAIN inbox : inbox'[r] = inbox[r]
    BY <2>1, <2>2 DEF Put
  <2>4. /\ port'[c] = p /\ \A d \in Clients : d # c => port'[d] = port[d]
        /\ port' \in [Clients -> 0 .. Len(call) + 1]
    BY <1>1, <1>2, <2>1
  <2>5. \A d, e \in Clients : port'[d] # 0 /\ port'[d] = port'[e] => d = e
    BY <1>1, <2>1, <2>4
  <2>6. DOMAIN inbox' = {port'[d] : d \in Clients} \ {0}
    BY <1>1, <1>4, <2>1, <2>3, <2>4
  <2> QED BY <1>1, <1>4, <2>1, <2>3, <2>4, <2>5, <2>6
<1> QED BY <1>3, <1>4

\* A thread that gives its reply port up has none, and the port is gone.
LEMMA PortDropped ==
  ASSUME CallsInv, PortsInv, NEW c \in Clients,
         NEW p, p = mig_get_reply_port(c), port' = [port EXCEPT ![c] = 0],
         inbox' = Without(inbox, p)
  PROVE  /\ port' \in [Clients -> 0 .. Len(call)] /\ port'[c] = 0
         /\ \A d \in Clients : d # c => port'[d] = port[d]
         /\ \A d, e \in Clients : port'[d] # 0 /\ port'[d] = port'[e] => d = e
         /\ DOMAIN inbox' = {port'[d] : d \in Clients} \ {0}
         /\ \A r \in DOMAIN inbox' : r \in DOMAIN inbox /\ r # port[c] /\ inbox'[r] = inbox[r]
<1>1. /\ Len(call) \in Nat /\ port \in [Clients -> 0 .. Len(call)]
      /\ DOMAIN inbox = {port[d] : d \in Clients} \ {0}
      /\ \A d, e \in Clients : port[d] # 0 /\ port[d] = port[e] => d = e
  BY MenuOffers DEF PortsInv
<1>2. port' = [port EXCEPT ![c] = 0] /\ inbox' = Without(inbox, p)
  OBVIOUS
<1>3. /\ port'[c] = 0 /\ \A d \in Clients : d # c => port'[d] = port[d]
      /\ port' \in [Clients -> 0 .. Len(call)]
  BY <1>1, <1>2
<1>4. DOMAIN inbox' = DOMAIN inbox \ {p} /\ \A r \in DOMAIN inbox' : inbox'[r] = inbox[r]
  BY <1>2 DEF Without
<1>5. \A d, e \in Clients : port'[d] # 0 /\ port'[d] = port'[e] => d = e
  BY <1>1, <1>3
<1>6. DOMAIN inbox' = DOMAIN inbox \ {port[c]}
  <2>1. CASE port[c] # 0
    BY <1>4, <2>1 DEF mig_get_reply_port
  <2>2. CASE port[c] = 0
    <3>1. p = Len(call) + 1
      BY <2>2 DEF mig_get_reply_port
    <3>2. p \notin DOMAIN inbox /\ port[c] \notin DOMAIN inbox
      BY <1>1, <2>2, <3>1
    <3> QED BY <1>4, <3>2
  <2> QED BY <2>1, <2>2
<1>7. DOMAIN inbox' = {port'[d] : d \in Clients} \ {0}
  BY <1>1, <1>3, <1>6
<1> QED BY <1>3, <1>4, <1>5, <1>6, <1>7

-----------------------------------------------------------------------------
(* The client half keeps the invariant.                                    *)

\* What a request adds to those that wait.
LEMMA RequestMade ==
  ASSUME CallsInv, RequestsInv, ServingInv, RanInv, KeepsCalls, UNCHANGED <<menu, serving, ran>>,
         NEW n, n = Len(call) + 1, Len(call') = n, DOMAIN call' = DOMAIN call \union {n},
         n \notin DOMAIN call, \A k \in DOMAIN call : call'[k] = call[k],
         NEW p, call'[n].stub = p, NEW q \in 0 .. n,
         queue' = Append(queue, Request(StubOf[p], menu.first, n, q))
  PROVE  /\ RequestsInv' /\ ServingInv'
         /\ \A k, r : Flying(k, r)' => Flying(k, r) \/ (k = n /\ r = q)
<1>1. Len(call) \in Nat /\ n \in Nat
  BY MenuOffers
<1>2. PICK new : new = Request(StubOf[p], menu.first, n, q)
  OBVIOUS
<1>3. /\ Listed(queue) /\ Listed(queue') /\ Len(queue) \in Nat /\ Len(queue') = Len(queue) + 1
       /\ DOMAIN queue = 1 .. Len(queue) /\ DOMAIN queue' = 1 .. Len(queue) + 1
       /\ queue'[Len(queue) + 1] = new /\ \A i \in DOMAIN queue : queue'[i] = queue[i]
  <2>1. Listed(queue) /\ Len(queue) \in Nat /\ DOMAIN queue = 1 .. Len(queue)
    BY ListPlaces DEF RequestsInv
  <2>2. queue' = Append(queue, new)
    BY <1>2
  <2>3. /\ Listed(queue') /\ Len(queue') = Len(queue) + 1 /\ queue'[Len(queue) + 1] = new
        /\ \A i \in DOMAIN queue : queue'[i] = queue[i]
    BY <2>1, <2>2, Appended
  <2> QED BY <2>1, <2>3, ListPlaces
<1>4. new.call = n /\ new.reply = q
  BY <1>2, RequestFields
<1>5. \A i \in DOMAIN queue' : i \in DOMAIN queue \/ i = Len(queue) + 1
  BY <1>3
<1>6. RequestsInv'
  <2>1. ASSUME NEW i \in DOMAIN queue'
        PROVE  /\ queue'[i].call \in DOMAIN call' /\ queue'[i].reply \in 0 .. Len(call')
               /\ queue'[i] = Request(StubOf[call'[queue'[i].call].stub], menu'.first,
                                      queue'[i].call, queue'[i].reply)
               /\ \A j \in DOMAIN ran' : ran'[j].call # queue'[i].call
    <3>1. CASE i \in DOMAIN queue
      <4>1. /\ queue[i].call \in DOMAIN call /\ queue[i].reply \in 0 .. Len(call)
            /\ queue[i] = Request(StubOf[call[queue[i].call].stub], menu.first,
                                  queue[i].call, queue[i].reply)
            /\ \A j \in DOMAIN ran : ran[j].call # queue[i].call
        BY <3>1 DEF RequestsInv
      <4>2. queue'[i] = queue[i] /\ call'[queue[i].call] = call[queue[i].call]
        BY <1>3, <3>1, <4>1
      <4> QED BY <1>1, <4>1, <4>2
    <3>2. CASE i = Len(queue) + 1
      <4>1. \A j \in DOMAIN ran : ran[j].call # n
        BY DEF RanInv
      <4> QED BY <1>1, <1>2, <1>3, <1>4, <3>2, <4>1
    <3> QED BY <1>5, <3>1, <3>2
  <2>2. ASSUME NEW i \in DOMAIN queue', NEW j \in DOMAIN queue', queue'[i].call = queue'[j].call
        PROVE  i = j
    <3>1. \A m \in DOMAIN queue : queue[m].call \in DOMAIN call
      BY DEF RequestsInv
    <3>2. \A l, m \in DOMAIN queue : queue[l].call = queue[m].call => l = m
      BY DEF RequestsInv
    <3> QED BY <1>3, <1>4, <1>5, <2>2, <3>1, <3>2
  <2> QED BY <1>3, <2>1, <2>2 DEF RequestsInv
<1>7. ServingInv'
  <2>1. serving # Nothing => \A i \in DOMAIN queue' : queue'[i].call # serving.msg.call
    BY ZenonT(40), <1>3, <1>4, <1>5 DEF ServingInv
  <2> QED BY <1>1, <2>1, ServingStays
<1>8. ASSUME NEW k, NEW r, Flying(k, r)' PROVE Flying(k, r) \/ (k = n /\ r = q)
  BY <1>3, <1>4, <1>5, <1>8 DEF Flying
<1> QED BY <1>6, <1>7, <1>8

\* A request that is sent.
LEMMA SendKeeps ==
  ASSUME IInv, NEW c \in Clients, Send(c)
  PROVE  IInv'
<1>1. /\ CallsInv /\ PortsInv /\ RequestsInv /\ ServingInv /\ RanInv
      /\ TrafficInv /\ InboxInv /\ HeapInv /\ ErrorsAreTrue /\ ResultsArrive
  BY DEF IInv
<1>2. PICK p \in menu.stubs :
        /\ StubOf[p].reply # NoReply
        /\ queue' = Append(queue, Request(StubOf[p], menu.first, Len(call) + 1, mig_get_reply_port(c)))
        /\ call' = Made(c, p, "sent", "")
        /\ mig_put_reply_port(c, mig_get_reply_port(c))
  BY DEF Send
<1>3. /\ MayCall(c) /\ Idle(c)
      /\ UNCHANGED <<menu, serving, alive, heap, twice, ran, held>>
  BY DEF Send, MayCall
<1>4. PICK q : q = mig_get_reply_port(c)
  OBVIOUS
<1>5. PICK n : n = Len(call) + 1
  OBVIOUS
<1>6. /\ CallsInv' /\ KeepsCalls /\ Len(call') = n
      /\ DOMAIN call' = DOMAIN call \union {n} /\ n \notin DOMAIN call
      /\ \A k \in DOMAIN call : call'[k] = call[k]
      /\ call'[n].client = c /\ call'[n].stub = p /\ call'[n].state = "sent"
  <2>1. "sent" \in {"sent", "done"}
    OBVIOUS
  <2> QED BY <1>1, <1>2, <1>3, <1>5, <2>1, CallMade
<1>7. Len(call) \in Nat /\ n \in Nat
  BY <1>1, <1>5, MenuOffers
<1>8. /\ q \in 1 .. n /\ port'[c] = q /\ port' \in [Clients -> 0 .. n]
      /\ \A d \in Clients : d # c => port'[d] = port[d]
      /\ \A d, e \in Clients : port'[d] # 0 /\ port'[d] = port'[e] => d = e
      /\ DOMAIN inbox' = {port'[d] : d \in Clients} \ {0}
      /\ q \in DOMAIN inbox' /\ inbox'[q] = <<>>
      /\ \A r \in DOMAIN inbox' : r # q => r \in DOMAIN inbox /\ r # port[c] /\ inbox'[r] = inbox[r]
      /\ \A k \in DOMAIN call : Flying(k, q) => q = n
  <2>1. /\ port' = [port EXCEPT ![c] = q]
        /\ inbox' = IF q \in DOMAIN inbox THEN inbox ELSE Put(inbox, q, <<>>)
    BY <1>2, <1>4 DEF mig_put_reply_port
  <2> QED BY ZenonT(40), <1>1, <1>3, <1>4, <1>5, <2>1, PortPut
<1>9. PortsInv'
  <2>1. \A k \in DOMAIN call' : call'[k].state = "sent" => port'[call'[k].client] # 0
    <3>1. ASSUME NEW k \in DOMAIN call, call[k].state = "sent" PROVE port'[call[k].client] # 0
      BY <1>1, <1>3, <1>8, <3>1 DEF PortsInv, CallsInv, Idle
    <3> QED BY <1>6, <1>7, <1>8, <3>1
  <2> QED BY <1>6, <1>8, <2>1 DEF PortsInv
<1>10. /\ RequestsInv' /\ ServingInv'
       /\ \A k, r : Flying(k, r)' => Flying(k, r) \/ (k = n /\ r = q)
  <2>1. queue' = Append(queue, Request(StubOf[p], menu.first, n, q))
    BY <1>2, <1>4, <1>5
  <2>2. q \in 0 .. n
    BY <1>7, <1>8
  <2> QED BY <1>1, <1>3, <1>5, <1>6, <2>1, <2>2, RequestMade
<1>11. RanInv' /\ KeepsRuns
  BY <1>1, <1>3, <1>6, RunsStay
<1>12. TrafficInv' /\ InboxInv'
  <2>1. ASSUME NEW k \in DOMAIN call', NEW r \in DOMAIN inbox', Flying(k, r)'
        PROVE  \/ k \in DOMAIN call /\ Flying(k, r) /\ r \in DOMAIN inbox /\ r # port[c]
               \/ Live(k, r)' /\ inbox'[r] = <<>>
    <3>1. Flying(k, r) \/ (k = n /\ r = q)
      BY <1>10, <2>1
    <3>2. CASE Flying(k, r)
      <4>1. k \in DOMAIN call /\ r \in 0 .. Len(call)
        BY <1>1, <3>2, FlyingIs
      <4>2. r # q
        BY <1>5, <1>7, <1>8, <3>2, <4>1
      <4> QED BY <1>8, <3>2, <4>1, <4>2
    <3>3. CASE k = n /\ r = q
      BY <1>6, <1>8, <3>3 DEF Live
    <3> QED BY <3>1, <3>2, <3>3
  <2>2. \A r \in DOMAIN inbox' : \/ r \in DOMAIN inbox /\ r # port[c] /\ inbox'[r] = inbox[r]
                                 \/ inbox'[r] = <<>>
    BY <1>8
  <2> QED BY <1>1, <1>3, <1>6, <1>8, <1>11, <2>1, <2>2, OthersStay
<1>13. HeapInv'
  BY <1>1, <1>3, <1>6, <1>11, HeapStays
<1>14. ErrorsAreTrue' /\ ResultsArrive'
  <2>1. \A k \in DOMAIN call' :
          (k \in DOMAIN call /\ call[k].state = "done") \/ (TrueError(k)' /\ OwnResult(k)')
    <3>1. ASSUME NEW k \in DOMAIN call', call'[k].state = "sent"
          PROVE  TrueError(k)' /\ OwnResult(k)'
      BY <3>1 DEF TrueError, OwnResult, Over
    <3> QED BY <1>1, <1>6, <3>1 DEF CallsInv
  <2> QED BY <1>1, <1>3, <1>6, <1>11, <2>1, TalesStay
<1> QED BY <1>6, <1>9, <1>10, <1>11, <1>12, <1>13, <1>14 DEF IInv

\* A send that fails.
LEMMA SendFailsKeeps ==
  ASSUME IInv, NEW c \in Clients, SendFails(c)
  PROVE  IInv'
<1>1. /\ CallsInv /\ PortsInv /\ RequestsInv /\ ServingInv /\ RanInv
      /\ TrafficInv /\ InboxInv /\ HeapInv /\ ErrorsAreTrue /\ ResultsArrive
  BY DEF IInv
<1>2. PICK p \in menu.stubs, code \in {"MACH_SEND_INVALID_DEST", "MACH_SEND_NO_BUFFER"} :
        /\ call' = Made(c, p, "done", code)
        /\ MachMsgErrorWithoutTimeout(c, mig_get_reply_port(c), code)
  BY DEF SendFails
<1>3. /\ MayCall(c) /\ Idle(c)
      /\ UNCHANGED <<menu, queue, serving, alive, heap, twice, ran, held>>
  BY DEF SendFails, MayCall
<1>4. PICK q : q = mig_get_reply_port(c)
  OBVIOUS
<1>5. PICK n : n = Len(call) + 1
  OBVIOUS
<1>6. /\ CallsInv' /\ KeepsCalls /\ Len(call') = n
      /\ DOMAIN call' = DOMAIN call \union {n} /\ n \notin DOMAIN call
      /\ \A k \in DOMAIN call : call'[k] = call[k]
      /\ call'[n].client = c /\ call'[n].state = "done" /\ call'[n].code = code
  <2>1. "done" \in {"sent", "done"} /\ "done" # "sent"
    OBVIOUS
  <2> QED BY <1>1, <1>2, <1>3, <1>5, <2>1, CallMade
<1>7. Len(call) \in Nat /\ n \in Nat
  BY <1>1, <1>5, MenuOffers
<1>8. /\ port' \in [Clients -> 0 .. n] /\ \A d \in Clients : d # c => port'[d] = port[d]
      /\ \A d, e \in Clients : port'[d] # 0 /\ port'[d] = port'[e] => d = e
      /\ DOMAIN inbox' = {port'[d] : d \in Clients} \ {0}
      /\ \A r \in DOMAIN inbox' : \/ r \in DOMAIN inbox /\ r # port[c] /\ inbox'[r] = inbox[r]
                                  \/ inbox'[r] = <<>>
      /\ \A r \in DOMAIN inbox', k \in DOMAIN call :
           Flying(k, r) => r \in DOMAIN inbox /\ r # port[c]
  <2>1. CASE code = "MACH_SEND_INVALID_DEST"
    <3>1. /\ port' = [port EXCEPT ![c] = q]
          /\ inbox' = IF q \in DOMAIN inbox THEN inbox ELSE Put(inbox, q, <<>>)
      BY <1>2, <1>4, <2>1 DEF MachMsgErrorWithoutTimeout, mig_put_reply_port
    <3>2. /\ port' \in [Clients -> 0 .. n] /\ \A d \in Clients : d # c => port'[d] = port[d]
          /\ \A d, e \in Clients : port'[d] # 0 /\ port'[d] = port'[e] => d = e
          /\ DOMAIN inbox' = {port'[d] : d \in Clients} \ {0}
          /\ inbox'[q] = <<>>
          /\ \A r \in DOMAIN inbox' : r # q => r \in DOMAIN inbox /\ r # port[c] /\ inbox'[r] = inbox[r]
          /\ \A k \in DOMAIN call : Flying(k, q) => q = n
      BY ZenonT(40), <1>1, <1>3, <1>4, <1>5, <3>1, PortPut
    <3>3. ASSUME NEW r \in DOMAIN inbox', NEW k \in DOMAIN call, Flying(k, r)
          PROVE  r \in DOMAIN inbox /\ r # port[c]
      <4>1. r \in 0 .. Len(call)
        BY <1>1, <3>3, FlyingIs
      <4> QED BY <1>5, <1>7, <3>2, <3>3, <4>1
    <3> QED BY <3>2, <3>3
  <2>2. CASE code = "MACH_SEND_NO_BUFFER"
    <3>1. port' = [port EXCEPT ![c] = 0] /\ inbox' = Without(inbox, q)
      BY <1>2, <1>4, <2>2 DEF MachMsgErrorWithoutTimeout, mig_dealloc_reply_port
    <3>2. /\ port' \in [Clients -> 0 .. Len(call)] /\ \A d \in Clients : d # c => port'[d] = port[d]
          /\ \A d, e \in Clients : port'[d] # 0 /\ port'[d] = port'[e] => d = e
          /\ DOMAIN inbox' = {port'[d] : d \in Clients} \ {0}
          /\ \A r \in DOMAIN inbox' : r \in DOMAIN inbox /\ r # port[c] /\ inbox'[r] = inbox[r]
      BY <1>1, <1>4, <3>1, PortDropped
    <3>3. port' \in [Clients -> 0 .. n]
      BY <1>5, <1>7, <3>2
    <3> QED BY <3>2, <3>3
  <2> QED BY <2>1, <2>2
<1>9. PortsInv'
  <2>1. \A k \in DOMAIN call' : call'[k].state = "sent" => port'[call'[k].client] # 0
    <3>1. ASSUME NEW k \in DOMAIN call, call[k].state = "sent" PROVE port'[call[k].client] # 0
      BY <1>1, <1>3, <1>8, <3>1 DEF PortsInv, CallsInv, Idle
    <3> QED BY <1>6, <3>1
  <2> QED BY <1>6, <1>8, <2>1 DEF PortsInv
<1>10. RequestsInv'
  BY <1>1, <1>3, <1>6, <1>7, RequestsStay
<1>11. ServingInv'
  <2>1. serving # Nothing => \A i \in DOMAIN queue' : queue'[i].call # serving.msg.call
    BY <1>1, <1>3 DEF ServingInv
  <2> QED BY <1>1, <1>3, <1>6, <1>7, <2>1, ServingStays
<1>12. RanInv' /\ KeepsRuns
  BY <1>1, <1>3, <1>6, RunsStay
<1>13. TrafficInv' /\ InboxInv'
  <2>1. ASSUME NEW k \in DOMAIN call', NEW r \in DOMAIN inbox', Flying(k, r)'
        PROVE  k \in DOMAIN call /\ Flying(k, r) /\ r \in DOMAIN inbox /\ r # port[c]
    <3>1. Flying(k, r)
      BY <1>3, <2>1 DEF Flying
    <3>2. k \in DOMAIN call
      BY <1>1, <3>1, FlyingIs
    <3> QED BY <1>8, <3>1, <3>2
  <2> QED BY <1>1, <1>3, <1>6, <1>8, <1>12, <2>1, OthersStay
<1>14. HeapInv'
  BY <1>1, <1>3, <1>6, <1>12, HeapStays
<1>15. ErrorsAreTrue' /\ ResultsArrive'
  <2>1. TrueError(n)' /\ OwnResult(n)'
    BY <1>6 DEF TrueError, OwnResult
  <2>2. \A k \in DOMAIN call' :
          (k \in DOMAIN call /\ call[k].state = "done") \/ (TrueError(k)' /\ OwnResult(k)')
    <3>1. ASSUME NEW k \in DOMAIN call', call'[k].state = "sent"
          PROVE  TrueError(k)' /\ OwnResult(k)'
      BY <3>1 DEF TrueError, OwnResult, Over
    <3> QED BY <1>1, <1>6, <2>1, <3>1 DEF CallsInv
  <2> QED BY <1>1, <1>3, <1>6, <1>12, <2>2, TalesStay
<1> QED BY <1>6, <1>9, <1>10, <1>11, <1>12, <1>13, <1>14, <1>15 DEF IInv

\* A notification of the kernel's, which nobody waits for.
LEMMA NotifyKeeps ==
  ASSUME IInv, NEW c \in Clients, Notify(c)
  PROVE  IInv'
<1>1. /\ CallsInv /\ PortsInv /\ RequestsInv /\ ServingInv /\ RanInv
      /\ TrafficInv /\ InboxInv /\ HeapInv /\ ErrorsAreTrue /\ ResultsArrive
  BY DEF IInv
<1>2. PICK p \in menu.stubs :
        /\ queue' = Append(queue, Request(StubOf[p], menu.first, Len(call) + 1, 0))
        /\ call' = Made(c, p, "done", "SENT")
  BY DEF Notify
<1>3. MayCall(c) /\ UNCHANGED <<menu, port, inbox, serving, alive, heap, twice, ran, held>>
  BY DEF Notify
<1>4. PICK n : n = Len(call) + 1
  OBVIOUS
<1>5. /\ CallsInv' /\ KeepsCalls /\ Len(call') = n
      /\ DOMAIN call' = DOMAIN call \union {n} /\ n \notin DOMAIN call
      /\ \A k \in DOMAIN call : call'[k] = call[k]
      /\ call'[n].client = c /\ call'[n].stub = p /\ call'[n].state = "done" /\ call'[n].code = "SENT"
  <2>1. "done" \in {"sent", "done"} /\ "done" # "sent"
    OBVIOUS
  <2> QED BY <1>1, <1>2, <1>3, <1>4, <2>1, CallMade
<1>6. Len(call) \in Nat /\ n \in Nat
  BY <1>1, <1>4, MenuOffers
<1>7. PortsInv'
  <2>1. \A k \in DOMAIN call' : call'[k].state = "sent" => port'[call'[k].client] # 0
    BY <1>1, <1>3, <1>5 DEF PortsInv
  <2>2. port' \in [Clients -> 0 .. n]
    BY <1>1, <1>3, <1>4, <1>6 DEF PortsInv
  <2> QED BY <1>1, <1>3, <1>5, <2>1, <2>2 DEF PortsInv
<1>8. /\ RequestsInv' /\ ServingInv'
      /\ \A k, r : Flying(k, r)' => Flying(k, r) \/ (k = n /\ r = 0)
  <2>1. queue' = Append(queue, Request(StubOf[p], menu.first, n, 0)) /\ 0 \in 0 .. n
    BY <1>2, <1>4, <1>6
  <2> QED BY <1>1, <1>3, <1>4, <1>5, <2>1, RequestMade
<1>9. RanInv' /\ KeepsRuns
  BY <1>1, <1>3, <1>5, RunsStay
<1>10. \A r \in DOMAIN inbox : r # 0
  BY <1>1 DEF PortsInv
<1>11. TrafficInv'
  <2>1. ASSUME NEW k \in DOMAIN call', NEW r \in DOMAIN inbox', Flying(k, r)'
        PROVE  Live(k, r)' /\ inbox'[r] = <<>>
    <3>1. Flying(k, r)
      BY <1>3, <1>8, <1>10, <2>1
    <3>2. k \in DOMAIN call
      BY <1>1, <3>1, FlyingIs
    <3>3. Live(k, r) /\ inbox[r] = <<>>
      BY <1>1, <1>3, <3>1, <3>2 DEF TrafficInv
    <3> QED BY <1>3, <1>5, <3>2, <3>3 DEF Live
  <2> QED BY <2>1 DEF TrafficInv
<1>12. InboxInv'
  <2>1. ASSUME NEW r \in DOMAIN inbox, inbox[r] # <<>>
        PROVE  \E k \in DOMAIN call' :
                 Live(k, r)' /\ inbox[r] = <<inbox[r][1]>> /\ MessageFor(k, inbox[r][1])'
    <3>1. PICK k \in DOMAIN call :
            Live(k, r) /\ inbox[r] = <<inbox[r][1]>> /\ MessageFor(k, inbox[r][1])
      BY <1>1, <2>1 DEF InboxInv
    <3>2. PICK m : m = inbox[r][1]
      OBVIOUS
    <3>3. MessageFor(k, m)'
      BY <1>3, <1>5, <1>9, <3>1, <3>2, MessageStays
    <3>4. MessageFor(k, inbox[r][1])'
      BY <1>3, <3>2, <3>3 DEF MessageFor
    <3>5. Live(k, r)'
      BY <1>3, <1>5, <3>1 DEF Live
    <3> QED BY <1>5, <3>1, <3>4, <3>5
  <2> QED BY <1>3, <2>1 DEF InboxInv
<1>13. HeapInv'
  BY <1>1, <1>3, <1>5, <1>9, HeapStays
<1>14. ErrorsAreTrue' /\ ResultsArrive'
  <2>1. TrueError(n)' /\ OwnResult(n)'
    BY <1>5 DEF TrueError, OwnResult
  <2>2. \A k \in DOMAIN call' :
          (k \in DOMAIN call /\ call[k].state = "done") \/ (TrueError(k)' /\ OwnResult(k)')
    <3>1. ASSUME NEW k \in DOMAIN call', call'[k].state = "sent"
          PROVE  TrueError(k)' /\ OwnResult(k)'
      BY <3>1 DEF TrueError, OwnResult, Over
    <3> QED BY <1>1, <1>5, <2>1, <3>1 DEF CallsInv
  <2> QED BY <1>1, <1>3, <1>5, <1>9, <2>2, TalesStay
<1> QED BY <1>5, <1>7, <1>8, <1>9, <1>11, <1>12, <1>13, <1>14 DEF IInv

\* A receive that fails.
LEMMA ReceiveFailsKeeps ==
  ASSUME IInv, NEW c \in Clients, ReceiveFails(c)
  PROVE  IInv'
<1>1. /\ CallsInv /\ PortsInv /\ RequestsInv /\ ServingInv /\ RanInv
      /\ TrafficInv /\ InboxInv /\ HeapInv /\ ErrorsAreTrue /\ ResultsArrive
  BY DEF IInv
<1>2. /\ ~Idle(c) /\ call' = Finished(Pending(c), "MACH_RCV_BODY_ERROR", <<>>)
      /\ port' = [port EXCEPT ![c] = 0] /\ inbox' = Without(inbox, port[c])
      /\ UNCHANGED <<menu, queue, serving, alive, heap, twice, ran, held>>
  BY DEF ReceiveFails, MachMsgErrorWithoutTimeout, mig_dealloc_reply_port
<1>3. PICK n : n = Pending(c)
  OBVIOUS
<1>4. /\ CallsInv' /\ KeepsCalls /\ Len(call') = Len(call) /\ DOMAIN call' = DOMAIN call
      /\ n \in DOMAIN call /\ call[n].client = c /\ call[n].state = "sent"
      /\ call'[n].state = "done" /\ call'[n].code = "MACH_RCV_BODY_ERROR"
      /\ \A k \in DOMAIN call : k # n => call'[k] = call[k]
  <2>1. Len(<<>>) \in {0, Len(StubOf[call[Pending(c)].stub].outs)}
    OBVIOUS
  <2> QED BY <1>1, <1>2, <1>3, <2>1, CallEnds
<1>5. Len(call) \in Nat
  BY <1>1, MenuOffers
<1>6. port[c] # 0
  BY <1>1, <1>4 DEF PortsInv
<1>7. /\ port' \in [Clients -> 0 .. Len(call)] /\ \A d \in Clients : d # c => port'[d] = port[d]
      /\ \A d, e \in Clients : port'[d] # 0 /\ port'[d] = port'[e] => d = e
      /\ DOMAIN inbox' = {port'[d] : d \in Clients} \ {0}
      /\ \A r \in DOMAIN inbox' : r \in DOMAIN inbox /\ r # port[c] /\ inbox'[r] = inbox[r]
  <2>1. port[c] = mig_get_reply_port(c)
    BY <1>6 DEF mig_get_reply_port
  <2>2. PICK p : p = port[c]
    OBVIOUS
  <2> QED BY <1>1, <1>2, <2>1, <2>2, PortDropped
<1>8. \A k \in DOMAIN call : call[k].client = c /\ call[k].state = "sent" => k = n
  BY <1>1, <1>4 DEF CallsInv
<1>9. PortsInv'
  <2>1. ASSUME NEW k \in DOMAIN call', call'[k].state = "sent" PROVE port'[call'[k].client] # 0
    <3>1. k \in DOMAIN call /\ k # n /\ call'[k] = call[k]
      BY <1>4, <2>1
    <3>2. call[k].client \in Clients /\ call[k].client # c
      BY <1>1, <1>8, <2>1, <3>1 DEF CallsInv
    <3> QED BY <1>1, <1>7, <2>1, <3>1, <3>2 DEF PortsInv
  <2> QED BY <1>4, <1>7, <2>1 DEF PortsInv
<1>10. RequestsInv'
  BY <1>1, <1>2, <1>4, <1>5, RequestsStay
<1>11. ServingInv'
  <2>1. serving # Nothing => \A i \in DOMAIN queue' : queue'[i].call # serving.msg.call
    BY <1>1, <1>2 DEF ServingInv
  <2> QED BY <1>1, <1>2, <1>4, <1>5, <2>1, ServingStays
<1>12. RanInv' /\ KeepsRuns
  BY <1>1, <1>2, <1>4, RunsStay
<1>13. TrafficInv' /\ InboxInv'
  <2>1. ASSUME NEW k \in DOMAIN call', NEW r \in DOMAIN inbox', Flying(k, r)'
        PROVE  k \in DOMAIN call /\ Flying(k, r) /\ r \in DOMAIN inbox /\ r # port[c]
    BY <1>2, <1>4, <1>7, <2>1 DEF Flying
  <2>2. \A k \in DOMAIN call : call[k].client # c => call'[k] = call[k]
    BY <1>4
  <2> QED BY <1>1, <1>2, <1>4, <1>7, <1>12, <2>1, <2>2, OthersStay
<1>14. HeapInv'
  BY <1>1, <1>2, <1>4, <1>12, HeapStays
<1>15. ErrorsAreTrue' /\ ResultsArrive'
  <2>1. TrueError(n)' /\ OwnResult(n)'
    BY <1>4 DEF TrueError, OwnResult
  <2>2. \A k \in DOMAIN call' :
          (k \in DOMAIN call /\ call[k].state = "done") \/ (TrueError(k)' /\ OwnResult(k)')
    <3>1. ASSUME NEW k \in DOMAIN call', call'[k].state = "sent"
          PROVE  TrueError(k)' /\ OwnResult(k)'
      BY <3>1 DEF TrueError, OwnResult, Over
    <3> QED BY <1>1, <1>4, <2>1, <3>1 DEF CallsInv
  <2> QED BY <1>1, <1>2, <1>4, <1>12, <2>2, TalesStay
<1> QED BY <1>4, <1>9, <1>10, <1>11, <1>12, <1>13, <1>14, <1>15 DEF IInv

\* What the caller of k is told by the reply m.
LEMMA ReplyTaken ==
  ASSUME CallsInv, RanInv, NEW k \in DOMAIN call, call[k].state = "sent", NEW m, MessageFor(k, m)
  PROVE  LET s == StubOf[call[k].stub]
             code == CheckReply(s.reply, m)
         IN  /\ ~(m.size > SizeOf(s.reply))
             /\ code = "OK" =>
                  /\ \A h \in Contents(m) : h[2][1] = k
                  /\ \E i \in DOMAIN ran :
                       /\ ran[i].call = k /\ ran[i].ret = "OK"
                       /\ [j \in DOMAIN s.outs |-> Read(s.reply, m, s.outs[j])]
                          = Meant(s.reply, s.outs, ran[i].first, k, Returned(call[k].stub))
             /\ Own(k) /\ code \in {"MIG_BAD_ID", "MIG_BAD_ARGUMENTS", "MIG_TYPE_ERROR",
                                    "MIG_REPLY_MISMATCH", "MACH_RCV_TOO_LARGE"} => ~SizesFit(k)
             /\ code = "MIG_SERVER_DIED" /\ alive => call[k].stub \in ReturnsSlot /\ RanOk(k)
<1>1. PICK p, s, code : p = call[k].stub /\ s = StubOf[p] /\ code = CheckReply(s.reply, m)
  OBVIOUS
<1>2. p \in StubIds /\ s.reply # NoReply
  BY <1>1, MenuOffers DEF CallsInv
<1>3. \/ ErrorFor(m, p, menu.server, menu.first)
      \/ \E i \in DOMAIN ran : ran[i].call = k /\ ran[i].ret = "OK" /\ ResultFor(m, p, k, ran[i].first)
      \/ Notification(m) /\ (alive => p \in ReturnsSlot /\ RanOk(k))
  BY <1>1 DEF MessageFor
<1> DEFINE Goal == /\ ~(m.size > SizeOf(s.reply))
                   /\ code = "OK" =>
                        /\ \A h \in Contents(m) : h[2][1] = k
                        /\ \E i \in DOMAIN ran :
                             /\ ran[i].call = k /\ ran[i].ret = "OK"
                             /\ [j \in DOMAIN s.outs |-> Read(s.reply, m, s.outs[j])]
                                = Meant(s.reply, s.outs, ran[i].first, k, Returned(p))
                   /\ Own(k) /\ code \in {"MIG_BAD_ID", "MIG_BAD_ARGUMENTS", "MIG_TYPE_ERROR",
                                          "MIG_REPLY_MISMATCH", "MACH_RCV_TOO_LARGE"} => ~SizesFit(k)
                   /\ code = "MIG_SERVER_DIED" /\ alive => p \in ReturnsSlot /\ RanOk(k)
<1>4. ASSUME ErrorFor(m, p, menu.server, menu.first) PROVE Goal
  <2>1. ~(m.size > SizeOf(s.reply)) /\ code = m.ret
    BY <1>1, <1>2, <1>4, ErrorsAreTaken
  <2>2. /\ m.ret \in {"FAILURE", "MIG_BAD_ID", "MIG_BAD_ARGUMENTS", "MIG_TYPE_ERROR"}
        /\ m.ret # "FAILURE" /\ menu.server = p[1] => ~FitsIn(s.request, s.ins, menu.first)
    BY <1>1, <1>4 DEF ErrorFor
  <2>3. Own(k) /\ code # "FAILURE" => ~SizesFit(k)
    BY <1>1, <2>1, <2>2 DEF Own, SizesFit
  <2> QED BY <2>1, <2>2, <2>3
<1>5. ASSUME NEW i \in DOMAIN ran, ran[i].call = k, ran[i].ret = "OK", ResultFor(m, p, k, ran[i].first)
      PROVE  Goal
  <2>1. PICK n : n = ran[i].first
    OBVIOUS
  <2>2. n \in Nat
    BY <2>1 DEF RanInv
  <2>3. /\ ~(m.size > SizeOf(s.reply)) /\ code \in {"OK", "MIG_TYPE_ERROR"}
        /\ FitsIn(s.reply, s.outs, n) => code = "OK"
        /\ code = "OK" => [j \in DOMAIN s.outs |-> Read(s.reply, m, s.outs[j])]
                           = Meant(s.reply, s.outs, n, k, Returned(p))
        /\ \A h \in Contents(m) : h[2][1] = k
    <3>1. ResultFor(m, p, k, n)
      BY <1>5, <2>1
    <3> QED BY <1>1, <1>2, <2>2, <3>1, ResultsAreTaken
  <2>4. SizesFit(k) => code = "OK"
    <3>1. i \in Ran(k)
      BY <1>5 DEF Ran
    <3> QED BY <1>1, <2>1, <2>3, <3>1 DEF SizesFit
  <2> QED BY <1>5, <2>1, <2>3, <2>4
<1>6. ASSUME Notification(m), alive => p \in ReturnsSlot /\ RanOk(k) PROVE Goal
  <2>1. ~(m.size > SizeOf(s.reply)) /\ code = "MIG_SERVER_DIED"
    BY <1>1, <1>2, <1>6, NotificationsAreTaken
  <2> QED BY <1>6, <2>1
<1>7. Goal
  <2> HIDE DEF Goal
  <2> QED BY <1>3, <1>4, <1>5, <1>6
<1> QED BY <1>1, <1>7

\* A reply that is taken.
LEMMA ReceiveKeeps ==
  ASSUME IInv, NEW c \in Clients, Receive(c)
  PROVE  IInv'
<1>1. /\ CallsInv /\ PortsInv /\ RequestsInv /\ ServingInv /\ RanInv
      /\ TrafficInv /\ InboxInv /\ HeapInv /\ ErrorsAreTrue /\ ResultsArrive
  BY DEF IInv
<1>2. /\ ~Idle(c) /\ inbox[port[c]] # <<>>
      /\ UNCHANGED <<menu, queue, serving, alive, heap, twice, ran>>
  BY DEF Receive
<1>3. PICK n : n = Pending(c)
  OBVIOUS
<1>4. n \in DOMAIN call /\ call[n].client = c /\ call[n].state = "sent"
  BY <1>2, <1>3 DEF Idle, Pending
<1>5. PICK p : p = port[c]
  OBVIOUS
<1>6. p # 0 /\ p \in DOMAIN inbox /\ Live(n, p)
  BY <1>1, <1>4, <1>5 DEF PortsInv, Live
<1>7. PICK m : m = Head(inbox[p])
  OBVIOUS
<1>8. inbox[p] = <<m>> /\ MessageFor(n, m)
  <2>1. PICK k \in DOMAIN call :
          Live(k, p) /\ inbox[p] = <<inbox[p][1]>> /\ MessageFor(k, inbox[p][1])
    BY <1>1, <1>2, <1>5, <1>6 DEF InboxInv
  <2>2. k = n
    BY <1>1, <1>4, <1>6, <2>1, LiveOnce
  <2>3. m = inbox[p][1]
    BY <1>7, <2>1
  <2> QED BY <2>1, <2>2, <2>3
<1>9. PICK s, code : s = StubOf[call[n].stub] /\ code = CheckReply(s.reply, m)
  OBVIOUS
<1>10. PICK outs : outs = IF code # "OK" THEN <<>>
                          ELSE [i \in DOMAIN s.outs |-> Read(s.reply, m, s.outs[i])]
  OBVIOUS
<1>11. /\ ~(m.size > SizeOf(s.reply))
       /\ code = "OK" =>
            /\ \A h \in Contents(m) : h[2][1] = n
            /\ \E i \in DOMAIN ran :
                 /\ ran[i].call = n /\ ran[i].ret = "OK"
                 /\ [j \in DOMAIN s.outs |-> Read(s.reply, m, s.outs[j])]
                    = Meant(s.reply, s.outs, ran[i].first, n, Returned(call[n].stub))
       /\ Own(n) /\ code \in {"MIG_BAD_ID", "MIG_BAD_ARGUMENTS", "MIG_TYPE_ERROR",
                              "MIG_REPLY_MISMATCH", "MACH_RCV_TOO_LARGE"} => ~SizesFit(n)
       /\ code = "MIG_SERVER_DIED" /\ alive => call[n].stub \in ReturnsSlot /\ RanOk(n)
  BY <1>1, <1>4, <1>8, <1>9, ReplyTaken
<1>12. /\ call' = Finished(n, code, outs) /\ held' = held \union Kept(code, m)
       /\ inbox' = [inbox EXCEPT ![p] = Tail(@)] /\ port' = port
  BY <1>3, <1>5, <1>7, <1>9, <1>10, <1>11 DEF Receive
<1>13. Len(outs) \in {0, Len(s.outs)}
  <2>1. IsList(s.outs)
    BY <1>1, <1>4, <1>9, MenuOffers, StubsAreSound DEF WellFormed
  <2>2. PICK f : f = [i \in DOMAIN s.outs |-> Read(s.reply, m, s.outs[i])]
    OBVIOUS
  <2>3. DOMAIN f = DOMAIN s.outs /\ f = [i \in DOMAIN s.outs |-> f[i]]
    BY <2>2
  <2>4. Len(f) = Len(s.outs)
    BY <2>1, <2>3, SameLength
  <2>5. Len(<<>>) = 0
    OBVIOUS
  <2> QED BY <1>10, <2>2, <2>4, <2>5
<1>14. /\ CallsInv' /\ KeepsCalls /\ Len(call') = Len(call) /\ DOMAIN call' = DOMAIN call
       /\ call'[n].state = "done" /\ call'[n].code = code /\ call'[n].outs = outs
       /\ \A k \in DOMAIN call : k # n => call'[k] = call[k]
  <2>1. /\ Len(outs) \in {0, Len(StubOf[call[Pending(c)].stub].outs)}
        /\ call' = Finished(Pending(c), code, outs)
    BY <1>3, <1>9, <1>12, <1>13
  <2> QED BY <1>1, <1>2, <1>3, <2>1, CallEnds
<1>15. Len(call) \in Nat
  BY <1>1, MenuOffers
<1>16. \A r \in DOMAIN inbox' : \/ r \in DOMAIN inbox /\ r # p /\ inbox'[r] = inbox[r]
                                \/ inbox'[r] = <<>>
  <2>1. Tail(inbox[p]) = <<>>
    BY <1>8
  <2> QED BY <1>6, <1>12, <2>1
<1>17. DOMAIN inbox' = DOMAIN inbox
  BY <1>12
<1>18. PortsInv'
  <2>1. \A k \in DOMAIN call' : call'[k].state = "sent" => port'[call'[k].client] # 0
    <3>1. ASSUME NEW k \in DOMAIN call', call'[k].state = "sent" PROVE port'[call'[k].client] # 0
      <4>1. k \in DOMAIN call /\ call'[k] = call[k]
        BY <1>14, <3>1
      <4> QED BY <1>1, <1>12, <3>1, <4>1 DEF PortsInv
    <3> QED BY <3>1
  <2> QED BY <1>1, <1>12, <1>14, <1>17, <2>1 DEF PortsInv
<1>19. RequestsInv'
  BY <1>1, <1>2, <1>14, <1>15, RequestsStay
<1>20. ServingInv'
  <2>1. serving # Nothing => \A i \in DOMAIN queue' : queue'[i].call # serving.msg.call
    BY <1>1, <1>2 DEF ServingInv
  <2> QED BY <1>1, <1>2, <1>14, <1>15, <2>1, ServingStays
<1>21. RanInv' /\ KeepsRuns
  BY <1>1, <1>2, <1>14, RunsStay
<1>22. TrafficInv' /\ InboxInv'
  <2>1. ASSUME NEW k \in DOMAIN call', NEW r \in DOMAIN inbox', Flying(k, r)'
        PROVE  k \in DOMAIN call /\ Flying(k, r) /\ r \in DOMAIN inbox /\ r # port[c]
    <3>1. k \in DOMAIN call /\ Flying(k, r) /\ r \in DOMAIN inbox
      BY <1>2, <1>14, <1>17, <2>1 DEF Flying
    <3>2. inbox[r] = <<>>
      BY <1>1, <3>1 DEF TrafficInv
    <3> QED BY <1>2, <3>1, <3>2
  <2>2. \A k \in DOMAIN call : call[k].client # c => call'[k] = call[k]
    BY <1>4, <1>14
  <2>3. \A d \in Clients : d # c => port'[d] = port[d]
    BY <1>12
  <2>4. \A r \in DOMAIN inbox' : \/ r \in DOMAIN inbox /\ r # port[c] /\ inbox'[r] = inbox[r]
                                 \/ inbox'[r] = <<>>
    BY <1>5, <1>16
  <2> QED BY <1>1, <1>2, <1>14, <1>21, <2>1, <2>2, <2>3, <2>4, OthersStay
<1>23. HeapInv'
  <2>1. \A h \in held' : h[2][1] \in DOMAIN call' /\ Over(h[2][1])' /\ call'[h[2][1]].code = "OK"
    <3>1. ASSUME NEW h \in held
          PROVE  h[2][1] \in DOMAIN call' /\ Over(h[2][1])' /\ call'[h[2][1]].code = "OK"
      <4>1. h[2][1] \in DOMAIN call /\ Over(h[2][1]) /\ call[h[2][1]].code = "OK"
        BY <1>1 DEF HeapInv
      <4> QED BY <1>14, <4>1 DEF KeepsCalls, Over
    <3>2. ASSUME NEW h \in Kept(code, m)
          PROVE  h[2][1] \in DOMAIN call' /\ Over(h[2][1])' /\ call'[h[2][1]].code = "OK"
      <4>1. code = "OK" /\ h[2][1] = n
        BY <1>11, <3>2 DEF Kept
      <4> QED BY <1>4, <1>14, <4>1 DEF Over
    <3> QED BY <1>12, <3>1, <3>2
  <2> QED BY <1>1, <1>2, <2>1 DEF HeapInv, RanOk, Ran
<1>24. ErrorsAreTrue' /\ ResultsArrive'
  <2>1. call'[n].stub = call[n].stub /\ menu' = menu
    BY <1>4, <1>14 DEF KeepsCalls
  <2>2. SizesFit(n)' => SizesFit(n)
    BY <1>1, <1>4, <1>14, <1>21, SizesStay
  <2>3. RanOk(n) => RanOk(n)'
    BY <1>21, RunsAreKnown
  <2>4. TrueError(n)'
    BY <1>2, <1>11, <1>14, <2>1, <2>2, <2>3 DEF TrueError, Own
  <2>5. OwnResult(n)'
    <3> SUFFICES ASSUME code = "OK"
                 PROVE  \E i \in DOMAIN ran' :
                          /\ ran'[i].call = n /\ ran'[i].ret = "OK"
                          /\ outs = Meant(StubOf[call'[n].stub].reply, StubOf[call'[n].stub].outs,
                                          ran'[i].first, n, Returned(call'[n].stub))
      BY <1>14 DEF OwnResult
    <3>1. outs = [j \in DOMAIN s.outs |-> Read(s.reply, m, s.outs[j])]
      BY <1>10
    <3>2. PICK i \in DOMAIN ran : /\ ran[i].call = n /\ ran[i].ret = "OK"
                                  /\ outs = Meant(s.reply, s.outs, ran[i].first, n,
                                                  Returned(call[n].stub))
      BY <1>11, <3>1
    <3>3. ran' = ran /\ s = StubOf[call'[n].stub]
      BY <1>2, <1>9, <2>1
    <3> QED BY <3>2, <3>3, <2>1
  <2>6. \A k \in DOMAIN call' :
          (k \in DOMAIN call /\ call[k].state = "done") \/ (TrueError(k)' /\ OwnResult(k)')
    <3>1. ASSUME NEW k \in DOMAIN call', call'[k].state = "sent"
          PROVE  TrueError(k)' /\ OwnResult(k)'
      BY <3>1 DEF TrueError, OwnResult, Over
    <3> QED BY <1>1, <1>14, <2>4, <2>5, <3>1 DEF CallsInv
  <2> QED BY <1>1, <1>2, <1>14, <1>21, <2>6, TalesStay
<1> QED BY <1>14, <1>18, <1>19, <1>20, <1>21, <1>22, <1>23, <1>24 DEF IInv

-----------------------------------------------------------------------------
(* The server half keeps it.                                               *)

\* The calls and the ports when only the server works.
LEMMA ClientsStay ==
  ASSUME CallsInv, PortsInv, UNCHANGED <<menu, call, port>>, DOMAIN inbox' = DOMAIN inbox
  PROVE  CallsInv' /\ PortsInv' /\ KeepsCalls /\ Len(call) \in Nat /\ Len(call') \in Nat
<1>1. Len(call) \in Nat
  BY MenuOffers
<1>2. CallsInv'
  BY DEF CallsInv
<1>3. PortsInv'
  BY DEF PortsInv
<1> QED BY <1>1, <1>2, <1>3 DEF KeepsCalls

\* What is told of the calls then.
LEMMA TalesOfClients ==
  ASSUME CallsInv, RanInv, ErrorsAreTrue, ResultsArrive, KeepsCalls, KeepsRuns, alive' => alive,
         call' = call
  PROVE  ErrorsAreTrue' /\ ResultsArrive'
<1>1. \A k \in DOMAIN call' :
        (k \in DOMAIN call /\ call[k].state = "done") \/ (TrueError(k)' /\ OwnResult(k)')
  <2>1. ASSUME NEW k \in DOMAIN call', call'[k].state = "sent"
        PROVE  TrueError(k)' /\ OwnResult(k)'
    BY <2>1 DEF TrueError, OwnResult, Over
  <2> QED BY <2>1 DEF CallsInv
<1> QED BY <1>1, TalesStay

\* What is on its way stays there while no port is touched.
LEMMA MailStays ==
  ASSUME TrafficInv, InboxInv, KeepsCalls, KeepsRuns, alive' => alive,
         UNCHANGED <<menu, call, port, inbox>>, \A k, p : Flying(k, p)' => Flying(k, p)
  PROVE  TrafficInv' /\ InboxInv'
<1>1. TrafficInv'
  <2>1. ASSUME NEW k \in DOMAIN call, NEW r \in DOMAIN inbox, Flying(k, r)'
        PROVE  Live(k, r)' /\ inbox'[r] = <<>>
    <3>1. Live(k, r) /\ inbox[r] = <<>>
      BY <2>1 DEF TrafficInv
    <3> QED BY <3>1 DEF Live
  <2> QED BY <2>1 DEF TrafficInv
<1>2. InboxInv'
  <2>1. ASSUME NEW r \in DOMAIN inbox, inbox[r] # <<>>
        PROVE  \E k \in DOMAIN call :
                 Live(k, r)' /\ inbox[r] = <<inbox[r][1]>> /\ MessageFor(k, inbox[r][1])'
    <3>1. PICK k \in DOMAIN call :
            Live(k, r) /\ inbox[r] = <<inbox[r][1]>> /\ MessageFor(k, inbox[r][1])
      BY <2>1 DEF InboxInv
    <3>2. PICK m : m = inbox[r][1]
      OBVIOUS
    <3>3. MessageFor(k, m)'
      BY <3>1, <3>2, MessageStays
    <3>4. MessageFor(k, inbox[r][1])'
      BY <3>2, <3>3 DEF MessageFor
    <3>5. Live(k, r)'
      BY <3>1 DEF Live
    <3> QED BY <3>1, <3>4, <3>5
  <2> QED BY <2>1 DEF InboxInv
<1> QED BY <1>1, <1>2

\* The request that the server takes, and those that it leaves.
LEMMA RequestTaken ==
  ASSUME CallsInv, RequestsInv, Dequeue, NEW m, m = Incoming
  PROVE  /\ m.call \in DOMAIN call /\ m.reply \in 0 .. Len(call)
         /\ m = Deliver(Request(StubOf[call[m.call].stub], menu.first, m.call, m.reply))
         /\ Flying(m.call, m.reply) /\ \A j \in DOMAIN ran : ran[j].call # m.call
         /\ Listed(queue')
         /\ \A i \in DOMAIN queue' : /\ i + 1 \in DOMAIN queue /\ queue'[i] = queue[i + 1]
                                     /\ queue'[i].call # m.call
         /\ \A i, j \in DOMAIN queue' : queue'[i].call = queue'[j].call => i = j
         /\ \A h \in Contents(m) : h[2][1] = m.call
<1>1. /\ Listed(queue) /\ queue # <<>> /\ queue' = Tail(queue)
  BY DEF Dequeue, RequestsInv
<1>2. /\ Len(queue) \in Nat \ {0} /\ Head(queue) = queue[1] /\ DOMAIN queue = 1 .. Len(queue)
      /\ Listed(queue') /\ DOMAIN queue' = 1 .. Len(queue) - 1
      /\ \A i \in 1 .. Len(queue) - 1 : queue'[i] = queue[i + 1]
  <2>1. /\ Len(queue) \in Nat \ {0} /\ Head(queue) = queue[1]
        /\ Listed(queue') /\ Len(queue') = Len(queue) - 1
        /\ \A i \in 1 .. Len(queue) - 1 : queue'[i] = queue[i + 1]
    BY <1>1, Taken
  <2> QED BY <1>1, <2>1, ListPlaces
<1>3. PICK q : q = queue[1]
  OBVIOUS
<1>4. /\ q.call \in DOMAIN call /\ q.reply \in 0 .. Len(call)
      /\ q = Request(StubOf[call[q.call].stub], menu.first, q.call, q.reply)
      /\ \A j \in DOMAIN ran : ran[j].call # q.call
      /\ \A i, j \in DOMAIN queue : queue[i].call = queue[j].call => i = j
  BY <1>2, <1>3 DEF RequestsInv
<1>5. PICK s, k, r : s = StubOf[call[q.call].stub] /\ k = q.call /\ r = q.reply
  OBVIOUS
<1>6. WellFormed(s.request, s.ins)
  BY <1>4, <1>5, MenuOffers, StubsAreSound
<1>7. m = Deliver(Request(s, menu.first, k, r))
  BY <1>2, <1>3, <1>4, <1>5 DEF Incoming
<1>8. m.call = k /\ m.reply = r /\ Carries(m, s.request, s.ins, menu.first, k, "in")
  BY <1>6, <1>7, RequestArrives
<1>9. \A h \in Contents(m) : h[2][1] = k
  BY <1>6, <1>8, ContentsOfCall
<1>10. Flying(k, r)
  BY <1>2, <1>3, <1>5 DEF Flying
<1>11. \A i \in DOMAIN queue' : /\ i + 1 \in DOMAIN queue /\ queue'[i] = queue[i + 1]
                                /\ queue'[i].call # k
  BY <1>2, <1>3, <1>4, <1>5
<1>12. \A i, j \in DOMAIN queue' : queue'[i].call = queue'[j].call => i = j
  <2>1. ASSUME NEW i \in DOMAIN queue', NEW j \in DOMAIN queue', queue'[i].call = queue'[j].call
        PROVE  i = j
    <3>1. i + 1 = j + 1
      BY <1>4, <1>11, <2>1
    <3> QED BY <1>2, <3>1
  <2> QED BY <2>1
<1> QED BY <1>2, <1>4, <1>5, <1>7, <1>8, <1>9, <1>10, <1>11, <1>12

\* A request that is not understood.
LEMMA RefuseKeeps ==
  ASSUME IInv, Refuse
  PROVE  IInv'
<1>1. /\ CallsInv /\ PortsInv /\ RequestsInv /\ ServingInv /\ RanInv
      /\ TrafficInv /\ InboxInv /\ HeapInv /\ ErrorsAreTrue /\ ResultsArrive
  BY DEF IInv
<1>2. PICK m, code : m = Incoming /\ code = Verdict(menu.server, m)
  OBVIOUS
<1>3. /\ Dequeue /\ code # "OK" /\ UNCHANGED <<menu, call, port, inbox, alive, twice, ran, held>>
      /\ serving = Nothing /\ heap' = heap \union Contents(m)
      /\ serving' = [stage |-> "reply", msg |-> m, left |-> Contents(m),
                     reply |-> ErrorReply(m, code)]
  BY <1>2 DEF Refuse, Dequeue
<1>4. /\ serving'.stage = "reply" /\ serving'.msg = m /\ serving'.left = Contents(m)
      /\ serving'.reply = ErrorReply(m, code)
  BY <1>3
<1>5. /\ m.call \in DOMAIN call /\ m.reply \in 0 .. Len(call)
      /\ m = Deliver(Request(StubOf[call[m.call].stub], menu.first, m.call, m.reply))
      /\ Flying(m.call, m.reply)
      /\ Listed(queue')
      /\ \A i \in DOMAIN queue' : /\ i + 1 \in DOMAIN queue /\ queue'[i] = queue[i + 1]
                                  /\ queue'[i].call # m.call
      /\ \A i, j \in DOMAIN queue' : queue'[i].call = queue'[j].call => i = j
  BY <1>1, <1>2, <1>3, RequestTaken
<1>6. CallsInv' /\ PortsInv' /\ KeepsCalls
  BY <1>1, <1>3, ClientsStay
<1>7. RanInv' /\ KeepsRuns
  BY <1>1, <1>3, <1>6, RunsStay
<1>8. RequestsInv'
  BY <1>1, <1>3, <1>5 DEF RequestsInv
<1>9. ServingInv'
  <2>1. Refusal(menu.server, m, serving'.reply)
    BY <1>2, <1>3, <1>4 DEF Refusal
  <2> QED BY <1>3, <1>4, <1>5, <2>1 DEF ServingInv
<1>10. TrafficInv' /\ InboxInv'
  <2>1. \A k, p : Flying(k, p)' => Flying(k, p)
    BY <1>4, <1>5 DEF Flying
  <2> QED BY <1>1, <1>3, <1>6, <1>7, <2>1, MailStays
<1>11. HeapInv'
  <2>1. serving'.reply.ret = code
    BY <1>4 DEF ErrorReply
  <2>2. \A h \in heap : h[1] \in {"rights", "buffer"} \/ (h[1] = "right" /\ RanOk(h[2][1])')
    BY <1>1, <1>3, <1>7, RunsAreKnown DEF HeapInv
  <2>3. serving' # Nothing
    BY <1>4 DEF Nothing
  <2>4. \A h \in held' : h[2][1] \in DOMAIN call' /\ Over(h[2][1])' /\ call'[h[2][1]].code = "OK"
    BY <1>1, <1>3 DEF HeapInv, Over
  <2> QED BY <1>1, <1>3, <1>4, <2>1, <2>2, <2>3, <2>4 DEF HeapInv
<1>12. ErrorsAreTrue' /\ ResultsArrive'
  BY <1>1, <1>3, <1>6, <1>7, TalesOfClients
<1> QED BY <1>6, <1>7, <1>8, <1>9, <1>10, <1>11, <1>12 DEF IInv

\* A request that passed, and its handler.
LEMMA InvokeKeeps ==
  ASSUME IInv, Invoke
  PROVE  IInv'
<1>1. /\ CallsInv /\ PortsInv /\ RequestsInv /\ ServingInv /\ RanInv
      /\ TrafficInv /\ InboxInv /\ HeapInv /\ ErrorsAreTrue /\ ResultsArrive
  BY DEF IInv
<1>2. PICK m, x : m = Incoming /\ x = Demux[menu.server].table[m.id]
  OBVIOUS
<1>3. PICK e : e = [call |-> m.call, routine |-> <<menu.server, x.name>>, ret |-> "",
                    args |-> Given(x, m), first |-> 0]
  OBVIOUS
<1>4. /\ Dequeue /\ Verdict(menu.server, m) = "OK"
      /\ UNCHANGED <<menu, call, port, inbox, alive, twice, held>>
      /\ serving = Nothing /\ heap' = heap \union Contents(m)
      /\ serving' = [stage |-> "handler", msg |-> m, left |-> Contents(m)]
      /\ ran' = Append(ran, e)
  BY <1>2, <1>3 DEF Invoke, Dequeue, Routines, Given
<1>5. serving'.stage = "handler" /\ serving'.msg = m /\ serving'.left = Contents(m)
  BY <1>4
<1>6. /\ m.call \in DOMAIN call /\ m.reply \in 0 .. Len(call)
      /\ m = Deliver(Request(StubOf[call[m.call].stub], menu.first, m.call, m.reply))
      /\ Flying(m.call, m.reply) /\ \A j \in DOMAIN ran : ran[j].call # m.call
      /\ Listed(queue')
      /\ \A i \in DOMAIN queue' : /\ i + 1 \in DOMAIN queue /\ queue'[i] = queue[i + 1]
                                  /\ queue'[i].call # m.call
      /\ \A i, j \in DOMAIN queue' : queue'[i].call = queue'[j].call => i = j
  BY <1>1, <1>2, <1>4, RequestTaken
<1>7. CallsInv' /\ PortsInv' /\ KeepsCalls
  BY <1>1, <1>4, ClientsStay
<1>8. /\ DOMAIN e = {"call", "routine", "ret", "args", "first"} /\ e.call = m.call
      /\ e.routine = <<menu.server, x.name>> /\ e.ret = "" /\ e.first = 0
      /\ e.args = Given(x, m)
  BY <1>3
<1>9. PICK n : n = Len(ran) + 1
  OBVIOUS
<1>10. /\ n \in Nat \ {0} /\ Listed(ran') /\ Len(ran') = n /\ ran'[n] = e
       /\ DOMAIN ran' = DOMAIN ran \union {n} /\ \A i \in DOMAIN ran : ran'[i] = ran[i]
  <2>1. Listed(ran) /\ Len(ran) \in Nat /\ DOMAIN ran = 1 .. Len(ran)
    BY <1>1, ListPlaces DEF RanInv
  <2>2. /\ Listed(ran') /\ Len(ran') = n /\ ran'[n] = e
        /\ \A i \in 1 .. Len(ran) : ran'[i] = ran[i]
    BY <1>4, <1>9, <2>1, Appended
  <2>3. DOMAIN ran' = 1 .. n
    BY <2>2, ListPlaces
  <2> QED BY <1>9, <2>1, <2>2, <2>3
<1>11. KeepsRuns
  BY <1>10 DEF KeepsRuns
<1>12. RanInv'
  <2>1. \A i \in DOMAIN ran' :
          /\ DOMAIN ran'[i] = {"call", "routine", "ret", "args", "first"}
          /\ ran'[i].call \in DOMAIN call'
          /\ ran'[i].ret \in {"", "OK", "FAILURE"} /\ ran'[i].first \in Nat
          /\ ran'[i].ret = "" => ran'[i].first = 0
    <3>1. \A i \in DOMAIN ran :
            /\ DOMAIN ran[i] = {"call", "routine", "ret", "args", "first"}
            /\ ran[i].call \in DOMAIN call
            /\ ran[i].ret \in {"", "OK", "FAILURE"} /\ ran[i].first \in Nat
            /\ ran[i].ret = "" => ran[i].first = 0
      BY <1>1 DEF RanInv
    <3>2. ASSUME NEW i \in DOMAIN ran'
          PROVE  /\ DOMAIN ran'[i] = {"call", "routine", "ret", "args", "first"}
                 /\ ran'[i].call \in DOMAIN call
                 /\ ran'[i].ret \in {"", "OK", "FAILURE"} /\ ran'[i].first \in Nat
                 /\ ran'[i].ret = "" => ran'[i].first = 0
      <4>1. m.call \in DOMAIN call
        BY <1>6
      <4>2. CASE i \in DOMAIN ran
        BY <1>10, <3>1, <4>2
      <4>3. CASE i = n
        <5>1. ran'[i] = e
          BY <1>10, <4>3
        <5>2. ran'[i].call \in DOMAIN call
          BY <1>8, <4>1, <5>1
        <5>3. ran'[i].ret = "" /\ ran'[i].first = 0
          BY <1>8, <5>1
        <5>4. DOMAIN ran'[i] = {"call", "routine", "ret", "args", "first"}
          BY <1>8, <5>1
        <5>5. 0 \in Nat
          OBVIOUS
        <5> QED BY <5>2, <5>3, <5>4, <5>5
      <4> QED BY <1>10, <4>2, <4>3
    <3> QED BY <1>4, <3>2
  <2>2. \A i, j \in DOMAIN ran' : ran'[i].call = ran'[j].call => i = j
    <3>1. \A i, j \in DOMAIN ran : ran[i].call = ran[j].call => i = j
      BY <1>1 DEF RanInv
    <3>2. \A i \in DOMAIN ran : ran[i].call # e.call
      BY <1>6, <1>8
    <3>3. /\ ran'[n] = e /\ DOMAIN ran' = DOMAIN ran \union {n}
          /\ \A i \in DOMAIN ran : ran'[i] = ran[i]
      BY <1>10
    <3> QED BY <3>1, <3>2, <3>3
  <2>3. /\ e.routine = call[m.call].stub
        /\ e.args = Meant(StubOf[call[m.call].stub].request, StubOf[call[m.call].stub].ins,
                          menu.first, m.call, "in")
    <3>1. PICK p, k, r : p = call[m.call].stub /\ k = m.call /\ r = m.reply
      OBVIOUS
    <3>2. m = Deliver(Request(StubOf[p], menu.first, k, r)) /\ p \in StubIds
      BY <1>1, <1>6, <3>1, MenuOffers
    <3>3. PICK server, first : server = menu.server /\ first = menu.first
      OBVIOUS
    <3>4. server \in Interfaces /\ first \in Nat
      BY <1>1, <3>3, MenuOffers
    <3>5. /\ m = Deliver(Request(StubOf[p], first, k, r)) /\ x = Demux[server].table[m.id]
          /\ Verdict(server, m) = "OK"
      BY <1>2, <1>4, <3>2, <3>3
    <3>6. /\ <<server, x.name>> = p
          /\ Given(x, m) = Meant(StubOf[p].request, StubOf[p].ins, first, k, "in")
      BY <3>2, <3>4, <3>5, HandlersAreGiven
    <3> QED BY <1>8, <3>1, <3>3, <3>6
  <2>4. ArgumentsArrive'
    <3>1. ASSUME NEW i \in DOMAIN ran'
          PROVE  /\ ran'[i].routine = call[ran'[i].call].stub
                 /\ ran'[i].args = Meant(StubOf[call[ran'[i].call].stub].request,
                                         StubOf[call[ran'[i].call].stub].ins,
                                         menu.first, ran'[i].call, "in")
      <4>1. CASE i \in DOMAIN ran
        BY <1>1, <1>10, <4>1 DEF RanInv, ArgumentsArrive
      <4>2. CASE i = n
        BY <1>8, <1>10, <2>3, <4>2
      <4> QED BY <1>10, <4>1, <4>2
    <3> QED BY <1>4, <3>1 DEF ArgumentsArrive
  <2> QED BY <1>10, <2>1, <2>2, <2>4 DEF RanInv
<1>13. RequestsInv'
  <2>1. ASSUME NEW i \in DOMAIN queue', NEW j \in DOMAIN ran' PROVE ran'[j].call # queue'[i].call
    <3>1. i + 1 \in DOMAIN queue /\ queue'[i] = queue[i + 1] /\ queue'[i].call # m.call
      BY <1>6
    <3>2. \A l \in DOMAIN ran : ran[l].call # queue[i + 1].call
      BY <1>1, <3>1 DEF RequestsInv
    <3> QED BY <1>8, <1>10, <3>1, <3>2
  <2> QED BY <1>1, <1>4, <1>6, <2>1 DEF RequestsInv
<1>14. ServingInv'
  <2>1. ran' # <<>> /\ ran'[Len(ran')].call = m.call /\ ran'[Len(ran')].ret = ""
    BY <1>8, <1>10
  <2> QED BY <1>4, <1>5, <1>6, <2>1 DEF ServingInv
<1>15. TrafficInv' /\ InboxInv'
  <2>1. \A k, p : Flying(k, p)' => Flying(k, p)
    BY <1>5, <1>6 DEF Flying
  <2> QED BY <1>1, <1>4, <1>7, <1>11, <2>1, MailStays
<1>16. HeapInv'
  <2>1. \A h \in heap : h[1] \in {"rights", "buffer"} \/ (h[1] = "right" /\ RanOk(h[2][1])')
    BY <1>1, <1>4, <1>11, RunsAreKnown DEF HeapInv
  <2>2. serving' # Nothing
    BY <1>5 DEF Nothing
  <2>3. \A h \in held' : h[2][1] \in DOMAIN call' /\ Over(h[2][1])' /\ call'[h[2][1]].code = "OK"
    BY <1>1, <1>4 DEF HeapInv, Over
  <2> QED BY <1>1, <1>4, <1>5, <2>1, <2>2, <2>3 DEF HeapInv
<1>17. ErrorsAreTrue' /\ ResultsArrive'
  BY <1>1, <1>4, <1>7, <1>11, TalesOfClients
<1> QED BY <1>7, <1>12, <1>13, <1>14, <1>15, <1>16, <1>17 DEF IInv

\* What came with the message m came with the call k.
AllOf(m, k) == \A h \in Contents(m) : h[2][1] = k

\* What the server works on, and the routine for it.
LEMMA ServedIs ==
  ASSUME NEW p \in StubIds, NEW server \in Interfaces, NEW first \in Nat, NEW k, NEW pt, NEW q, NEW x,
         q = Deliver(Request(StubOf[p], first, k, pt)), x = Demux[server].table[q.id],
         Verdict(server, q) = "OK"
  PROVE  /\ WellFormed(x.request, x.args) /\ Range(x.frees) = Arrays(x.request)
         /\ TypesAgree(x.request, q) /\ DOMAIN q.desc = DOMAIN x.request.desc
         /\ AllOf(q, k)
<1>1. server = p[1] /\ q.id \in DOMAIN Demux[server].table /\ TypesAgree(x.request, q)
  BY Verdicts
<1>2. WellFormed(x.request, x.args) /\ Range(x.frees) = Arrays(x.request)
  BY <1>1, RoutinesAreSound
<1>3. PICK s : s = StubOf[p]
  OBVIOUS
<1>4. WellFormed(s.request, s.ins)
  BY <1>3, StubsAreSound
<1>5. q.id = s.request.id /\ Carries(q, s.request, s.ins, first, k, "in")
  BY <1>3, <1>4, RequestArrives
<1>6. Passes(s.request, x.request)
  BY <1>1, <1>3, <1>5, StubsAgree
<1>7. DOMAIN q.desc = DOMAIN x.request.desc
  BY <1>2, <1>4, <1>5, <1>6 DEF WellFormed, IsList, Passes, Carries
<1>8. AllOf(q, k)
  BY <1>4, <1>5, ContentsOfCall DEF AllOf
<1> QED BY <1>1, <1>2, <1>7, <1>8

\* A handler that is back.
LEMMA HandlerReturnsKeeps ==
  ASSUME IInv, HandlerReturns
  PROVE  IInv'
<1>1. /\ CallsInv /\ PortsInv /\ RequestsInv /\ ServingInv /\ RanInv
      /\ TrafficInv /\ InboxInv /\ HeapInv /\ ErrorsAreTrue /\ ResultsArrive
  BY DEF IInv
<1>2. PICK m, x : m = serving.msg /\ x = Demux[menu.server].table[m.id]
  OBVIOUS
<1>3. PICK o \in Outcomes(x), way \in Ways(<<menu.server, x.name>>) :
        /\ serving' = [stage |-> "reply", msg |-> m, left |-> serving.left \ Forgotten(x, m),
                       reply |-> Reply(x, m, o, way)]
        /\ heap' = (heap \ Freed(x, m)) \union
                     IF o.ret = "OK" /\ <<menu.server, x.name>> \in Allocates THEN Buffers(x, m) ELSE {}
        /\ twice' = twice \union (Freed(x, m) \ heap)
        /\ ran' = [ran EXCEPT ![Len(ran)].ret = o.ret, ![Len(ran)].first = o.count]
  BY <1>2 DEF HandlerReturns, Serving, Routines
<1>4. serving.stage = "handler" /\ UNCHANGED <<menu, call, port, inbox, queue, alive, held>>
  BY DEF HandlerReturns
<1>5. /\ serving'.stage = "reply" /\ serving'.msg = m /\ serving'.left = serving.left \ Forgotten(x, m)
      /\ serving'.reply = Reply(x, m, o, way)
  BY <1>3
<1>6. serving # Nothing /\ serving' # Nothing
  BY <1>4, <1>5 DEF Nothing
<1>7. /\ m.call \in DOMAIN call /\ m.reply \in 0 .. Len(call)
      /\ m = Deliver(Request(StubOf[call[m.call].stub], menu.first, m.call, m.reply))
      /\ \A i \in DOMAIN queue : queue[i].call # m.call
      /\ ran # <<>> /\ ran[Len(ran)].call = m.call /\ ran[Len(ran)].ret = ""
      /\ serving.left = Contents(m) /\ Verdict(menu.server, m) = "OK"
  BY <1>1, <1>2, <1>4, <1>6 DEF ServingInv
<1>8. o.ret \in {"OK", "FAILURE"} /\ o.count \in Nat
  BY OutcomeTypes
<1>9. PICK n, old : n = Len(ran) /\ old = ran[n]
  OBVIOUS
<1>10. PICK r : r = [old EXCEPT !.ret = o.ret, !.first = o.count]
  OBVIOUS
<1>11. /\ Listed(ran) /\ n \in Nat /\ DOMAIN ran = 1 .. n /\ n \in DOMAIN ran
  <2>1. Listed(ran) /\ n \in Nat /\ DOMAIN ran = 1 .. n
    BY <1>1, <1>9, ListPlaces DEF RanInv
  <2>2. n # 0
    BY <1>7, <1>9, <2>1, Taken
  <2> QED BY <2>1, <2>2
<1>12. old.call = m.call /\ old.ret = "" /\ DOMAIN old = {"call", "routine", "ret", "args", "first"}
  BY <1>1, <1>7, <1>9, <1>11 DEF RanInv
<1>13. /\ DOMAIN r = {"call", "routine", "ret", "args", "first"}
       /\ r.call = old.call /\ r.routine = old.routine /\ r.args = old.args
       /\ r.ret = o.ret /\ r.first = o.count
  BY <1>10, <1>12
<1>14. /\ Listed(ran') /\ Len(ran') = n /\ ran'[n] = r /\ DOMAIN ran' = DOMAIN ran
       /\ \A i \in DOMAIN ran : i # n => ran'[i] = ran[i]
  <2>1. ran' = [ran EXCEPT ![n] = r]
    BY <1>3, <1>9, <1>10, <1>11
  <2>2. n \in 1 .. Len(ran)
    BY <1>9, <1>11
  <2>3. /\ Listed([ran EXCEPT ![n] = r]) /\ Len([ran EXCEPT ![n] = r]) = Len(ran)
        /\ [ran EXCEPT ![n] = r][n] = r
        /\ \A i \in 1 .. Len(ran) : i # n => [ran EXCEPT ![n] = r][i] = ran[i]
    <3>1. Listed(ran)
      BY <1>11
    <3> QED BY <2>2, <3>1, Updated
  <2> QED BY <1>9, <1>11, <2>1, <2>3
<1>15. CallsInv' /\ PortsInv' /\ KeepsCalls
  BY <1>1, <1>4, ClientsStay
<1>16. \A i \in DOMAIN ran : ran'[i].call = ran[i].call /\ (ran[i].ret # "" => ran'[i] = ran[i])
  BY <1>9, <1>12, <1>13, <1>14
<1>17. KeepsRuns
  BY <1>14, <1>16 DEF KeepsRuns
<1>18. RanInv'
  <2>1. ASSUME NEW i \in DOMAIN ran'
        PROVE  /\ DOMAIN ran'[i] = {"call", "routine", "ret", "args", "first"}
               /\ ran'[i].call \in DOMAIN call
               /\ ran'[i].ret \in {"", "OK", "FAILURE"} /\ ran'[i].first \in Nat
               /\ ran'[i].ret = "" => ran'[i].first = 0
    <3>1. CASE i # n
      BY <1>1, <1>14, <3>1 DEF RanInv
    <3>2. CASE i = n
      <4>1. ran'[i] = r /\ m.call \in DOMAIN call
        BY <1>7, <1>14, <3>2
      <4> QED BY <1>8, <1>12, <1>13, <4>1
    <3> QED BY <3>1, <3>2
  <2>2. \A i, j \in DOMAIN ran' : ran'[i].call = ran'[j].call => i = j
    <3>1. \A i, j \in DOMAIN ran : ran[i].call = ran[j].call => i = j
      BY <1>1 DEF RanInv
    <3> QED BY <1>14, <1>16, <3>1
  <2>3. ArgumentsArrive'
    <3>1. \A i \in DOMAIN ran : ran'[i].routine = ran[i].routine /\ ran'[i].args = ran[i].args
      BY <1>9, <1>13, <1>14
    <3> QED BY <1>1, <1>4, <1>14, <1>16, <3>1 DEF RanInv, ArgumentsArrive
  <2> QED BY <1>4, <1>14, <2>1, <2>2, <2>3 DEF RanInv
<1>19. RequestsInv'
  <2>1. \A j \in DOMAIN ran', i \in DOMAIN queue : ran'[j].call # queue[i].call
    BY <1>1, <1>14, <1>16 DEF RequestsInv
  <2> QED BY <1>1, <1>4, <2>1 DEF RequestsInv
<1>20. ServingInv'
  <2>1. \/ Refusal(menu.server, m, serving'.reply)
        \/ \E i \in DOMAIN ran' : /\ ran'[i].call = m.call /\ ran'[i].ret = "OK"
                                  /\ Success(menu.server, m, ran'[i].first, serving'.reply)
    <3>1. CASE o.ret = "OK"
      <4>1. serving'.reply = Outcome(x, m, o.count, way)
        BY <1>5, <3>1 DEF Reply
      <4>2. Success(menu.server, m, r.first, serving'.reply)
        BY <1>2, <1>7, <1>13, <4>1 DEF Success
      <4> QED BY <1>11, <1>12, <1>13, <1>14, <3>1, <4>2
    <3>2. CASE o.ret = "FAILURE"
      <4>1. serving'.reply = ErrorReply(m, "FAILURE")
        BY <1>5, <3>2 DEF Reply
      <4> QED BY <4>1 DEF Refusal
    <3> QED BY <1>8, <3>1, <3>2
  <2> QED BY <1>4, <1>5, <1>7, <2>1 DEF ServingInv
<1>21. TrafficInv' /\ InboxInv'
  <2>1. \A k, p : Flying(k, p)' => Flying(k, p)
    BY <1>2, <1>4, <1>5, <1>6 DEF Flying
  <2> QED BY <1>1, <1>4, <1>15, <1>17, <2>1, MailStays
<1>22. /\ Freed(x, m) \subseteq Forgotten(x, m) /\ Freed(x, m) \subseteq Contents(m)
       /\ \A h \in Contents(m) \ Forgotten(x, m) : h[1] = "right"
       /\ \A h \in Forgotten(x, m) \ Freed(x, m) : h[1] = "rights"
       /\ \A h \in Contents(m) : h[2][1] = m.call
  <2>1. PICK p, k, q, server, first : /\ p = call[m.call].stub /\ k = m.call /\ q = m.reply
                                      /\ server = menu.server /\ first = menu.first
    OBVIOUS
  <2>2. p \in StubIds /\ server \in Interfaces /\ first \in Nat
    BY <1>1, <1>7, <2>1, MenuOffers
  <2>3. /\ m = Deliver(Request(StubOf[p], first, k, q)) /\ x = Demux[server].table[m.id]
        /\ Verdict(server, m) = "OK"
    BY <1>2, <1>7, <2>1
  <2>4. /\ WellFormed(x.request, x.args) /\ Range(x.frees) = Arrays(x.request)
        /\ TypesAgree(x.request, m) /\ DOMAIN m.desc = DOMAIN x.request.desc
        /\ AllOf(m, k)
    BY <2>2, <2>3, ServedIs
  <2> QED BY <2>1, <2>4, FreedIsReceived DEF AllOf
<1>23. HeapInv'
  <2>1. serving.left \subseteq heap /\ twice = {}
    BY <1>1, <1>6 DEF HeapInv
  <2>2. twice' = {}
    BY <1>3, <1>7, <1>22, <2>1
  <2>3. serving'.left \subseteq heap'
    BY <1>3, <1>5, <1>7, <1>22, <2>1
  <2>4. ASSUME NEW h \in heap'
        PROVE  \/ h[1] \in {"rights", "buffer"}
               \/ h[1] = "right" /\ RanOk(h[2][1])'
               \/ h \in serving'.left
    <3>1. CASE h \in heap /\ h \notin Freed(x, m)
      <4>1. \/ h[1] \in {"rights", "buffer"}
            \/ h[1] = "right" /\ RanOk(h[2][1])
            \/ h \in serving.left
        BY <1>1, <3>1 DEF HeapInv
      <4>2. h \in serving.left /\ h \notin serving'.left => h[1] = "rights"
        BY <1>5, <1>22, <3>1
      <4> QED BY <1>17, <4>1, <4>2, RunsAreKnown
    <3>2. CASE h \in Buffers(x, m)
      BY <3>2 DEF Buffers
    <3> QED BY <1>3, <2>4, <3>1, <3>2
  <2>5. ASSUME serving'.reply.ret = "OK", NEW h \in serving'.left
        PROVE  h[1] = "right" /\ RanOk(h[2][1])'
    <3>1. o.ret = "OK"
      BY <1>5, <2>5 DEF Reply, ErrorReply
    <3>2. h[1] = "right" /\ h[2][1] = m.call
      BY <1>5, <1>7, <1>22, <2>5
    <3>3. PICK k : k = m.call
      OBVIOUS
    <3>4. n \in Ran(k)' /\ ran'[n].ret = "OK"
      BY <1>11, <1>12, <1>13, <1>14, <3>1, <3>3 DEF Ran
    <3>5. RanOk(k)'
      BY <3>4 DEF RanOk
    <3>6. h[2][1] = k
      BY <3>2, <3>3
    <3> QED BY <3>2, <3>5, <3>6
  <2>6. \A h \in held' : h[2][1] \in DOMAIN call' /\ Over(h[2][1])' /\ call'[h[2][1]].code = "OK"
    BY <1>1, <1>4 DEF HeapInv, Over
  <2>7. \A h \in heap' : \/ h[1] \in {"rights", "buffer"}
                         \/ h[1] = "right" /\ RanOk(h[2][1])'
                         \/ serving' # Nothing /\ h \in serving'.left
    BY <1>6, <2>4
  <2> QED BY <2>2, <2>3, <2>5, <2>6, <2>7 DEF HeapInv
<1>24. ErrorsAreTrue' /\ ResultsArrive'
  BY <1>1, <1>4, <1>15, <1>17, TalesOfClients
<1> QED BY <1>15, <1>18, <1>19, <1>20, <1>21, <1>23, <1>24 DEF IInv

\* A notification is one however it is sent.
LEMMA NotificationIs ==
  Notification(SendOnceNotification) /\ Notification(Deliver(SendOnceNotification))
<1> DEFINE o == SendOnceNotification
<1>1. PICK z : z = SizeOf(Shape(<<>>, <<>>))
  OBVIOUS
<1>2. o = [id |-> MACH_NOTIFY_SEND_ONCE, size |-> z, desc |-> <<>>, inline |-> <<>>, ret |-> "OK"]
  BY <1>1 DEF SendOnceNotification
<1> HIDE DEF o
<1>3. PICK d : d = [i \in DOMAIN o.desc |-> [o.desc[i] EXCEPT !.disp = Carried(@)]]
  OBVIOUS
<1>4. Deliver(o) = [o EXCEPT !.desc = d]
  BY <1>3, Zenon DEF Deliver
<1>5. Deliver(o).id = MACH_NOTIFY_SEND_ONCE /\ Deliver(o).size = z
  BY <1>2, <1>4
<1> QED BY <1>1, <1>2, <1>5 DEF Notification, o

\* What the server sends when it is done with the request of a call that waits
\* answers that call.
LEMMA AnswerArrives ==
  ASSUME CallsInv, ServingInv, RanInv, serving # Nothing, serving.stage = "reply",
         NEW k, k = serving.msg.call, call[k].state = "sent"
  PROVE  MessageFor(k, Deliver(IF Sendable(serving.reply) THEN serving.reply
                               ELSE SendOnceNotification))
<1>1. PICK m, a : m = serving.msg /\ a = serving.reply
  OBVIOUS
<1>2. PICK p, server, first, q : /\ p = call[k].stub /\ server = menu.server
                                 /\ first = menu.first /\ q = m.reply
  OBVIOUS
<1>3. /\ k \in DOMAIN call /\ m = Deliver(Request(StubOf[p], first, k, q))
      /\ \/ Refusal(server, m, a)
         \/ \E i \in DOMAIN ran : /\ ran[i].call = k /\ ran[i].ret = "OK"
                                  /\ Success(server, m, ran[i].first, a)
  BY <1>1, <1>2 DEF ServingInv
<1>4. p \in StubIds /\ server \in Interfaces /\ first \in Nat /\ StubOf[p].reply # NoReply
  BY <1>2, <1>3, MenuOffers DEF CallsInv
<1>5. CASE Refusal(server, m, a)
  <2>1. PICK code \in {"FAILURE", Verdict(server, m)} : code # "OK" /\ a = ErrorReply(m, code)
    BY <1>5 DEF Refusal
  <2>2. Sendable(a) /\ ErrorFor(Deliver(a), p, server, first)
    BY <1>3, <1>4, <2>1, ErrorIsSent
  <2> QED BY <1>1, <1>2, <2>2 DEF MessageFor
<1>6. ASSUME NEW i \in DOMAIN ran, ran[i].call = k, ran[i].ret = "OK",
             Success(server, m, ran[i].first, a)
      PROVE  MessageFor(k, Deliver(IF Sendable(a) THEN a ELSE SendOnceNotification))
  <2>1. PICK n : n = ran[i].first
    OBVIOUS
  <2>2. PICK way \in Ways(<<server, Demux[server].table[m.id].name>>) :
          Verdict(server, m) = "OK" /\ a = Outcome(Demux[server].table[m.id], m, n, way)
    BY <1>6, <2>1 DEF Success
  <2>3. /\ Sendable(a) => ResultFor(Deliver(a), p, k, n)
        /\ ~Sendable(a) => p \in ReturnsSlot
    BY <1>3, <1>4, <2>2, ResultIsSent
  <2>4. RanOk(k)
    BY <1>6 DEF RanOk, Ran
  <2>5. CASE Sendable(a)
    BY <1>2, <1>6, <2>1, <2>3, <2>5 DEF MessageFor
  <2>6. CASE ~Sendable(a)
    BY <1>2, <2>3, <2>4, <2>6, NotificationIs DEF MessageFor
  <2> QED BY <2>5, <2>6
<1> QED BY <1>1, <1>3, <1>5, <1>6

\* A reply that is sent, or cannot be.
LEMMA SendReplyKeeps ==
  ASSUME IInv, SendReply
  PROVE  IInv'
<1>1. /\ CallsInv /\ PortsInv /\ RequestsInv /\ ServingInv /\ RanInv
      /\ TrafficInv /\ InboxInv /\ HeapInv /\ ErrorsAreTrue /\ ResultsArrive
  BY DEF IInv
<1>2. PICK k, q, out : /\ k = serving.msg.call /\ q = serving.msg.reply
                       /\ out = IF Sendable(serving.reply) THEN serving.reply
                                ELSE SendOnceNotification
  OBVIOUS
<1>3. /\ serving.stage = "reply" /\ serving' = Nothing
      /\ inbox' = Post(q, out)
      /\ UNCHANGED <<menu, call, port, queue, alive, ran, held>>
  BY <1>2 DEF SendReply
<1>4. PICK left : /\ left = IF serving.reply.ret = "OK" THEN {} ELSE serving.left
                  /\ heap' = heap \ left /\ twice' = twice \union (left \ heap)
  BY DEF SendReply
<1>5. serving # Nothing
  BY <1>3 DEF Nothing
<1>6. PICK r : r = Deliver(out)
  OBVIOUS
<1>7. /\ DOMAIN inbox' = DOMAIN inbox
      /\ \A p \in DOMAIN inbox : p # q => inbox'[p] = inbox[p]
      /\ q \in DOMAIN inbox => inbox'[q] = Append(inbox[q], r)
  BY <1>3, <1>6 DEF Post
<1>8. CallsInv' /\ PortsInv' /\ KeepsCalls
  BY <1>1, <1>3, <1>7, ClientsStay
<1>9. RanInv' /\ KeepsRuns
  BY <1>1, <1>3, <1>8, RunsStay
<1>10. RequestsInv'
  BY <1>1, <1>3, <1>8, ListPlaces, RequestsStay DEF CallsInv
<1>11. ServingInv'
  BY <1>3 DEF ServingInv
<1>12. ASSUME q \in DOMAIN inbox
       PROVE  Live(k, q) /\ inbox'[q] = <<r>> /\ MessageFor(k, r) /\ k \in DOMAIN call
  <2>1. k \in DOMAIN call /\ Flying(k, q)
    BY <1>1, <1>2, <1>5 DEF ServingInv, Flying
  <2>2. Live(k, q) /\ inbox[q] = <<>>
    BY <1>1, <1>12, <2>1 DEF TrafficInv
  <2>3. inbox'[q] = <<r>>
    BY <1>7, <1>12, <2>2
  <2>4. MessageFor(k, r)
    BY <1>1, <1>2, <1>3, <1>5, <1>6, <2>2, AnswerArrives DEF Live
  <2> QED BY <2>1, <2>2, <2>3, <2>4
<1>13. TrafficInv'
  <2>1. ASSUME NEW j \in DOMAIN call, NEW p \in DOMAIN inbox, Flying(j, p)'
        PROVE  Live(j, p)' /\ inbox'[p] = <<>>
    <3>1. Flying(j, p) /\ \E i \in DOMAIN queue : queue[i].call = j
      BY <1>3, <2>1 DEF Flying
    <3>2. Live(j, p) /\ inbox[p] = <<>>
      BY <1>1, <2>1, <3>1 DEF TrafficInv
    <3>3. j # k
      BY <1>1, <1>2, <1>5, <3>1 DEF ServingInv
    <3>4. p # q
      BY <1>1, <1>12, <2>1, <3>2, <3>3, LiveOnce
    <3> QED BY <1>3, <1>7, <2>1, <3>2, <3>4 DEF Live
  <2> QED BY <1>3, <1>7, <2>1 DEF TrafficInv
<1>14. InboxInv'
  <2>1. ASSUME NEW p \in DOMAIN inbox
        PROVE  \/ inbox'[p] = <<>>
               \/ \E j \in DOMAIN call' :
                    Live(j, p)' /\ inbox'[p] = <<inbox'[p][1]>> /\ MessageFor(j, inbox[p][1])'
    <3>1. CASE p = q
      <4>1. Live(k, p)' /\ k \in DOMAIN call'
        BY <1>3, <1>12, <2>1, <3>1 DEF Live
      <4>2. inbox'[p] = <<r>> /\ inbox'[p][1] = r
        BY <1>12, <2>1, <3>1
      <4>3. MessageFor(k, r)'
        BY <1>3, <1>8, <1>9, <1>12, <2>1, <3>1, MessageStays
      <4>4. MessageFor(k, inbox[p][1])'
        BY <4>2, <4>3 DEF MessageFor
      <4> QED BY <4>1, <4>2, <4>4
    <3>2. CASE p # q /\ inbox[p] # <<>>
      <4>1. PICK j \in DOMAIN call :
              Live(j, p) /\ inbox[p] = <<inbox[p][1]>> /\ MessageFor(j, inbox[p][1])
        BY <1>1, <2>1, <3>2 DEF InboxInv
      <4>2. inbox'[p] = inbox[p]
        BY <1>7, <2>1, <3>2
      <4>3. PICK o : o = inbox[p][1]
        OBVIOUS
      <4>4. MessageFor(j, o)'
        BY <1>3, <1>8, <1>9, <4>1, <4>3, MessageStays
      <4>5. Live(j, p)' /\ j \in DOMAIN call'
        BY <1>3, <4>1 DEF Live
      <4>6. MessageFor(j, inbox[p][1])'
        BY <4>2, <4>3, <4>4 DEF MessageFor
      <4> QED BY <4>1, <4>2, <4>5, <4>6
    <3>3. CASE p # q /\ inbox[p] = <<>>
      BY <1>7, <2>1, <3>3
    <3> QED BY <3>1, <3>2, <3>3
  <2> QED BY <1>7, <2>1 DEF InboxInv
<1>15. HeapInv'
  <2>1. serving.left \subseteq heap /\ twice = {}
    BY <1>1, <1>5 DEF HeapInv
  <2>2. twice' = {}
    BY <1>4, <2>1
  <2>3. ASSUME NEW h \in heap'
        PROVE  h[1] \in {"rights", "buffer"} \/ (h[1] = "right" /\ RanOk(h[2][1])')
    <3>1. \/ h[1] \in {"rights", "buffer"}
          \/ h[1] = "right" /\ RanOk(h[2][1])
          \/ h \in serving.left
      BY <1>1, <1>4, <2>3 DEF HeapInv
    <3>2. h \in serving.left => h[1] = "right" /\ RanOk(h[2][1])
      BY <1>1, <1>3, <1>4, <1>5, <2>3 DEF HeapInv
    <3> QED BY <1>9, <3>1, <3>2, RunsAreKnown
  <2>4. \A h \in held' : h[2][1] \in DOMAIN call' /\ Over(h[2][1])' /\ call'[h[2][1]].code = "OK"
    BY <1>1, <1>3 DEF HeapInv, Over
  <2> QED BY <1>3, <2>2, <2>3, <2>4 DEF HeapInv
<1>16. ErrorsAreTrue' /\ ResultsArrive'
  BY <1>1, <1>3, <1>8, <1>9, TalesOfClients
<1> QED BY <1>8, <1>9, <1>10, <1>11, <1>13, <1>14, <1>15, <1>16 DEF IInv

\* The server task ends.
LEMMA ServerDiesKeeps ==
  ASSUME IInv, ServerDies
  PROVE  IInv'
<1>1. /\ CallsInv /\ PortsInv /\ RequestsInv /\ ServingInv /\ RanInv
      /\ TrafficInv /\ InboxInv /\ HeapInv /\ ErrorsAreTrue /\ ResultsArrive
  BY DEF IInv
<1>2. PICK asked : /\ asked = {q.reply : q \in Range(queue)} \union
                                 IF serving = Nothing THEN {} ELSE {serving.msg.reply}
                   /\ inbox' = [p \in DOMAIN inbox |->
                        IF p \in asked THEN Append(inbox[p], SendOnceNotification) ELSE inbox[p]]
  BY DEF ServerDies
<1>3. /\ queue' = <<>> /\ serving' = Nothing /\ heap' = {} /\ alive' = FALSE
      /\ UNCHANGED <<menu, call, port, twice, ran, held>>
  BY DEF ServerDies
<1>4. PICK o : o = SendOnceNotification
  OBVIOUS
<1>5. /\ DOMAIN inbox' = DOMAIN inbox
      /\ \A p \in DOMAIN inbox : /\ p \in asked => inbox'[p] = Append(inbox[p], o)
                                 /\ p \notin asked => inbox'[p] = inbox[p]
  BY <1>2, <1>4
<1>6. CallsInv' /\ PortsInv' /\ KeepsCalls
  BY <1>1, <1>3, <1>5, ClientsStay
<1>7. RanInv' /\ KeepsRuns
  BY <1>1, <1>3, <1>6, RunsStay
<1>8. Listed(queue') /\ DOMAIN queue' = {}
  <2>1. <<>> \in Seq({})
    OBVIOUS
  <2> QED BY <1>3, <2>1 DEF Listed
<1>9. RequestsInv' /\ ServingInv'
  BY <1>3, <1>8 DEF RequestsInv, ServingInv
<1>10. ASSUME NEW p \in DOMAIN inbox, p \in asked
       PROVE  \E k \in DOMAIN call : Live(k, p) /\ inbox[p] = <<>>
  <2>1. PICK k : Flying(k, p)
    <3>1. CASE p \in {q.reply : q \in Range(queue)}
      BY <3>1 DEF Range, Flying
    <3>2. CASE serving # Nothing /\ p = serving.msg.reply
      BY <3>2 DEF Flying
    <3> QED BY <1>2, <1>10, <3>1, <3>2
  <2>2. k \in DOMAIN call
    BY <1>1, <2>1, FlyingIs
  <2> QED BY <1>1, <2>1, <2>2 DEF TrafficInv
<1>11. TrafficInv'
  BY <1>3, <1>8 DEF TrafficInv, Flying
<1>12. InboxInv'
  <2>1. ASSUME NEW p \in DOMAIN inbox
        PROVE  \/ inbox'[p] = <<>>
               \/ \E j \in DOMAIN call' :
                    Live(j, p)' /\ inbox'[p] = <<inbox'[p][1]>> /\ MessageFor(j, inbox[p][1])'
    <3>1. CASE p \in asked
      <4>1. PICK k \in DOMAIN call : Live(k, p) /\ inbox[p] = <<>>
        BY <1>10, <2>1, <3>1
      <4>2. inbox'[p] = <<o>> /\ inbox'[p][1] = o
        BY <1>5, <2>1, <3>1, <4>1
      <4>3. MessageFor(k, o)'
        BY <1>3, <1>4, NotificationIs DEF MessageFor
      <4>4. Live(k, p)' /\ k \in DOMAIN call'
        BY <1>3, <4>1 DEF Live
      <4>5. MessageFor(k, inbox[p][1])'
        BY <4>2, <4>3 DEF MessageFor
      <4> QED BY <4>2, <4>4, <4>5
    <3>2. CASE p \notin asked /\ inbox[p] # <<>>
      <4>1. PICK j \in DOMAIN call :
              Live(j, p) /\ inbox[p] = <<inbox[p][1]>> /\ MessageFor(j, inbox[p][1])
        BY <1>1, <2>1, <3>2 DEF InboxInv
      <4>2. inbox'[p] = inbox[p]
        BY <1>5, <2>1, <3>2
      <4>3. PICK z : z = inbox[p][1]
        OBVIOUS
      <4>4. MessageFor(j, z)'
        BY <1>3, <1>6, <1>7, <4>1, <4>3, MessageStays
      <4>5. Live(j, p)' /\ j \in DOMAIN call'
        BY <1>3, <4>1 DEF Live
      <4>6. MessageFor(j, inbox[p][1])'
        BY <4>2, <4>3, <4>4 DEF MessageFor
      <4> QED BY <4>1, <4>2, <4>5, <4>6
    <3>3. CASE p \notin asked /\ inbox[p] = <<>>
      BY <1>5, <2>1, <3>3
    <3> QED BY <3>1, <3>2, <3>3
  <2> QED BY <1>5, <2>1 DEF InboxInv
<1>13. HeapInv'
  <2>1. \A h \in held' : h[2][1] \in DOMAIN call' /\ Over(h[2][1])' /\ call'[h[2][1]].code = "OK"
    BY <1>1, <1>3 DEF HeapInv, Over
  <2> QED BY <1>1, <1>3, <2>1 DEF HeapInv
<1>14. ErrorsAreTrue' /\ ResultsArrive'
  BY <1>1, <1>3, <1>6, <1>7, TalesOfClients
<1> QED BY <1>6, <1>7, <1>9, <1>11, <1>12, <1>13, <1>14 DEF IInv

\* A step that changes nothing.
LEMMA StutterKeeps ==
  ASSUME IInv, UNCHANGED vars
  PROVE  IInv'
<1>1. /\ CallsInv /\ PortsInv /\ RequestsInv /\ ServingInv /\ RanInv
      /\ TrafficInv /\ InboxInv /\ HeapInv /\ ErrorsAreTrue /\ ResultsArrive
  BY DEF IInv
<1>2. UNCHANGED <<menu, call, port, inbox, queue, serving, alive, heap, twice, ran, held>>
  BY DEF vars
<1>3. CallsInv' /\ PortsInv' /\ KeepsCalls /\ Len(call') \in Nat
  BY <1>1, <1>2, ClientsStay
<1>4. RanInv' /\ KeepsRuns
  BY <1>1, <1>2, <1>3, RunsStay
<1>5. RequestsInv'
  BY <1>1, <1>2, <1>3, RequestsStay
<1>6. ServingInv'
  <2>1. serving # Nothing => \A i \in DOMAIN queue' : queue'[i].call # serving.msg.call
    BY <1>1, <1>2 DEF ServingInv
  <2> QED BY <1>1, <1>2, <1>3, <2>1, ServingStays
<1>7. TrafficInv' /\ InboxInv'
  <2>1. \A k, p : Flying(k, p)' => Flying(k, p)
    BY <1>2 DEF Flying
  <2> QED BY <1>1, <1>2, <1>3, <1>4, <2>1, MailStays
<1>8. HeapInv'
  BY <1>1, <1>2, <1>3, <1>4, HeapStays
<1>9. ErrorsAreTrue' /\ ResultsArrive'
  BY <1>1, <1>2, <1>3, <1>4, TalesOfClients
<1> QED BY <1>3, <1>4, <1>5, <1>6, <1>7, <1>8, <1>9 DEF IInv

\* Every step keeps the invariant.
LEMMA StepKeeps == IInv /\ [Next]_vars => IInv'
<1> SUFFICES ASSUME IInv, [Next]_vars PROVE IInv'
  OBVIOUS
<1>1. ASSUME NEW c \in Clients, Client(c) PROVE IInv'
  BY <1>1, SendKeeps, SendFailsKeeps, NotifyKeeps, ReceiveKeeps, ReceiveFailsKeeps DEF Client
<1>2. CASE Refuse
  BY <1>2, RefuseKeeps
<1>3. CASE Invoke
  BY <1>3, InvokeKeeps
<1>4. CASE HandlerReturns
  BY <1>4, HandlerReturnsKeeps
<1>5. CASE SendReply
  BY <1>5, SendReplyKeeps
<1>6. CASE ServerDies
  BY <1>6, ServerDiesKeeps
<1>7. CASE UNCHANGED vars
  BY <1>7, StutterKeeps
<1> QED BY <1>1, <1>2, <1>3, <1>4, <1>5, <1>6, <1>7 DEF Next

\* The invariant holds throughout.
LEMMA Invariant == Spec => []IInv
BY StartsWell, StepKeeps, PTL DEF Spec

-----------------------------------------------------------------------------
(* The theorems.                                                           *)

\* The server exists or does not.
LEMMA AliveOrDead == Spec => [](alive \in BOOLEAN)
<1>1. Init => alive \in BOOLEAN
  BY DEF Init
<1>2. alive \in BOOLEAN /\ [Next]_vars => (alive \in BOOLEAN)'
  <2> SUFFICES ASSUME alive \in BOOLEAN, [Next]_vars PROVE alive' \in BOOLEAN
    OBVIOUS
  <2>1. ASSUME NEW c \in Clients, Client(c) PROVE alive' = alive
    BY <2>1 DEF Client, Send, SendFails, Notify, Receive, ReceiveFails
  <2>2. CASE Refuse
    BY <2>2 DEF Refuse
  <2>3. CASE Invoke
    BY <2>3 DEF Invoke
  <2>4. CASE HandlerReturns
    BY <2>4 DEF HandlerReturns
  <2>5. CASE SendReply
    BY <2>5 DEF SendReply
  <2>6. CASE ServerDies
    BY <2>6 DEF ServerDies
  <2>7. CASE UNCHANGED vars
    BY <2>7 DEF vars
  <2> QED BY <2>1, <2>2, <2>3, <2>4, <2>5, <2>6, <2>7 DEF Next
<1> QED BY <1>1, <1>2, PTL DEF Spec

\* Type correctness: a thread waits in at most one call and a reply port never
\* holds more than one message, so no reply waits behind another one.
THEOREM TypeCorrect == Spec => []TypeOK
<1>1. IInv /\ alive \in BOOLEAN => TypeOK
  <2> SUFFICES ASSUME IInv, alive \in BOOLEAN PROVE TypeOK
    OBVIOUS
  <2>1. /\ CallsInv /\ PortsInv /\ ServingInv /\ RanInv /\ InboxInv
    BY DEF IInv
  <2>2. Len(call) \in Nat /\ MaxCalls \in Nat /\ Len(call) <= MaxCalls
    BY <2>1, MenuOffers, RpcAssumption DEF CallsInv
  <2>3. port \in [Clients -> 0 .. MaxCalls] /\ DOMAIN inbox \subseteq 1 .. MaxCalls
    BY <2>1, <2>2 DEF PortsInv
  <2>4. serving.stage \in {"none", "handler", "reply"}
    <3>1. Nothing.stage = "none"
      BY DEF Nothing
    <3>2. serving = Nothing => serving.stage = "none"
      BY <3>1
    <3>3. serving # Nothing => serving.stage \in {"handler", "reply"}
      BY <2>1 DEF ServingInv
    <3> QED BY <3>2, <3>3
  <2>5. ASSUME NEW p \in DOMAIN inbox PROVE Len(inbox[p]) <= 1
    <3>1. inbox[p] = <<>> \/ inbox[p] = <<inbox[p][1]>>
      BY <2>1 DEF InboxInv
    <3>2. PICK q, z : q = inbox[p] /\ z = inbox[p][1]
      OBVIOUS
    <3>3. q = <<>> => Len(q) = 0
      OBVIOUS
    <3>4. q = <<z>> => Len(q) = 1
      OBVIOUS
    <3> QED BY <3>1, <3>2, <3>3, <3>4
  <2> QED BY <2>1, <2>3, <2>4, <2>5 DEF TypeOK, CallsInv, RanInv
<1> QED BY <1>1, Invariant, AliveOrDead, PTL

\* Whatever the order in which replies, refusals and notifications arrive, the
\* code that the client stub hands out for a failed call is true.
THEOREM TrueErrors == Spec => []ErrorsAreTrue
<1>1. IInv => ErrorsAreTrue
  BY DEF IInv
<1> QED BY <1>1, Invariant, PTL

\* A handler runs for its own stub only and with the caller's arguments: no
\* request of one interface passes the check of a routine of another.
THEOREM OwnArguments == Spec => []ArgumentsArrive
<1>1. IInv => ArgumentsArrive
  BY DEF IInv, RanInv
<1> QED BY <1>1, Invariant, PTL

\* A call that succeeds has the results of its own execution: a thread that gave
\* up a call gave up its reply port with it.
THEOREM OwnResults == Spec => []ResultsArrive
<1>1. IInv => ResultsArrive
  BY DEF IInv
<1> QED BY <1>1, Invariant, PTL

\* The server task keeps of failed requests nothing but the rights of arrays, and
\* releases nothing twice.
THEOREM MessagesReleased == Spec => []MessagesAreReleased
<1>1. IInv => MessagesAreReleased
  BY DEF IInv, HeapInv, PortsInv, MessagesAreReleased
<1> QED BY <1>1, Invariant, PTL

-----------------------------------------------------------------------------
(* What each call promises.                                                *)

\* How a call that ends is seen.
LEMMA EndIs ==
  ASSUME CallsInv, NEW k \in DOMAIN call, NEW code, NEW outs, call' = Finished(k, code, outs)
  PROVE  /\ DOMAIN call' = DOMAIN call
         /\ call'[k].state = "done" /\ call'[k].code = code
         /\ \A j \in DOMAIN call : j # k => call'[j] = call[j]
<1>1. Listed(call) /\ DOMAIN call = 1 .. Len(call)
  BY MenuOffers DEF CallsInv
<1>2. PICK old : old = call[k]
  OBVIOUS
<1>3. PICK r : r = [old EXCEPT !.state = "done", !.code = code, !.outs = outs]
  OBVIOUS
<1>4. call' = [call EXCEPT ![k] = r]
  BY <1>2, <1>3 DEF Finished
<1>5. {"state", "code", "outs"} \subseteq DOMAIN old
  BY <1>2 DEF CallsInv
<1>6. r.state = "done" /\ r.code = code
  BY <1>3, <1>5
<1> QED BY <1>4, <1>6

\* A handler runs at most once for a call.
LEMMA RunsOnce ==
  ASSUME RanInv, NEW k
  PROVE  Cardinality(Ran(k)) = IF \E i \in DOMAIN ran : ran[i].call = k THEN 1 ELSE 0
<1>1. CASE \E i \in DOMAIN ran : ran[i].call = k
  <2>1. PICK i \in DOMAIN ran : ran[i].call = k
    BY <1>1
  <2>2. \A j \in DOMAIN ran : ran[j].call = k => j = i
    BY <2>1 DEF RanInv
  <2>3. Ran(k) = {i}
    BY <2>1, <2>2 DEF Ran
  <2> QED BY <1>1, <2>3, FS_Singleton
<1>2. CASE ~\E i \in DOMAIN ran : ran[i].call = k
  <2>1. Ran(k) = {}
    BY <1>2 DEF Ran
  <2> QED BY <1>2, <2>1, FS_EmptySet
<1> QED BY <1>1, <1>2

\* The view of the calls that the specification of a remote procedure call has.
States == [k \in RpcCalls |-> StateOf(k)]
Runs   == [k \in RpcCalls |-> Cardinality(Ran(k))]

\* Calls in the state that they had, but for one.
LEMMA OneMoves ==
  ASSUME NEW k \in RpcCalls, \A j \in RpcCalls : j # k => StateOf(j)' = StateOf(j)
  PROVE  States' = [States EXCEPT ![k] = StateOf(k)']
<1>1. PICK w : w = StateOf(k)'
  OBVIOUS
<1>2. States' = [j \in RpcCalls |-> StateOf(j)']
  BY DEF States, RpcCalls
<1>3. States = [j \in RpcCalls |-> StateOf(j)]
  BY DEF States
<1>4. States' = [States EXCEPT ![k] = w]
  BY <1>1, <1>2, <1>3
<1> QED BY <1>1, <1>4

\* Nothing runs.
LEMMA NoneRuns ==
  ASSUME ran' = ran
  PROVE  Runs' = Runs
BY DEF Runs, Ran, RpcCalls

\* No call moves.
LEMMA NoneMoves ==
  ASSUME call' = call
  PROVE  States' = States
BY DEF States, StateOf, RpcCalls

\* A call that is made is submitted, or fails at once.
LEMMA MadeIs ==
  ASSUME CallsInv, NEW c \in Clients, NEW p \in menu.stubs, NEW st \in {"sent", "done"}, NEW code,
         MayCall(c), st = "sent" => StubOf[p].reply # NoReply, code # "OK",
         call' = Made(c, p, st, code), menu' = menu, ran' = ran
  PROVE  [Rpc!Next]_<<States, Runs>>
<1>1. PICK n : n = Len(call) + 1
  OBVIOUS
<1>2. /\ DOMAIN call' = DOMAIN call \union {n} /\ n \notin DOMAIN call
      /\ \A k \in DOMAIN call : call'[k] = call[k]
      /\ call'[n].state = st /\ call'[n].code = code
  BY <1>1, CallMade
<1>3. n \in RpcCalls
  BY <1>1, MenuOffers, RpcAssumption DEF MayCall, RpcCalls
<1>4. StateOf(n) = "none" /\ StateOf(n)' \in {"pending", "failed"}
  BY <1>2 DEF StateOf
<1>5. \A j \in RpcCalls : j # n => StateOf(j)' = StateOf(j)
  BY <1>2 DEF StateOf
<1>6. PICK w : w = StateOf(n)'
  OBVIOUS
<1>7. States' = [States EXCEPT ![n] = w] /\ Runs' = Runs /\ States[n] = "none"
  BY <1>3, <1>4, <1>5, <1>6, OneMoves, NoneRuns DEF States
<1>8. w = "pending" => Rpc!Submit(n)
  BY <1>7 DEF Rpc!Submit, States, Runs
<1>9. w = "failed" => Rpc!Fail(n)
  BY <1>7 DEF Rpc!Fail, States, Runs
<1> QED BY <1>3, <1>4, <1>6, <1>8, <1>9 DEF Rpc!Next

\* A call that ends succeeds when its handler has run, or fails.
LEMMA EndedIs ==
  ASSUME CallsInv, RanInv, ResultsArrive', NEW c \in Clients, ~Idle(c), NEW code, NEW outs,
         call' = Finished(Pending(c), code, outs), menu' = menu, ran' = ran
  PROVE  [Rpc!Next]_<<States, Runs>>
<1>1. PICK n : n = Pending(c)
  OBVIOUS
<1>2. n \in DOMAIN call /\ call[n].state = "sent"
  BY <1>1 DEF Idle, Pending
<1>3. /\ DOMAIN call' = DOMAIN call /\ call'[n].state = "done" /\ call'[n].code = code
      /\ \A j \in DOMAIN call : j # n => call'[j] = call[j]
  BY <1>1, <1>2, EndIs
<1>4. n \in RpcCalls
  BY <1>2, MenuOffers, RpcAssumption DEF CallsInv, RpcCalls
<1>5. StateOf(n) = "pending" /\ StateOf(n)' = IF code = "OK" THEN "succeeded" ELSE "failed"
  BY <1>2, <1>3 DEF StateOf
<1>6. \A j \in RpcCalls : j # n => StateOf(j)' = StateOf(j)
  BY <1>3 DEF StateOf
<1>7. PICK w : w = StateOf(n)'
  OBVIOUS
<1>8. States' = [States EXCEPT ![n] = w] /\ Runs' = Runs /\ States[n] = "pending"
  BY <1>4, <1>5, <1>6, <1>7, OneMoves, NoneRuns DEF States
<1>9. CASE code = "OK"
  <2>1. \E i \in DOMAIN ran : ran[i].call = n
    <3>1. Over(n)' /\ call'[n].code = "OK" /\ n \in DOMAIN call'
      BY <1>2, <1>3, <1>9 DEF Over
    <3>2. \E i : i \in Ran(n)'
      BY <3>1 DEF ResultsArrive
    <3> QED BY <3>2 DEF Ran
  <2>2. Runs[n] = 1
    BY <1>4, <2>1, RunsOnce DEF Runs
  <2>3. Rpc!Succeed(n)
    BY <1>5, <1>7, <1>8, <1>9, <2>2 DEF Rpc!Succeed, States, Runs
  <2> QED BY <1>4, <2>3 DEF Rpc!Next
<1>10. CASE code # "OK"
  <2>1. Rpc!Fail(n)
    BY <1>5, <1>7, <1>8, <1>10 DEF Rpc!Fail, States, Runs
  <2> QED BY <1>4, <2>1 DEF Rpc!Next
<1> QED BY <1>9, <1>10

\* A handler that is called executes its call.
LEMMA InvokedIs ==
  ASSUME CallsInv, RequestsInv, RanInv, RanInv', Invoke
  PROVE  [Rpc!Next]_<<States, Runs>>
<1>1. PICK m, x : m = Incoming /\ x = Routines[Incoming.id]
  OBVIOUS
<1>2. PICK e : e = [call |-> m.call, routine |-> <<menu.server, x.name>>, ret |-> "",
                    args |-> Given(x, m), first |-> 0]
  OBVIOUS
<1>3. Dequeue /\ ran' = Append(ran, e) /\ call' = call
  BY <1>1, <1>2 DEF Invoke, Given
<1>4. PICK n, l : n = m.call /\ l = Len(ran) + 1
  OBVIOUS
<1>5. n \in DOMAIN call /\ \A j \in DOMAIN ran : ran[j].call # n
  BY <1>1, <1>3, <1>4, RequestTaken
<1>6. /\ ran'[l] = e /\ DOMAIN ran' = DOMAIN ran \union {l}
      /\ \A i \in DOMAIN ran : ran'[i] = ran[i]
  <2>1. Listed(ran) /\ Len(ran) \in Nat /\ DOMAIN ran = 1 .. Len(ran)
    BY ListPlaces DEF RanInv
  <2>2. /\ Listed(ran') /\ Len(ran') = l /\ ran'[l] = e
        /\ \A i \in 1 .. Len(ran) : ran'[i] = ran[i]
    BY <1>3, <1>4, <2>1, Appended
  <2>3. DOMAIN ran' = 1 .. l
    BY <2>2, ListPlaces
  <2> QED BY <1>4, <2>1, <2>2, <2>3
<1>7. n \in RpcCalls
  BY <1>5, MenuOffers, RpcAssumption DEF CallsInv, RpcCalls
<1>8. e.call = n
  BY <1>2, <1>4
<1>9. Runs[n] = 0
  BY <1>5, <1>7, RunsOnce DEF Runs
<1>10. Cardinality(Ran(n))' = 1
  <2>1. Ran(n)' = {l}
    BY <1>5, <1>6, <1>8 DEF Ran
  <2> QED BY <2>1, FS_Singleton
<1>11. ASSUME NEW j \in RpcCalls, j # n PROVE Cardinality(Ran(j))' = Cardinality(Ran(j))
  <2>1. Ran(j)' = Ran(j)
    <3>1. ran'[l].call # j
      BY <1>6, <1>8, <1>11
    <3>2. \A i \in DOMAIN ran : ran'[i].call = ran[i].call
      BY <1>6
    <3>3. \A i \in DOMAIN ran' : i # l => i \in DOMAIN ran
      BY <1>6
    <3>4. DOMAIN ran \subseteq DOMAIN ran'
      BY <1>6
    <3> QED BY <3>1, <3>2, <3>3, <3>4 DEF Ran
  <2> QED BY <2>1
<1>12. Runs' = [Runs EXCEPT ![n] = 1]
  <2>1. Runs' = [j \in RpcCalls |-> Cardinality(Ran(j))']
    BY DEF Runs, RpcCalls
  <2>2. Runs = [j \in RpcCalls |-> Cardinality(Ran(j))]
    BY DEF Runs
  <2> QED BY <1>10, <1>11, <2>1, <2>2
<1>13. States' = States /\ States[n] # "none"
  <2>1. StateOf(n) # "none"
    BY <1>5 DEF StateOf
  <2> QED BY <1>3, <1>7, <2>1, NoneMoves DEF States
<1>14. Rpc!Execute(n)
  BY <1>9, <1>12, <1>13 DEF Rpc!Execute, States, Runs
<1> QED BY <1>7, <1>14 DEF Rpc!Next

\* A handler that returns does not run again.
LEMMA ReturnedIs ==
  ASSUME RanInv, HandlerReturns
  PROVE  UNCHANGED <<States, Runs>>
<1>1. PICK o \in Outcomes(Serving) :
        ran' = [ran EXCEPT ![Len(ran)].ret = o.ret, ![Len(ran)].first = o.count]
  BY DEF HandlerReturns
<1>2. call' = call
  BY DEF HandlerReturns
<1>3. PICK n, old : n = Len(ran) /\ old = ran[n]
  OBVIOUS
<1>4. PICK r : r = [old EXCEPT !.ret = o.ret, !.first = o.count]
  OBVIOUS
<1>5. ran' = [ran EXCEPT ![n] = r]
  BY <1>1, <1>3, <1>4
<1>6. DOMAIN ran' = DOMAIN ran /\ \A i \in DOMAIN ran : i # n => ran'[i] = ran[i]
  BY <1>5
<1>7. n \in DOMAIN ran => ran'[n].call = ran[n].call
  <2>1. ASSUME n \in DOMAIN ran PROVE "call" \in DOMAIN old /\ r.call = old.call
    BY <1>3, <1>4, <2>1 DEF RanInv
  <2> QED BY <1>3, <1>5, <2>1
<1>8. \A k : Ran(k)' = Ran(k)
  BY <1>6, <1>7 DEF Ran
<1>9. Runs' = Runs
  BY <1>8 DEF Runs, RpcCalls
<1> QED BY <1>2, <1>9, NoneMoves

\* Every step is one of a call's, or none.
LEMMA StepsAreCalls == IInv /\ IInv' /\ [Next]_vars => [Rpc!Next]_<<States, Runs>>
<1> SUFFICES ASSUME IInv, IInv', [Next]_vars PROVE [Rpc!Next]_<<States, Runs>>
  OBVIOUS
<1>1. CallsInv /\ RequestsInv /\ RanInv /\ RanInv' /\ ResultsArrive'
  BY DEF IInv
<1>2. ASSUME NEW c \in Clients, Client(c) PROVE [Rpc!Next]_<<States, Runs>>
  <2>1. CASE Send(c)
    <3>1. PICK p \in menu.stubs : StubOf[p].reply # NoReply /\ call' = Made(c, p, "sent", "")
      BY <2>1 DEF Send
    <3>2. MayCall(c) /\ menu' = menu /\ ran' = ran
      BY <2>1 DEF Send
    <3> QED BY <1>1, <3>1, <3>2, MadeIs
  <2>2. CASE SendFails(c)
    <3>1. PICK p \in menu.stubs, code \in {"MACH_SEND_INVALID_DEST", "MACH_SEND_NO_BUFFER"} :
            call' = Made(c, p, "done", code)
      BY <2>2 DEF SendFails
    <3>2. MayCall(c) /\ menu' = menu /\ ran' = ran
      BY <2>2 DEF SendFails
    <3> QED BY <1>1, <3>1, <3>2, MadeIs
  <2>3. CASE Notify(c)
    <3>1. PICK p \in menu.stubs : call' = Made(c, p, "done", "SENT")
      BY <2>3 DEF Notify
    <3>2. MayCall(c) /\ menu' = menu /\ ran' = ran
      BY <2>3 DEF Notify
    <3> QED BY <1>1, <3>1, <3>2, MadeIs
  <2>4. CASE Receive(c)
    <3>1. \E code, outs : call' = Finished(Pending(c), code, outs)
      BY <2>4 DEF Receive
    <3>2. ~Idle(c) /\ menu' = menu /\ ran' = ran
      BY <2>4 DEF Receive
    <3> QED BY <1>1, <3>1, <3>2, EndedIs
  <2>5. CASE ReceiveFails(c)
    <3>1. \E code, outs : call' = Finished(Pending(c), code, outs)
      BY <2>5 DEF ReceiveFails
    <3>2. ~Idle(c) /\ menu' = menu /\ ran' = ran
      BY <2>5 DEF ReceiveFails
    <3> QED BY <1>1, <3>1, <3>2, EndedIs
  <2> QED BY <1>2, <2>1, <2>2, <2>3, <2>4, <2>5 DEF Client
<1>3. CASE Invoke
  BY <1>1, <1>3, InvokedIs
<1>4. CASE HandlerReturns
  BY <1>1, <1>4, ReturnedIs
<1>5. ASSUME call' = call, ran' = ran PROVE UNCHANGED <<States, Runs>>
  BY <1>5, NoneMoves, NoneRuns
<1>6. CASE Refuse
  BY <1>5, <1>6 DEF Refuse
<1>7. CASE SendReply
  BY <1>5, <1>7 DEF SendReply
<1>8. CASE ServerDies
  BY <1>5, <1>8 DEF ServerDies
<1>9. CASE UNCHANGED vars
  BY <1>5, <1>9 DEF vars
<1> QED BY <1>2, <1>3, <1>4, <1>6, <1>7, <1>8, <1>9 DEF Next

\* No call has been made at the start.
LEMMA StartsAtMostOnce == Init => Rpc!Init
<1> SUFFICES ASSUME Init PROVE Rpc!Init
  OBVIOUS
<1>1. call = <<>> /\ ran = <<>> /\ DOMAIN <<>> = {}
  BY DEF Init
<1>2. \A k \in RpcCalls : StateOf(k) = "none"
  BY <1>1 DEF StateOf
<1>3. \A k \in RpcCalls : Cardinality(Ran(k)) = 0
  <2>1. \A k : Ran(k) = {}
    BY <1>1 DEF Ran
  <2> QED BY <2>1, FS_EmptySet
<1> QED BY <1>2, <1>3 DEF Rpc!Init

\* Every call runs at most once, and one that succeeds has run: whatever the
\* server, the kernel and the callers do, the stubs keep the promise of a remote
\* procedure call.
THEOREM ImplementsAtMostOnce == Spec => AtMostOnce
<1>1. IInv /\ IInv' /\ [Next]_vars =>
        [Rpc!Next]_<<[k \in RpcCalls |-> StateOf(k)], [k \in RpcCalls |-> Cardinality(Ran(k))]>>
  BY StepsAreCalls DEF States, Runs
<1> QED BY <1>1, Invariant, StartsAtMostOnce, PTL DEF Spec, AtMostOnce, Rpc!Spec
=============================================================================
