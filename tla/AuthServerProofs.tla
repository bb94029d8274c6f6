-------------------------- MODULE AuthServerProofs --------------------------
(***************************************************************************)
(* What the auth server guarantees of its handles and their id vectors,    *)
(* for every number of handlers, kinds of ids, ids of a request and for    *)
(* every size of the first block.                                          *)
(***************************************************************************)
EXTENDS AuthServer, FiniteSetTheorems, WellFoundedInduction, TLAPS

-----------------------------------------------------------------------------
(* The loop of idvec_ensure that doubles the size.                         *)

\* A set of natural numbers that is not empty has a smallest one.
LEMMA SmallestExists ==
  ASSUME NEW S \in SUBSET Nat, S # {}
  PROVE  \E x \in S : \A y \in S : x <= y
<1> DEFINE R == {ss \in Nat \X Nat : ss[1] < ss[2]}
<1>1. IsWellFoundedOn(R, Nat)
  BY NatLessThanWellFounded DEF OpToRel
<1> HIDE DEF R
<1>2. PICK x \in S : \A y \in S : ~(<<y, x>> \in R)
  BY <1>1, WFMin
<1>3. ASSUME NEW y \in S PROVE x <= y
  <2>1. x \in Nat /\ y \in Nat
    OBVIOUS
  <2>2. ~(y < x)
    BY <1>2, <2>1 DEF R
  <2> QED BY <2>1, <2>2
<1> QED BY <1>3

\* One turn of the loop, from size n on.
Turn(f, needed, n) == f[n] = IF n >= needed THEN n ELSE f[2 * n]

\* The loop can be run from every size that is not 0: a function that does so
\* from needed - k on can be extended downwards.
LEMMA LoopRuns ==
  ASSUME NEW needed \in Nat
  PROVE  \E f \in [Nat -> Nat] : \A n \in Nat : Turn(f, needed, n)
<1> DEFINE Good(k) == \E f \in [Nat -> Nat] :
                        \A n \in Nat \ {0} : n + k >= needed => Turn(f, needed, n)
           Bad == {k \in 0 .. needed : ~Good(k)}
<1>1. Bad = {}
  <2> SUFFICES ASSUME Bad # {} PROVE FALSE
    OBVIOUS
  <2>0. Bad \in SUBSET Nat
    OBVIOUS
  <2>1. PICK k \in Bad : \A l \in Bad : k <= l
    <3> HIDE DEF Bad
    <3> QED BY <2>0, SmallestExists
  <2>2. k # 0
    <3> DEFINE id == [n \in Nat |-> n]
    <3>1. id \in [Nat -> Nat] /\ \A n \in Nat \ {0} : n + 0 >= needed => Turn(id, needed, n)
      BY DEF Turn
    <3> QED BY <2>1, <3>1
  <2>3. k \in Nat /\ k - 1 \in 0 .. needed /\ k <= needed /\ k > 0
    BY <2>1, <2>2
  <2>4. k - 1 \notin Bad
    <3> SUFFICES ASSUME k - 1 \in Bad PROVE FALSE
      OBVIOUS
    <3>1. k <= k - 1
      BY <2>1
    <3> QED BY <2>3, <3>1
  <2>5. PICK f \in [Nat -> Nat] :
          \A n \in Nat \ {0} : n + (k - 1) >= needed => Turn(f, needed, n)
    BY <2>3, <2>4
  <2> DEFINE m == needed - k
             g == [f EXCEPT ![m] = f[2 * m]]
  <2>6. m \in Nat /\ m < needed
    BY <2>3
  <2> HIDE DEF Bad, Good
  <2>7. g \in [Nat -> Nat]
    BY <2>6
  <2>8. ASSUME NEW n \in Nat \ {0}, n + k >= needed PROVE Turn(g, needed, n)
    <3>1. CASE n = m
      <4>1. g[m] = f[2 * m] /\ g[2 * m] = f[2 * m]
        BY <2>6, <3>1
      <4> QED BY <2>6, <3>1, <4>1 DEF Turn
    <3>2. CASE n # m
      <4>1. n + (k - 1) >= needed /\ n > m
        BY <2>3, <2>8, <3>2
      <4>2. g[n] = f[n] /\ g[2 * n] = f[2 * n]
        BY <2>6, <4>1
      <4> QED BY <2>5, <4>1, <4>2 DEF Turn
    <3> QED BY <3>1, <3>2
  <2>9. Good(k)
    BY <2>7, <2>8 DEF Good
  <2> QED BY <2>1, <2>9 DEF Bad
<1>2. PICK f \in [Nat -> Nat] :
        \A n \in Nat \ {0} : n + needed >= needed => Turn(f, needed, n)
  <2>1. needed \in 0 .. needed /\ needed \notin Bad
    <3> HIDE DEF Bad
    <3> QED BY <1>1
  <2>2. Good(needed)
    <3> HIDE DEF Good
    <3> QED BY <2>1
  <2> QED BY <2>2
<1> DEFINE g == [f EXCEPT ![0] = 0]
<1>3. g \in [Nat -> Nat] /\ g[0] = 0 /\ \A n \in Nat \ {0} : g[n] = f[n]
  OBVIOUS
<1> HIDE DEF g
<1>4. ASSUME NEW n \in Nat PROVE Turn(g, needed, n)
  <2>1. CASE n = 0
    BY <1>3, <2>1 DEF Turn
  <2>2. CASE n # 0
    <3>1. n \in Nat \ {0} /\ 2 * n \in Nat \ {0} /\ n + needed >= needed
      BY <2>2
    <3> QED BY <1>2, <1>3, <3>1 DEF Turn
  <2> QED BY <2>1, <2>2
<1> QED BY <1>3, <1>4

\* Where it ends: at a size that suffices, and less than twice what is needed
\* unless the loop was not entered.
LEMMA LoopEnds ==
  ASSUME NEW needed \in Nat, NEW f, \A n \in Nat : Turn(f, needed, n),
         NEW start \in Nat \ {0}
  PROVE  /\ f[start] \in Nat /\ f[start] >= needed
         /\ f[start] = start \/ f[start] < 2 * needed
<1> DEFINE Good(n) == /\ f[n] \in Nat /\ f[n] >= needed
                      /\ f[n] = n \/ f[n] < 2 * needed
           Bad == {d \in 0 .. needed - 1 : ~Good(needed - d)}
<1>1. ASSUME NEW n \in Nat, n >= needed PROVE Good(n)
  BY <1>1 DEF Turn
<1>2. Bad = {}
  <2> SUFFICES ASSUME Bad # {} PROVE FALSE
    OBVIOUS
  <2>0. Bad \in SUBSET Nat
    OBVIOUS
  <2>1. PICK d \in Bad : \A e \in Bad : d <= e
    <3> HIDE DEF Bad
    <3> QED BY <2>0, SmallestExists
  <2> DEFINE n == needed - d
  <2>2. n \in Nat \ {0} /\ d \in Nat /\ ~Good(n)
    OBVIOUS
  <2>3. n < needed
    BY <1>1, <2>2
  <2>4. f[n] = f[2 * n]
    BY <2>2, <2>3 DEF Turn
  <2>5. Good(2 * n)
    <3>1. CASE 2 * n >= needed
      BY <1>1, <2>2, <3>1
    <3>2. CASE ~(2 * n >= needed)
      <4>1. needed - 2 * n \in 0 .. needed - 1 /\ ~(d <= needed - 2 * n)
        BY <2>2, <3>2
      <4>2. needed - 2 * n \notin Bad
        BY <2>1, <4>1
      <4>3. needed - (needed - 2 * n) = 2 * n
        BY <2>2
      <4> QED BY <4>1, <4>2, <4>3
    <3> QED BY <3>1, <3>2
  <2>6. f[n] \in Nat /\ f[n] >= needed /\ (f[n] = 2 * n \/ f[n] < 2 * needed)
    BY <2>4, <2>5
  <2>7. f[n] < 2 * needed
    BY <2>2, <2>3, <2>6
  <2> QED BY <2>2, <2>6, <2>7
<1>3. CASE start >= needed
  BY <1>1, <1>3
<1>4. CASE ~(start >= needed)
  <2>1. needed - start \in 0 .. needed - 1 /\ needed - (needed - start) = start
    BY <1>4
  <2> QED BY <1>2, <2>1
<1> QED BY <1>3, <1>4

\* What idvec_ensure asks realloc for.
LEMMA NewSizeFits ==
  ASSUME NEW vec, Start(vec) \in Nat \ {0}, NEW needed \in Nat
  PROVE  /\ NewSize(vec, needed) \in Nat /\ NewSize(vec, needed) >= needed
         /\ NewSize(vec, needed) = Start(vec) \/ NewSize(vec, needed) < 2 * needed
<1> DEFINE Loop(f) == f = [n \in Nat |-> IF n >= needed THEN n ELSE f[2 * n]]
           grown == CHOOSE f : Loop(f)
<1>1. NewSize(vec, needed) = grown[Start(vec)]
  BY DEF NewSize
<1>2. \E f : Loop(f)
  <2>1. PICK f \in [Nat -> Nat] : \A n \in Nat : Turn(f, needed, n)
    BY LoopRuns
  <2>2. f = [n \in Nat |-> IF n >= needed THEN n ELSE f[2 * n]]
    BY <2>1 DEF Turn
  <2> QED BY <2>2
<1> HIDE DEF Loop
<1>3. Loop(grown)
  BY <1>2
<1> HIDE DEF grown
<1>4. \A n \in Nat : Turn(grown, needed, n)
  BY <1>3 DEF Loop, Turn
<1>5. /\ grown[Start(vec)] \in Nat /\ grown[Start(vec)] >= needed
      /\ grown[Start(vec)] = Start(vec) \/ grown[Start(vec)] < 2 * needed
  BY <1>4, LoopEnds
<1> QED BY <1>1, <1>5

-----------------------------------------------------------------------------
(* Vectors.                                                                *)

IdVecs == [ids : Seq(Ids), alloced : Nat]

\* A merge leaves the vector alone or appends all of the ids, and keeps it
\* whole either way.
LEMMA MergeKeepsVector ==
  ASSUME NEW vec \in IdVecs, WellFormed(vec), NEW x \in Seq(Ids),
         NEW r \in MergeIds(vec, x)
  PROVE  r.vec \in IdVecs /\ WellFormed(r.vec) /\ r.vec.ids \in {vec.ids, vec.ids \o x}
<1> DEFINE needed == Num(vec) + Len(x)
           new == NewSize(vec, needed)
<1>1. /\ vec.ids \in Seq(Ids) /\ vec.alloced \in Nat /\ Num(vec) \in Nat
      /\ Len(x) \in Nat /\ needed \in Nat
      /\ vec.ids \o x \in Seq(Ids) /\ Len(vec.ids \o x) = needed
      /\ vec = [ids |-> vec.ids, alloced |-> vec.alloced]
  BY DEF IdVecs, Num
<1>2. Start(vec) \in Nat \ {0} /\ FirstCap \in Nat
  BY <1>1, FirstCapAssumption DEF Start
<1>3. new \in Nat /\ new >= needed /\ (new = Start(vec) \/ new < 2 * needed)
  BY <1>1, <1>2, NewSizeFits
<1>4. PICK e \in Ensure(vec, Len(x)) : r = IF e.err = 0 THEN [e EXCEPT !.vec.ids = @ \o x] ELSE e
  BY DEF MergeIds
<1>5. CASE needed > vec.alloced /\ e = [vec |-> [vec EXCEPT !.alloced = new], err |-> 0]
  <2>1. e = [vec |-> [ids |-> vec.ids, alloced |-> new], err |-> 0]
    BY <1>1, <1>5
  <2>2. r = [vec |-> [ids |-> vec.ids \o x, alloced |-> new], err |-> 0]
    BY <1>4, <2>1
  <2>3. r.vec \in IdVecs /\ r.vec.ids = vec.ids \o x /\ r.vec.alloced = new
    BY <1>1, <1>3, <2>2 DEF IdVecs
  <2>4. Num(r.vec) = needed
    BY <1>1, <2>3 DEF Num
  <2>5. new > FirstCap => new < 2 * needed
    BY <1>1, <1>2, <1>3, <1>5 DEF Start
  <2>6. WellFormed(r.vec)
    BY <1>3, <2>3, <2>4, <2>5 DEF WellFormed
  <2> QED BY <2>3, <2>6
<1>6. CASE e = [vec |-> vec, err |-> -1]
  <2>1. r = e /\ r.vec = vec
    BY <1>4, <1>6
  <2> QED BY <2>1
<1>7. CASE ~(needed > vec.alloced) /\ e = [vec |-> vec, err |-> 0]
  <2>1. r = [vec |-> [ids |-> vec.ids \o x, alloced |-> vec.alloced], err |-> 0]
    BY <1>1, <1>4, <1>7
  <2>2. r.vec \in IdVecs /\ r.vec.ids = vec.ids \o x /\ r.vec.alloced = vec.alloced
    BY <1>1, <2>1 DEF IdVecs
  <2>3. Num(r.vec) = needed
    BY <1>1, <2>2 DEF Num
  <2>4. needed <= vec.alloced /\ (vec.alloced > FirstCap => vec.alloced < 2 * needed)
    BY <1>1, <1>2, <1>7 DEF WellFormed
  <2>5. WellFormed(r.vec)
    BY <2>2, <2>3, <2>4 DEF WellFormed
  <2> QED BY <2>2, <2>5
<1> QED BY <1>4, <1>5, <1>6, <1>7 DEF Ensure

\* The vector of a new handle.
LEMMA EmptyIsWhole == Empty \in IdVecs /\ WellFormed(Empty) /\ Empty.ids = <<>>
BY FirstCapAssumption DEF Empty, IdVecs, WellFormed, Num

\* The ids of a request are sequences.
LEMMA RequestIds ==
  ASSUME NEW req \in Vectors, NEW k \in 1 .. Len(Kinds)
  PROVE  req[k] \in Seq(Ids)
<1>1. PICK n \in 0 .. MaxIds : req[k] \in [1 .. n -> Ids]
  BY DEF Vectors
<1> QED BY <1>1, AuthAssumption

-----------------------------------------------------------------------------
(* The inductive invariant.                                                *)

Structs == [right : Names, refs : 0 .. 1, ids : [1 .. Len(Kinds) -> IdVecs]]

Shape ==
  /\ Live \subseteq Cells /\ handles \in [Live -> Structs]
  /\ rights \subseteq Names /\ lost \in Nat /\ up \in BOOLEAN
  /\ pc \in [Threads -> {"idle", "merge", "getright", "deref", "free", "reply"}]
  /\ DOMAIN call = Threads
  /\ calls \in [Threads -> 0 .. MaxCalls]

\* What a handler at work has in hand.
JobShape ==
  \A t \in Threads : Working(t) =>
    /\ call[t] \in [req : Vectors, cell : Live, merged : 0 .. Len(Kinds), newhandle : Nat]
    /\ pc[t] = "merge" => call[t].merged < Len(Kinds)

\* Each handle that has a reference has a receive right of its own.
OwnRights ==
  \A a \in Live : handles[a].refs > 0 =>
    /\ handles[a].right \in rights
    /\ \A b \in Live : handles[b].refs > 0 /\ handles[b].right = handles[a].right => a = b

\* No two handlers work on one struct.
OwnCells ==
  \A s, t \in Threads : Working(s) /\ Working(t) /\ call[s].cell = call[t].cell => s = t

\* All structs but the root's are some handler's.
AllOwned ==
  /\ ~up => Live = {} /\ \A t \in Threads : ~Working(t)
  /\ up => \E root \in Live :
       /\ \A t \in Threads : Working(t) => call[t].cell # root
       /\ \A a \in Live \ {root} : \E t \in Threads : Working(t) /\ call[t].cell = a

AuthInv == Shape /\ JobShape /\ OwnRights /\ OwnCells /\ AllOwned /\ VectorsAreWhole

\* The invariant holds at the start.
LEMMA AuthInit == Init => AuthInv
<1> SUFFICES ASSUME Init PROVE AuthInv
  OBVIOUS
<1>1. Live = {} /\ \A t \in Threads : ~Working(t)
  BY DEF Init, Live, Working
<1>2. Shape
  <2>1. handles \in [Live -> Structs]
    BY <1>1 DEF Init, Live
  <2>2. /\ rights \subseteq Names /\ lost \in Nat /\ up \in BOOLEAN
        /\ pc \in [Threads -> {"idle", "merge", "getright", "deref", "free", "reply"}]
        /\ DOMAIN call = Threads /\ calls \in [Threads -> 0 .. MaxCalls]
    <3>1. 0 \in 0 .. MaxCalls
      BY AuthAssumption
    <3>2. /\ rights = {} /\ lost = 0 /\ up = FALSE /\ pc = [t \in Threads |-> "idle"]
          /\ call = [t \in Threads |-> NoCall] /\ calls = [t \in Threads |-> 0]
      BY DEF Init
    <3> QED BY <3>1, <3>2
  <2> QED BY <1>1, <2>1, <2>2 DEF Shape
<1>3. JobShape /\ OwnRights /\ OwnCells /\ AllOwned /\ VectorsAreWhole
  BY <1>1 DEF Init, JobShape, OwnRights, OwnCells, AllOwned, VectorsAreWhole
<1> QED BY <1>2, <1>3 DEF AuthInv

-----------------------------------------------------------------------------
(* The steps.                                                              *)

Stored(cell, name, ids) ==
  handles' = [b \in Live \cup {cell} |-> IF b = cell THEN Handle(name, ids) ELSE handles[b]]

\* A new struct with a new port, beside those in memory.
LEMMA CreateKeeps ==
  ASSUME Shape, OwnRights, NEW cell, NEW name, CreatePort(cell, name),
         NEW ids \in [1 .. Len(Kinds) -> IdVecs], Stored(cell, name, ids)
  PROVE  /\ Live' = Live \cup {cell} /\ cell \notin Live /\ Live' \subseteq Cells
         /\ handles' \in [Live' -> Structs] /\ rights' \subseteq Names /\ OwnRights'
         /\ handles'[cell].ids = ids
         /\ \A a \in Live : handles'[a] = handles[a]
<1>1. /\ cell \in Cells \ Live /\ name \in Names \ rights /\ rights' = rights \cup {name}
  BY DEF CreatePort
<1>2. Live' = Live \cup {cell} /\ handles'[cell] = Handle(name, ids)
  BY DEF Live, Stored
<1>3. \A a \in Live : handles'[a] = handles[a]
  BY <1>1 DEF Live, Stored
<1>4. Handle(name, ids) \in Structs /\ Handle(name, ids).ids = ids
      /\ Handle(name, ids).right = name
  BY <1>1 DEF Handle, Structs
<1>5. handles' \in [Live' -> Structs]
  <2>1. \A b \in Live : handles[b] \in Structs
    BY DEF Shape
  <2> QED BY <1>2, <1>4, <2>1 DEF Stored
<1>6. OwnRights'
  <2> SUFFICES ASSUME NEW a \in Live', handles'[a].refs > 0
               PROVE  /\ handles'[a].right \in rights'
                      /\ \A b \in Live' : handles'[b].refs > 0 /\ handles'[b].right = handles'[a].right
                                           => a = b
    BY DEF OwnRights
  <2>1. \A d \in Live : handles'[d].refs > 0 => handles'[d].right \in rights
    BY <1>3 DEF OwnRights
  <2>2. handles'[cell].right = name /\ name \notin rights
    BY <1>1, <1>2, <1>4
  <2>3. CASE a \in Live
    BY <1>1, <1>2, <1>3, <2>1, <2>2, <2>3 DEF OwnRights
  <2>4. CASE a = cell
    BY <1>1, <1>2, <2>1, <2>2, <2>4
  <2> QED BY <1>2, <2>3, <2>4
<1> QED BY <1>1, <1>2, <1>3, <1>4, <1>5, <1>6 DEF Shape

\* The root handle.
LEMMA ServerInitKeeps ==
  ASSUME AuthInv, ServerInit
  PROVE  AuthInv'
<1>1. PICK a \in Cells, n \in Names :
        /\ CreatePort(a, n)
        /\ \E ids \in [1 .. Len(Kinds) -> {r.vec : r \in Add(Empty, Root)}] :
             handles' = [b \in Live \cup {a} |-> IF b = a THEN Handle(n, ids) ELSE handles[b]]
  BY DEF ServerInit
<1>2. PICK ids \in [1 .. Len(Kinds) -> {r.vec : r \in Add(Empty, Root)}] : Stored(a, n, ids)
  BY <1>1 DEF Stored
<1>3. ids \in [1 .. Len(Kinds) -> IdVecs]
  <2>1. <<Root>> \in Seq(Ids)
    BY AuthAssumption
  <2>2. \A r \in Add(Empty, Root) : r.vec \in IdVecs
    BY <2>1, EmptyIsWhole, MergeKeepsVector DEF Add
  <2> QED BY <2>2
<1>4. /\ Live' = Live \cup {a} /\ Live' \subseteq Cells
      /\ handles' \in [Live' -> Structs] /\ rights' \subseteq Names /\ OwnRights'
  <2>1. Shape /\ OwnRights /\ CreatePort(a, n)
    BY <1>1 DEF AuthInv
  <2> QED BY <1>2, <1>3, <2>1, CreateKeeps
<1>5. ~up /\ up' = TRUE /\ UNCHANGED <<lost, pc, call, calls>>
  BY DEF ServerInit
<1>6. Live = {} /\ \A t \in Threads : ~Working(t)
  BY <1>5 DEF AuthInv, AllOwned
<1>7. \A t \in Threads : ~Working(t)'
  BY <1>5, <1>6 DEF Working
<1>8. Shape'
  BY <1>4, <1>5 DEF AuthInv, Shape
<1>9. JobShape' /\ OwnCells' /\ AllOwned' /\ VectorsAreWhole'
  BY <1>4, <1>5, <1>6, <1>7 DEF JobShape, OwnCells, AllOwned, VectorsAreWhole
<1> QED BY <1>4, <1>8, <1>9 DEF AuthInv

\* A makeauth begins.
LEMMA MakeauthKeeps ==
  ASSUME AuthInv, NEW t \in Threads, Makeauth(t)
  PROVE  AuthInv'
<1>1. /\ up /\ pc[t] = "idle" /\ calls[t] < MaxCalls /\ calls' = [calls EXCEPT ![t] = @ + 1]
      /\ UNCHANGED <<lost, up>>
  BY DEF Makeauth
<1>2. calls' \in [Threads -> 0 .. MaxCalls]
  BY <1>1, AuthAssumption DEF AuthInv, Shape
<1>3. CASE UNCHANGED <<handles, rights, call, pc>>
  <2>1. Live' = Live /\ \A s \in Threads : Working(s)' <=> Working(s)
    BY <1>3 DEF Live, Working
  <2>2. Shape'
    BY <1>1, <1>2, <1>3, <2>1 DEF AuthInv, Shape
  <2>3. JobShape' /\ OwnRights' /\ OwnCells' /\ AllOwned'
    BY <1>1, <1>3, <2>1 DEF AuthInv, JobShape, OwnRights, OwnCells, AllOwned
  <2>4. VectorsAreWhole'
    BY <1>3, <2>1 DEF AuthInv, VectorsAreWhole
  <2> QED BY <2>2, <2>3, <2>4 DEF AuthInv
<1>4. ASSUME NEW rq \in Vectors, NEW a \in Cells, NEW n \in Names, CreatePort(a, n),
             Stored(a, n, NoIds),
             call' = [call EXCEPT ![t] = [NoCall EXCEPT !.req = rq, !.cell = a]],
             pc' = [pc EXCEPT ![t] = "merge"]
      PROVE  AuthInv'
  <2>1. NoIds \in [1 .. Len(Kinds) -> IdVecs] /\ \A k \in 1 .. Len(Kinds) : NoIds[k] = Empty
    BY EmptyIsWhole DEF NoIds
  <2>2. /\ Live' = Live \cup {a} /\ a \notin Live /\ Live' \subseteq Cells
        /\ handles' \in [Live' -> Structs] /\ rights' \subseteq Names /\ OwnRights'
        /\ handles'[a].ids = NoIds /\ \A b \in Live : handles'[b] = handles[b]
    BY <1>4, <2>1, CreateKeeps DEF AuthInv
  <2>3. /\ pc'[t] = "merge" /\ DOMAIN call' = Threads
        /\ call'[t] = [req |-> rq, cell |-> a, merged |-> 0, newhandle |-> 0]
        /\ \A s \in Threads : s # t => pc'[s] = pc[s] /\ call'[s] = call[s]
    BY <1>4 DEF AuthInv, Shape, NoCall, NULL
  <2>4. Working(t)' /\ ~Working(t) /\ \A s \in Threads : s # t => (Working(s)' <=> Working(s))
    BY <1>1, <2>3 DEF Working
  <2>5. Shape'
    BY <1>1, <1>2, <1>4, <2>2, <2>3 DEF AuthInv, Shape
  <2>6. \A s \in Threads : Working(s) => call[s].cell \in Live
    BY DEF AuthInv, JobShape
  <2>7. JobShape'
    <3> SUFFICES ASSUME NEW s \in Threads, Working(s)'
                 PROVE  /\ call'[s] \in [req : Vectors, cell : Live', merged : 0 .. Len(Kinds),
                                         newhandle : Nat]
                        /\ pc'[s] = "merge" => call'[s].merged < Len(Kinds)
      BY DEF JobShape
    <3>1. CASE s = t
      <4>1. 0 \in 0 .. Len(Kinds) /\ 0 < Len(Kinds) /\ 0 \in Nat /\ a \in Live'
        BY <2>2, AuthAssumption
      <4>2. call'[s] \in [req : Vectors, cell : Live', merged : 0 .. Len(Kinds),
                          newhandle : Nat]
        BY <2>3, <3>1, <4>1
      <4> QED BY <2>3, <3>1, <4>1, <4>2
    <3>2. CASE s # t
      <4>1. /\ call[s] \in [req : Vectors, cell : Live, merged : 0 .. Len(Kinds),
                            newhandle : Nat]
            /\ pc[s] = "merge" => call[s].merged < Len(Kinds)
        BY <2>4, <3>2 DEF AuthInv, JobShape
      <4> QED BY <2>2, <2>3, <3>2, <4>1
    <3> QED BY <3>1, <3>2
  <2>8. OwnCells'
    BY <2>2, <2>3, <2>4, <2>6 DEF AuthInv, OwnCells
  <2>9. AllOwned'
    <3>1. PICK root \in Live :
            /\ \A s \in Threads : Working(s) => call[s].cell # root
            /\ \A b \in Live \ {root} : \E s \in Threads : Working(s) /\ call[s].cell = b
      BY <1>1 DEF AuthInv, AllOwned
    <3>2. root \in Live' /\ \A s \in Threads : Working(s)' => call'[s].cell # root
      BY <2>2, <2>3, <2>4, <3>1
    <3>3. ASSUME NEW b \in Live' \ {root}
          PROVE  \E s \in Threads : Working(s)' /\ call'[s].cell = b
      <4>1. CASE b = a
        BY <2>3, <2>4, <4>1
      <4>2. CASE b # a
        <5>1. PICK s \in Threads : Working(s) /\ call[s].cell = b
          BY <2>2, <3>1, <3>3, <4>2
        <5>2. Working(s)' /\ call'[s].cell = b
          BY <2>3, <2>4, <5>1
        <5> QED BY <5>2
      <4> QED BY <4>1, <4>2
    <3> QED BY <1>1, <3>2, <3>3 DEF AllOwned
  <2>10. VectorsAreWhole'
    <3> SUFFICES ASSUME NEW s \in Threads, Working(s)', NEW k \in DOMAIN handles'[call'[s].cell].ids
                 PROVE  /\ WellFormed(handles'[call'[s].cell].ids[k])
                        /\ handles'[call'[s].cell].ids[k].ids \in {<<>>, call'[s].req[k]}
                        /\ k > call'[s].merged => handles'[call'[s].cell].ids[k] = Empty
      BY DEF VectorsAreWhole, WellFormed, Num
    <3>1. CASE s = t
      <4>1. handles'[call'[s].cell].ids = NoIds /\ k \in 1 .. Len(Kinds)
        BY <2>2, <2>3, <3>1 DEF NoIds
      <4>2. handles'[call'[s].cell].ids[k] = Empty
        BY <2>1, <4>1
      <4> QED BY <4>2, EmptyIsWhole
    <3>2. CASE s # t
      <4>1. Working(s) /\ call'[s] = call[s] /\ handles'[call[s].cell] = handles[call[s].cell]
        BY <2>2, <2>3, <2>4, <2>6, <3>2
      <4> QED BY <4>1 DEF AuthInv, VectorsAreWhole
    <3> QED BY <3>1, <3>2
  <2> QED BY <2>2, <2>5, <2>7, <2>8, <2>9, <2>10 DEF AuthInv
<1>5. \/ UNCHANGED <<handles, rights, call, pc>>
      \/ \E rq \in Vectors, a \in Cells, n \in Names :
           /\ CreatePort(a, n) /\ Stored(a, n, NoIds)
           /\ call' = [call EXCEPT ![t] = [NoCall EXCEPT !.req = rq, !.cell = a]]
           /\ pc' = [pc EXCEPT ![t] = "merge"]
  BY DEF Makeauth, CreateFails, Stored
<1> QED BY <1>3, <1>4, <1>5

\* What a handler at work knows of its struct.
LEMMA WorkingFacts ==
  ASSUME AuthInv, NEW t \in Threads, Working(t)
  PROVE  /\ call[t].cell \in Live /\ call[t].req \in Vectors
         /\ call[t].merged \in 0 .. Len(Kinds) /\ call[t].newhandle \in Nat
         /\ pc[t] = "merge" => call[t].merged < Len(Kinds)
         /\ call[t] = [req |-> call[t].req, cell |-> call[t].cell,
                       merged |-> call[t].merged, newhandle |-> call[t].newhandle]
         /\ handles[call[t].cell] \in Structs
BY DEF AuthInv, JobShape, Shape

\* One vector is merged.
LEMMA MergeKeeps ==
  ASSUME AuthInv, NEW t \in Threads, Merge(t)
  PROVE  AuthInv'
<1> DEFINE c == call[t].cell
           k == call[t].merged + 1
           req == call[t].req
           h == handles[c]
<1>1. pc[t] = "merge" /\ Working(t)
  BY DEF Merge, Working
<1>2. /\ c \in Live /\ req \in Vectors /\ h \in Structs /\ call[t].merged \in 0 .. Len(Kinds)
      /\ call[t].merged < Len(Kinds) /\ call[t].newhandle \in Nat
      /\ call[t] = [req |-> req, cell |-> c, merged |-> call[t].merged,
                    newhandle |-> call[t].newhandle]
  BY <1>1, WorkingFacts
<1>3. Len(Kinds) \in Nat \ {0}
  BY AuthAssumption
<1>4. k \in 1 .. Len(Kinds)
  BY <1>2, <1>3
<1>5. h.ids \in [1 .. Len(Kinds) -> IdVecs] /\ h.right \in Names /\ h.refs \in 0 .. 1
  BY <1>2 DEF Structs
<1>5a. h = [right |-> h.right, refs |-> h.refs, ids |-> h.ids]
  BY <1>2 DEF Structs
<1>6. WellFormed(h.ids[k]) /\ h.ids[k] = Empty /\ h.ids[k] \in IdVecs
  <2>1. k \in DOMAIN h.ids /\ k > call[t].merged
    BY <1>2, <1>4, <1>5
  <2> QED BY <1>1, <1>4, <1>5, <2>1 DEF AuthInv, VectorsAreWhole
<1>7. PICK r \in MergeIds(h.ids[k], req[k]) :
        handles' = [handles EXCEPT ![c].ids[k] = r.vec]
  BY DEF Merge
<1>8. r.vec \in IdVecs /\ WellFormed(r.vec) /\ r.vec.ids \in {<<>>, req[k]}
  <2>1. req[k] \in Seq(Ids)
    BY <1>2, <1>4, RequestIds
  <2>2. r.vec \in IdVecs /\ WellFormed(r.vec) /\ r.vec.ids \in {Empty.ids, Empty.ids \o req[k]}
    BY <1>6, <1>7, <2>1, MergeKeepsVector
  <2>3. <<>> \o req[k] = req[k]
    BY <2>1
  <2> QED BY <2>2, <2>3, EmptyIsWhole
<1>9. /\ call' = [call EXCEPT ![t].merged = k]
      /\ pc' = [pc EXCEPT ![t] = IF k = Len(Kinds) THEN "getright" ELSE "merge"]
      /\ UNCHANGED <<rights, lost, up, calls>>
  BY DEF Merge
<1> DEFINE g == [h.ids EXCEPT ![k] = r.vec]
           new == [right |-> h.right, refs |-> h.refs, ids |-> g]
<1>10. g \in [1 .. Len(Kinds) -> IdVecs] /\ g[k] = r.vec
       /\ \A j \in 1 .. Len(Kinds) : j # k => g[j] = h.ids[j]
  BY <1>4, <1>5, <1>8
<1>11. handles' = [handles EXCEPT ![c] = new]
  <2>1. handles' = [handles EXCEPT ![c] = [h EXCEPT !.ids = g]]
    BY <1>7
  <2>2. [h EXCEPT !.ids = g] = new
    <3> HIDE DEF g, h
    <3> QED BY <1>5a
  <2> QED BY <2>1, <2>2
<1>12. /\ call'[t] = [req |-> req, cell |-> c, merged |-> k, newhandle |-> call[t].newhandle]
       /\ DOMAIN call' = Threads /\ \A s \in Threads : s # t => call'[s] = call[s]
  BY <1>2, <1>9 DEF AuthInv, Shape
<1> HIDE DEF c, k, req, h, g
<1>13. /\ pc \in [Threads -> {"idle", "merge", "getright", "deref", "free", "reply"}]
       /\ handles \in [Live -> Structs] /\ Live \subseteq Cells
  BY DEF AuthInv, Shape
<1>14. /\ pc' \in [Threads -> {"idle", "merge", "getright", "deref", "free", "reply"}]
       /\ pc'[t] = IF k = Len(Kinds) THEN "getright" ELSE "merge"
       /\ \A s \in Threads : s # t => pc'[s] = pc[s]
  BY <1>9, <1>13
<1>15. new \in Structs /\ new.right = h.right /\ new.refs = h.refs /\ new.ids = g
  BY <1>5, <1>10 DEF Structs
<1>16. /\ Live' = Live /\ handles' \in [Live' -> Structs] /\ handles'[c] = new
       /\ \A a \in Live : a # c => handles'[a] = handles[a]
  BY <1>2, <1>11, <1>13, <1>15 DEF Live
<1> HIDE DEF new
<1>17. \A s \in Threads : Working(s)' <=> Working(s)
  BY <1>1, <1>14 DEF Working
<1>18. \A s \in Threads : call'[s].cell = call[s].cell /\ call'[s].req = call[s].req
  BY <1>12 DEF c, req
<1>19. Shape'
  BY <1>9, <1>12, <1>13, <1>14, <1>16 DEF AuthInv, Shape
<1>20. JobShape'
  <2> SUFFICES ASSUME NEW s \in Threads, Working(s)'
               PROVE  /\ call'[s] \in [req : Vectors, cell : Live', merged : 0 .. Len(Kinds),
                                       newhandle : Nat]
                      /\ pc'[s] = "merge" => call'[s].merged < Len(Kinds)
    BY DEF JobShape
  <2>1. CASE s = t
    <3>1. k \in 0 .. Len(Kinds) /\ (k # Len(Kinds) => k < Len(Kinds))
      BY <1>3, <1>4
    <3> QED BY <1>2, <1>12, <1>14, <1>16, <2>1, <3>1
  <2>2. CASE s # t
    <3>1. /\ call[s] \in [req : Vectors, cell : Live, merged : 0 .. Len(Kinds),
                          newhandle : Nat]
          /\ pc[s] = "merge" => call[s].merged < Len(Kinds)
      BY <1>17 DEF AuthInv, JobShape
    <3> QED BY <1>12, <1>14, <1>16, <2>2, <3>1
  <2> QED BY <2>1, <2>2
<1>21. OwnRights'
  <2>1. \A a \in Live : handles'[a].right = handles[a].right /\ handles'[a].refs = handles[a].refs
    BY <1>15, <1>16 DEF h
  <2> QED BY <1>9, <1>16, <2>1 DEF AuthInv, OwnRights
<1>22. OwnCells'
  BY <1>17, <1>18 DEF AuthInv, OwnCells
<1>23. AllOwned'
  BY <1>9, <1>16, <1>17, <1>18 DEF AuthInv, AllOwned
<1>24. VectorsAreWhole'
  <2> SUFFICES ASSUME NEW s \in Threads, Working(s)', NEW j \in DOMAIN handles'[call'[s].cell].ids
               PROVE  /\ WellFormed(handles'[call'[s].cell].ids[j])
                      /\ handles'[call'[s].cell].ids[j].ids \in {<<>>, call'[s].req[j]}
                      /\ j > call'[s].merged => handles'[call'[s].cell].ids[j] = Empty
    BY DEF VectorsAreWhole, WellFormed, Num
  <2>1. CASE s = t
    <3>1. handles'[call'[s].cell].ids = g /\ call'[s].req = req /\ call'[s].merged = k
          /\ j \in 1 .. Len(Kinds)
      BY <1>10, <1>12, <1>15, <1>16, <2>1
    <3>2. CASE j = k
      <4>1. ~(j > k)
        BY <1>3, <1>4, <3>2
      <4> QED BY <1>8, <1>10, <3>1, <3>2, <4>1
    <3>3. CASE j # k
      <4>1. g[j] = h.ids[j] /\ j \in DOMAIN h.ids
        BY <1>5, <1>10, <3>1, <3>3
      <4>2. /\ WellFormed(h.ids[j]) /\ h.ids[j].ids \in {<<>>, req[j]}
            /\ j > call[t].merged => h.ids[j] = Empty
        BY <1>1, <4>1 DEF AuthInv, VectorsAreWhole, h, c, req
      <4>3. j > k => j > call[t].merged
        BY <1>2, <1>3, <3>1 DEF k
      <4> QED BY <3>1, <4>1, <4>2, <4>3
    <3> QED BY <3>2, <3>3
  <2>2. CASE s # t
    <3>1. Working(s) /\ call'[s] = call[s] /\ call[s].cell \in Live
      BY <1>12, <1>17, <2>2, WorkingFacts
    <3>2. call[s].cell # c
      BY <1>1, <2>2, <3>1 DEF AuthInv, OwnCells, c
    <3>3. handles'[call[s].cell] = handles[call[s].cell]
      BY <1>16, <3>1, <3>2
    <3> QED BY <3>1, <3>3 DEF AuthInv, VectorsAreWhole
  <2> QED BY <2>1, <2>2
<1> QED BY <1>19, <1>20, <1>21, <1>22, <1>23, <1>24 DEF AuthInv

\* A thread goes on, without touching the structs, the rights or who works.
LEMMA GetRightKeeps ==
  ASSUME AuthInv, NEW t \in Threads, GetRight(t)
  PROVE  AuthInv'
<1>1. Working(t) /\ pc[t] = "getright"
  BY DEF GetRight, Working
<1>2. /\ call[t].cell \in Live /\ call[t].req \in Vectors /\ call[t].merged \in 0 .. Len(Kinds)
      /\ call[t] = [req |-> call[t].req, cell |-> call[t].cell,
                    merged |-> call[t].merged, newhandle |-> call[t].newhandle]
      /\ handles[call[t].cell] \in Structs
  BY <1>1, WorkingFacts
<1>3. handles[call[t].cell].right \in Nat
  BY <1>2, AuthAssumption DEF Structs, Names
<1>4. /\ pc' = [pc EXCEPT ![t] = "deref"]
      /\ call' = [call EXCEPT ![t].newhandle = handles[call[t].cell].right]
      /\ UNCHANGED <<handles, rights, lost, up, calls>> /\ Live' = Live
  BY DEF GetRight, Live
<1>5. /\ pc' \in [Threads -> {"idle", "merge", "getright", "deref", "free", "reply"}]
      /\ pc'[t] = "deref" /\ \A s \in Threads : s # t => pc'[s] = pc[s]
  BY <1>4 DEF AuthInv, Shape
<1>6. /\ call'[t] = [req |-> call[t].req, cell |-> call[t].cell, merged |-> call[t].merged,
                     newhandle |-> handles[call[t].cell].right]
      /\ DOMAIN call' = Threads /\ \A s \in Threads : s # t => call'[s] = call[s]
  BY <1>2, <1>4 DEF AuthInv, Shape
<1>7. \A s \in Threads : Working(s)' <=> Working(s)
  BY <1>1, <1>5 DEF Working
<1>8. \A s \in Threads : /\ call'[s].cell = call[s].cell /\ call'[s].req = call[s].req
                         /\ call'[s].merged = call[s].merged
  BY <1>6
<1>9. Shape'
  BY <1>4, <1>5, <1>6 DEF AuthInv, Shape
<1>10. JobShape'
  <2> SUFFICES ASSUME NEW s \in Threads, Working(s)'
               PROVE  /\ call'[s] \in [req : Vectors, cell : Live, merged : 0 .. Len(Kinds),
                                       newhandle : Nat]
                      /\ pc'[s] = "merge" => call'[s].merged < Len(Kinds)
    BY <1>4 DEF JobShape
  <2>1. CASE s = t
    BY <1>2, <1>3, <1>5, <1>6, <2>1
  <2>2. CASE s # t
    BY <1>5, <1>6, <1>7, <2>2 DEF AuthInv, JobShape
  <2> QED BY <2>1, <2>2
<1>11. OwnRights' /\ OwnCells' /\ AllOwned'
  BY <1>4, <1>7, <1>8 DEF AuthInv, OwnRights, OwnCells, AllOwned
<1>12. VectorsAreWhole'
  BY <1>4, <1>7, <1>8 DEF AuthInv, VectorsAreWhole
<1> QED BY <1>9, <1>10, <1>11, <1>12 DEF AuthInv

\* The last reference is dropped and the right goes, or stays.
LEMMA DerefKeeps ==
  ASSUME AuthInv, NEW t \in Threads, Deref(t)
  PROVE  AuthInv'
<1> DEFINE c == call[t].cell
           h == handles[c]
           new == [right |-> h.right, refs |-> 0, ids |-> h.ids]
<1>1. /\ Working(t) /\ pc[t] = "deref" /\ pc' = [pc EXCEPT ![t] = "free"]
      /\ h.refs = 1 /\ handles' = [handles EXCEPT ![c].refs = 0]
      /\ rights' \in {rights, rights \ {h.right}}
      /\ UNCHANGED <<lost, up, call, calls>>
  BY DEF Deref, Deallocate, Working
<1>2. c \in Live /\ h \in Structs /\ h = [right |-> h.right, refs |-> h.refs, ids |-> h.ids]
  BY <1>1, WorkingFacts DEF Structs
<1>3. handles' = [handles EXCEPT ![c] = new]
  <2>1. [h EXCEPT !.refs = 0] = new
    BY <1>2
  <2> QED BY <1>1, <2>1
<1>4. new \in Structs /\ new.refs = 0 /\ new.ids = h.ids
  BY <1>2 DEF Structs
<1> HIDE DEF c, h, new
<1>5. /\ Live' = Live /\ handles' \in [Live' -> Structs] /\ handles'[c] = new
      /\ \A a \in Live : a # c => handles'[a] = handles[a]
  BY <1>2, <1>3, <1>4 DEF AuthInv, Shape, Live
<1>6. /\ pc' \in [Threads -> {"idle", "merge", "getright", "deref", "free", "reply"}]
      /\ pc'[t] = "free" /\ \A s \in Threads : s # t => pc'[s] = pc[s]
  BY <1>1 DEF AuthInv, Shape
<1>7. \A s \in Threads : Working(s)' <=> Working(s)
  BY <1>1, <1>6 DEF Working
<1>8. Shape'
  BY <1>1, <1>5, <1>6 DEF AuthInv, Shape
<1>9. JobShape'
  <2> SUFFICES ASSUME NEW s \in Threads, Working(s)'
               PROVE  /\ call[s] \in [req : Vectors, cell : Live, merged : 0 .. Len(Kinds),
                                      newhandle : Nat]
                      /\ pc'[s] = "merge" => call[s].merged < Len(Kinds)
    BY <1>1, <1>5 DEF JobShape
  <2> QED BY <1>6, <1>7 DEF AuthInv, JobShape
<1>10. OwnRights'
  <2> SUFFICES ASSUME NEW a \in Live, handles'[a].refs > 0
               PROVE  /\ handles'[a].right \in rights'
                      /\ \A b \in Live : handles'[b].refs > 0 /\ handles'[b].right = handles'[a].right
                                          => a = b
    BY <1>5 DEF OwnRights
  <2>1. \A b \in Live : handles'[b].refs > 0 => b # c /\ handles'[b] = handles[b]
    BY <1>4, <1>5
  <2>2. a # c /\ handles[a].refs > 0 /\ handles[a].right \in rights
    BY <2>1 DEF AuthInv, OwnRights
  <2>3. handles[a].right # h.right
    <3>1. handles[c].refs > 0
      BY <1>1 DEF h
    <3> QED BY <1>2, <2>2, <3>1 DEF AuthInv, OwnRights, h
  <2>4. handles'[a].right \in rights'
    BY <1>1, <2>1, <2>2, <2>3
  <2>5. ASSUME NEW b \in Live, handles'[b].refs > 0, handles'[b].right = handles'[a].right
        PROVE  a = b
    <3>1. handles[b].refs > 0 /\ handles[b].right = handles[a].right
      BY <2>1, <2>5
    <3> QED BY <2>2, <3>1 DEF AuthInv, OwnRights
  <2> QED BY <2>4, <2>5
<1>11. OwnCells' /\ AllOwned'
  BY <1>1, <1>5, <1>7 DEF AuthInv, OwnCells, AllOwned
<1>12. VectorsAreWhole'
  <2> SUFFICES ASSUME NEW s \in Threads, Working(s)', NEW j \in DOMAIN handles'[call'[s].cell].ids
               PROVE  /\ WellFormed(handles'[call'[s].cell].ids[j])
                      /\ handles'[call'[s].cell].ids[j].ids \in {<<>>, call'[s].req[j]}
                      /\ j > call'[s].merged => handles'[call'[s].cell].ids[j] = Empty
    BY DEF VectorsAreWhole, WellFormed, Num
  <2>1. Working(s) /\ call'[s] = call[s] /\ call[s].cell \in Live
    BY <1>1, <1>7, WorkingFacts
  <2>2. handles'[call[s].cell].ids = handles[call[s].cell].ids
    BY <1>4, <1>5, <2>1 DEF h
  <2> QED BY <2>1, <2>2 DEF AuthInv, VectorsAreWhole
<1> QED BY <1>8, <1>9, <1>10, <1>11, <1>12 DEF AuthInv

\* The struct goes.
LEMMA FreeKeeps ==
  ASSUME AuthInv, NEW t \in Threads, Free(t)
  PROVE  AuthInv'
<1> DEFINE c == call[t].cell
<1>1. Working(t) /\ pc[t] = "free" /\ Release(c) /\ pc' = [pc EXCEPT ![t] = "reply"]
      /\ UNCHANGED <<rights, up, call, calls>>
  BY DEF Free, Working
<1>2. c \in Live /\ handles[c] \in Structs
  BY <1>1, WorkingFacts
<1>3. /\ handles' = [a \in Live \ {c} |-> handles[a]]
      /\ lost' = lost + Blocks(handles[c])
  BY <1>1 DEF Release
<1> HIDE DEF c
<1>4. Live' = Live \ {c} /\ \A a \in Live' : handles'[a] = handles[a]
  BY <1>3 DEF Live
<1>5. /\ pc' \in [Threads -> {"idle", "merge", "getright", "deref", "free", "reply"}]
      /\ pc'[t] = "reply" /\ \A s \in Threads : s # t => pc'[s] = pc[s]
  BY <1>1 DEF AuthInv, Shape
<1>6. ~Working(t)' /\ \A s \in Threads : s # t => (Working(s)' <=> Working(s))
  BY <1>5 DEF Working
<1>7. \A s \in Threads : Working(s)' => Working(s) /\ s # t /\ call[s].cell \in Live /\ call[s].cell # c
  BY <1>1, <1>6, WorkingFacts DEF AuthInv, OwnCells, c
<1>8. lost' \in Nat
  <2> DEFINE B == {k \in DOMAIN handles[c].ids : handles[c].ids[k].alloced > 0}
  <2>1. DOMAIN handles[c].ids = 1 .. Len(Kinds)
    BY <1>2 DEF Structs
  <2>2. IsFiniteSet(1 .. Len(Kinds))
    BY AuthAssumption, FS_Interval
  <2>3. B \in SUBSET (1 .. Len(Kinds))
    BY <2>1
  <2> HIDE DEF B
  <2>4. Cardinality(B) \in Nat
    BY <2>2, <2>3, FS_Subset, FS_CardinalityType
  <2>5. Blocks(handles[c]) = Cardinality(B)
    BY DEF Blocks, B
  <2>6. lost \in Nat
    BY DEF AuthInv, Shape
  <2> QED BY <1>3, <2>4, <2>5, <2>6
<1>9. Shape'
  <2>1. handles' \in [Live' -> Structs]
    BY <1>3, <1>4 DEF AuthInv, Shape
  <2>2. Live' \subseteq Cells /\ rights' \subseteq Names
    BY <1>1, <1>4 DEF AuthInv, Shape
  <2> QED BY <1>1, <1>5, <1>8, <2>1, <2>2 DEF AuthInv, Shape
<1>10. JobShape'
  <2> SUFFICES ASSUME NEW s \in Threads, Working(s)'
               PROVE  /\ call[s] \in [req : Vectors, cell : Live', merged : 0 .. Len(Kinds),
                                      newhandle : Nat]
                      /\ pc'[s] = "merge" => call[s].merged < Len(Kinds)
    BY <1>1 DEF JobShape
  <2>1. /\ call[s] \in [req : Vectors, cell : Live, merged : 0 .. Len(Kinds), newhandle : Nat]
        /\ pc[s] = "merge" => call[s].merged < Len(Kinds)
    BY <1>7 DEF AuthInv, JobShape
  <2>2. call[s].cell \in Live' /\ pc'[s] = pc[s]
    BY <1>4, <1>5, <1>7
  <2> QED BY <2>1, <2>2
<1>11. OwnRights'
  <2>1. \A a \in Live' : a \in Live /\ handles'[a] = handles[a]
    BY <1>4
  <2> QED BY <1>1, <2>1 DEF AuthInv, OwnRights
<1>12. OwnCells'
  BY <1>1, <1>7 DEF AuthInv, OwnCells
<1>13. AllOwned'
  <2>1. up
    BY <1>1 DEF AuthInv, AllOwned
  <2>2. PICK root \in Live :
          /\ \A s \in Threads : Working(s) => call[s].cell # root
          /\ \A a \in Live \ {root} : \E s \in Threads : Working(s) /\ call[s].cell = a
    BY <2>1 DEF AuthInv, AllOwned
  <2>3. root \in Live' /\ \A s \in Threads : Working(s)' => call'[s].cell # root
    BY <1>1, <1>4, <1>7, <2>2 DEF c
  <2>4. ASSUME NEW a \in Live' \ {root} PROVE \E s \in Threads : Working(s)' /\ call'[s].cell = a
    <3>1. PICK s \in Threads : Working(s) /\ call[s].cell = a
      BY <1>4, <2>2
    <3>2. s # t
      BY <1>4, <3>1 DEF c
    <3> QED BY <1>1, <1>6, <3>1, <3>2
  <2> QED BY <1>1, <2>1, <2>3, <2>4 DEF AllOwned
<1>14. VectorsAreWhole'
  <2> SUFFICES ASSUME NEW s \in Threads, Working(s)', NEW j \in DOMAIN handles'[call'[s].cell].ids
               PROVE  /\ WellFormed(handles'[call'[s].cell].ids[j])
                      /\ handles'[call'[s].cell].ids[j].ids \in {<<>>, call'[s].req[j]}
                      /\ j > call'[s].merged => handles'[call'[s].cell].ids[j] = Empty
    BY DEF VectorsAreWhole, WellFormed, Num
  <2>1. Working(s) /\ call'[s] = call[s] /\ handles'[call[s].cell] = handles[call[s].cell]
    BY <1>1, <1>4, <1>7
  <2> QED BY <2>1 DEF AuthInv, VectorsAreWhole
<1> QED BY <1>9, <1>10, <1>11, <1>12, <1>13, <1>14 DEF AuthInv

\* A thread that does no work goes on to another such place.
LEMMA RestKeeps ==
  ASSUME AuthInv, UNCHANGED <<handles, rights, lost, up, calls>>,
         pc' \in [Threads -> {"idle", "merge", "getright", "deref", "free", "reply"}],
         DOMAIN call' = Threads,
         \A s \in Threads : /\ Working(s)' <=> Working(s)
                            /\ Working(s) => pc'[s] = pc[s] /\ call'[s] = call[s]
  PROVE  AuthInv'
<1>1. Live' = Live
  BY DEF Live
<1>2. Shape' /\ JobShape'
  BY <1>1 DEF AuthInv, Shape, JobShape
<1>3. OwnRights' /\ OwnCells' /\ AllOwned'
  BY <1>1 DEF AuthInv, OwnRights, OwnCells, AllOwned
<1>4. VectorsAreWhole'
  <2> SUFFICES ASSUME NEW s \in Threads, Working(s)', NEW j \in DOMAIN handles'[call'[s].cell].ids
               PROVE  /\ WellFormed(handles'[call'[s].cell].ids[j])
                      /\ handles'[call'[s].cell].ids[j].ids \in {<<>>, call'[s].req[j]}
                      /\ j > call'[s].merged => handles'[call'[s].cell].ids[j] = Empty
    BY DEF VectorsAreWhole, WellFormed, Num
  <2>1. Working(s) /\ call'[s] = call[s] /\ handles' = handles
    OBVIOUS
  <2> QED BY <2>1 DEF AuthInv, VectorsAreWhole
<1> QED BY <1>2, <1>3, <1>4 DEF AuthInv

\* Every step keeps the invariant.
LEMMA AuthStep == AuthInv /\ [Next]_vars => AuthInv'
<1> SUFFICES ASSUME AuthInv, [Next]_vars PROVE AuthInv'
  OBVIOUS
<1>1. ASSUME NEW t \in Threads, Reply(t) PROVE AuthInv'
  <2>1. /\ UNCHANGED <<handles, rights, lost, up, calls>> /\ pc[t] = "reply"
        /\ pc' = [pc EXCEPT ![t] = "idle"] /\ call' = [call EXCEPT ![t] = NoCall]
    BY <1>1 DEF Reply
  <2>2. /\ pc' \in [Threads -> {"idle", "merge", "getright", "deref", "free", "reply"}]
        /\ pc'[t] = "idle" /\ DOMAIN call' = Threads
        /\ \A s \in Threads : s # t => pc'[s] = pc[s] /\ call'[s] = call[s]
    BY <2>1 DEF AuthInv, Shape
  <2>3. \A s \in Threads : /\ Working(s)' <=> Working(s)
                           /\ Working(s) => pc'[s] = pc[s] /\ call'[s] = call[s]
    BY <2>1, <2>2 DEF Working
  <2> QED BY <2>1, <2>2, <2>3, RestKeeps
<1>2. CASE UNCHANGED vars
  <2>1. UNCHANGED <<handles, rights, lost, up, pc, call, calls>>
    BY <1>2 DEF vars
  <2>2. \A s \in Threads : /\ Working(s)' <=> Working(s)
                           /\ Working(s) => pc'[s] = pc[s] /\ call'[s] = call[s]
    BY <2>1 DEF Working
  <2> QED BY <2>1, <2>2, RestKeeps DEF AuthInv, Shape
<1> QED
  BY <1>1, <1>2, ServerInitKeeps, MakeauthKeeps, MergeKeeps, GetRightKeeps, DerefKeeps, FreeKeeps DEF Next

\* The inductive invariant, of every behaviour.
LEMMA AuthAlways == Spec => []AuthInv
BY AuthInit, AuthStep, PTL DEF Spec

-----------------------------------------------------------------------------
(* The properties.                                                         *)

(***************************************************************************)
(* The variables of the auth server keep their types: no struct outlives   *)
(* its one reference, and every one has all of its vectors.                *)
(***************************************************************************)
THEOREM TypeCorrect == Spec => []TypeOK
<1>1. AuthInv => TypeOK
  <2> SUFFICES ASSUME AuthInv PROVE TypeOK
    OBVIOUS
  <2>1. \A a \in Live : /\ handles[a].right \in Names /\ handles[a].refs \in 0 .. 1
                        /\ DOMAIN handles[a].ids = 1 .. Len(Kinds)
    BY DEF AuthInv, Shape, Structs
  <2> QED BY <2>1 DEF AuthInv, Shape, TypeOK
<1> QED BY <1>1, AuthAlways, PTL

\* As many structs as handlers at work, and the root's: the handlers' cells
\* are a one-to-one map onto the others.
LEMMA CountOfHandles ==
  ASSUME AuthInv
  PROVE  Cardinality(Live) = Cardinality({t \in Threads : Working(t)}) + (IF up THEN 1 ELSE 0)
<1> DEFINE W == {t \in Threads : Working(t)}
<1>1. IsFiniteSet(Live)
  <2>1. IsFiniteSet(Cells)
    BY AuthAssumption, FS_Interval DEF Cells
  <2>2. Live \in SUBSET Cells
    BY DEF AuthInv, Shape
  <2> QED BY <2>1, <2>2, FS_Subset
<1>2. CASE ~up
  <2>1. Live = {} /\ W = {}
    BY <1>2 DEF AuthInv, AllOwned
  <2> QED BY <1>2, <2>1, FS_EmptySet
<1>3. CASE up
  <2>1. PICK root \in Live :
          /\ \A t \in Threads : Working(t) => call[t].cell # root
          /\ \A a \in Live \ {root} : \E t \in Threads : Working(t) /\ call[t].cell = a
    BY <1>3 DEF AuthInv, AllOwned
  <2> DEFINE f == [t \in W |-> call[t].cell]
             T == Live \ {root}
  <2>2. IsFiniteSet(T) /\ Cardinality(T) = Cardinality(Live) - 1
    BY <1>1, FS_RemoveElement
  <2>3. f \in [W -> T]
    BY <2>1, WorkingFacts
  <2>4. f \in Injection(W, T)
    <3>1. \A s, t \in W : f[s] = f[t] => s = t
      BY DEF AuthInv, OwnCells
    <3> QED BY <2>3, <3>1 DEF Injection, IsInjective
  <2>5. f \in Surjection(W, T)
    <3>1. \A a \in T : \E t \in W : f[t] = a
      BY <2>1
    <3> QED BY <2>3, <3>1 DEF Surjection
  <2> HIDE DEF f, T
  <2>6. Cardinality(W) = Cardinality(T)
    BY <2>2, <2>4, <2>5, FS_Injection
  <2>7. Cardinality(Live) \in Nat
    BY <1>1, FS_CardinalityType
  <2> QED BY <1>3, <2>2, <2>6, <2>7
<1> QED BY <1>2, <1>3

(***************************************************************************)
(* Handlers of auth_makeauth that interleave: every struct in memory is    *)
(* the root's or one handler's, and has a right of its own as long as it   *)
(* has a reference (HandlesAreOwned).                                      *)
(***************************************************************************)
THEOREM HandlesStayOwned == Spec => []HandlesAreOwned
<1>1. AuthInv => HandlesAreOwned
  BY CountOfHandles DEF AuthInv, OwnCells, OwnRights, HandlesAreOwned
<1> QED BY <1>1, AuthAlways, PTL

(***************************************************************************)
(* idvec_merge_ids with a realloc that may fail: each vector has all of    *)
(* the ids of its kind or none, within a block of the right size           *)
(* (VectorsAreWhole).                                                      *)
(***************************************************************************)
THEOREM VectorsStayWhole == Spec => []VectorsAreWhole
BY AuthAlways, PTL DEF AuthInv
=============================================================================
