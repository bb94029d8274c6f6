-------------------------- MODULE RefCountsProofs --------------------------
(***************************************************************************)
(* What refcount.h guarantees for every width of the halves, every number  *)
(* of threads and every finite number of references.                       *)
(***************************************************************************)
EXTENDS RefCounts, FiniteSetTheorems, TLAPS

-----------------------------------------------------------------------------
(* Arithmetic of the packed word.                                          *)

\* No operation leaves the 64-bit word.
LEMMA FetchType ==
  ASSUME NEW w \in Words, NEW h \in Halves, NEW k \in Halves
  PROVE  /\ AddFetch(w, REFCOUNT_REFERENCES(h, k)) \in Words
         /\ SubFetch(w, REFCOUNT_REFERENCES(h, k)) \in Words
<1> DEFINE op == REFCOUNT_REFERENCES(h, k)
<1>1. /\ w.hard \in Halves /\ w.weak \in Halves
      /\ op.hard = h /\ op.weak = k
  BY DEF Words, REFCOUNT_REFERENCES
<1>2. \A n \in Int : -Half <= n /\ n < 2 * Half => Wrap(n) \in Halves
  BY HalfAssumption DEF Wrap, Halves, UINT32_MAX
<1> HIDE DEF op
<1>3. /\ Wrap(w.hard + op.hard) \in Halves
      /\ Wrap(w.hard - op.hard) \in Halves
      /\ Wrap(w.weak + op.weak + Carry(w.hard + op.hard)) \in Halves
      /\ Wrap(w.weak - op.weak + Carry(w.hard - op.hard)) \in Halves
  BY <1>1, <1>2, HalfAssumption DEF Carry, Halves, UINT32_MAX
<1> QED BY <1>3 DEF AddFetch, SubFetch, Words, op

\* An operation yields a word.
LEMMA NewWordType ==
  ASSUME NEW w \in Words, NEW op \in RefOps
  PROVE  NewWord(op, w) \in Words
<1>1. 0 \in Halves /\ 1 \in Halves /\ UINT32_MAX \in Halves
  BY HalfAssumption DEF Halves, UINT32_MAX
<1> QED BY <1>1, FetchType DEF NewWord, RefOps

\* Below the overflow mark, every operation moves single references and no
\* carry disturbs the other half; the caller's own reference is what keeps a
\* count that is decremented above zero.
LEMMA NewWordExact ==
  ASSUME NEW w \in Words, w.hard < UINT32_MAX, w.weak < UINT32_MAX
  PROVE  /\ \A op \in {"unsafe_ref", "ref"} :
              NewWord(op, w) = REFCOUNT_REFERENCES(w.hard + 1, w.weak)
         /\ \A op \in {"unsafe_ref_weak", "ref_weak"} :
              NewWord(op, w) = REFCOUNT_REFERENCES(w.hard, w.weak + 1)
         /\ w.hard > 0 =>
              /\ NewWord("deref", w) = REFCOUNT_REFERENCES(w.hard - 1, w.weak)
              /\ NewWord("demote", w) = REFCOUNT_REFERENCES(w.hard - 1, w.weak + 1)
         /\ w.weak > 0 =>
              /\ NewWord("deref_weak", w) = REFCOUNT_REFERENCES(w.hard, w.weak - 1)
              /\ NewWord("promote", w) = REFCOUNT_REFERENCES(w.hard + 1, w.weak - 1)
BY HalfAssumption
DEF NewWord, AddFetch, SubFetch, Wrap, Carry, Words, Halves,
    UINT32_MAX, REFCOUNT_REFERENCES

-----------------------------------------------------------------------------
(* Type correctness.                                                       *)

\* Types at the start.
LEMMA InitTypeOK == Init => TypeOK
<1>1. REFCOUNT_REFERENCES(1, 0) \in Words /\ Zero \in Words
  BY HalfAssumption DEF Zero, Words, Halves, UINT32_MAX, REFCOUNT_REFERENCES
<1>2. ASSUME Init PROVE kind \in [Refs -> Kinds]
  BY <1>2 DEF Init, Kinds
<1>3. ASSUME Init
      PROVE  pc \in [Threads -> RefOps \cup {"idle"}] /\ result \in [Threads -> Words]
  BY <1>1, <1>3 DEF Init
<1>4. ASSUME Init PROVE aborted \in BOOLEAN
  BY <1>4, Zenon DEF Init
<1>5. ASSUME Init PROVE word \in Words /\ told \in Nat
  BY <1>1, <1>5 DEF Init
<1> QED BY <1>2, <1>3, <1>4, <1>5, Zenon DEF TypeOK

\* Every step keeps the types.
LEMMA NextTypeOK == TypeOK /\ [Next]_vars => TypeOK'
<1> SUFFICES ASSUME TypeOK, [Next]_vars PROVE TypeOK'
  OBVIOUS
<1> USE DEF TypeOK
<1>1. ASSUME NEW t \in Threads, NEW op \in RefOps, Atomic(t, op),
             kind' \in [Refs -> Kinds]
      PROVE  TypeOK'
  BY <1>1, NewWordType DEF Atomic
<1>2. ASSUME NEW r \in Refs, NEW from \in Kinds, NEW to \in Kinds, Turn(r, from, to)
      PROVE  kind' \in [Refs -> Kinds]
  BY <1>2 DEF Turn
<1>3. CASE UNCHANGED vars
  BY <1>3 DEF vars
<1>4. ASSUME NEW t \in Threads, Ref(t) PROVE TypeOK'
  BY <1>1, <1>2, <1>4 DEF Ref, Kinds, RefOps
<1>5. ASSUME NEW t \in Threads, RefWeak(t) PROVE TypeOK'
  BY <1>1, <1>2, <1>5 DEF RefWeak, Kinds, RefOps
<1>6. ASSUME NEW t \in Threads, Deref(t) PROVE TypeOK'
  BY <1>1, <1>2, <1>6 DEF Deref, Kinds, RefOps
<1>7. ASSUME NEW t \in Threads, DerefWeak(t) PROVE TypeOK'
  BY <1>1, <1>2, <1>7 DEF DerefWeak, Kinds, RefOps
<1>8. ASSUME NEW t \in Threads, Promote(t) PROVE TypeOK'
  BY <1>1, <1>2, <1>8 DEF Promote, Kinds, RefOps
<1>9. ASSUME NEW t \in Threads, Demote(t) PROVE TypeOK'
  BY <1>1, <1>2, <1>9 DEF Demote, Kinds, RefOps
<1>10. ASSUME NEW t \in Threads, StaleRef(t) PROVE TypeOK'
  BY <1>1, <1>10, StaleAssumption DEF StaleRef, RefOps
<1>11. ASSUME NEW t \in Threads, Abort(t) PROVE TypeOK'
  BY <1>11 DEF Abort
<1>12. ASSUME NEW t \in Threads, Return(t) PROVE TypeOK'
  BY <1>12, HalfAssumption
  DEF Return, Zero, REFCOUNT_REFERENCES, Words, Halves, UINT32_MAX
<1> QED
  BY <1>3, <1>4, <1>5, <1>6, <1>7, <1>8, <1>9, <1>10, <1>11, <1>12 DEF Next

\* Type correctness of the packed counter and of what its callers hold.
THEOREM TypeCorrect == Spec => []TypeOK
BY InitTypeOK, NextTypeOK, PTL DEF Spec

-----------------------------------------------------------------------------
(* Counting references.                                                    *)

HardCount == Cardinality(Hard)
WeakCount == Cardinality(Weak)

\* The references of each kind can be counted.
LEMMA Finite ==
  /\ IsFiniteSet(Hard) /\ HardCount \in Nat /\ (HardCount = 0 <=> Hard = {})
  /\ IsFiniteSet(Weak) /\ WeakCount \in Nat /\ (WeakCount = 0 <=> Weak = {})
<1>1. IsFiniteSet(Hard) /\ IsFiniteSet(Weak)
  BY RefsAssumption, FS_Subset DEF Hard, Weak
<1> QED BY <1>1, FS_CardinalityType, FS_EmptySet DEF HardCount, WeakCount

\* Turning one reference changes each count by at most one.
LEMMA TurnCounts ==
  ASSUME TypeOK, NEW r \in Refs, NEW from \in Kinds, NEW to \in Kinds,
         from # to, Turn(r, from, to)
  PROVE  /\ HardCount' = HardCount + (IF to = "hard" THEN 1 ELSE 0)
                                   - (IF from = "hard" THEN 1 ELSE 0)
         /\ WeakCount' = WeakCount + (IF to = "weak" THEN 1 ELSE 0)
                                   - (IF from = "weak" THEN 1 ELSE 0)
         /\ from = "hard" => HardCount > 0
         /\ from = "weak" => WeakCount > 0
<1> USE DEF TypeOK, Turn
<1>1. /\ to = "hard" => Hard' = Hard \cup {r} /\ r \notin Hard
      /\ from = "hard" => Hard' = Hard \ {r} /\ r \in Hard
      /\ to # "hard" /\ from # "hard" => Hard' = Hard
  BY DEF Hard
<1>2. /\ to = "weak" => Weak' = Weak \cup {r} /\ r \notin Weak
      /\ from = "weak" => Weak' = Weak \ {r} /\ r \in Weak
      /\ to # "weak" /\ from # "weak" => Weak' = Weak
  BY DEF Weak
<1> HIDE DEF Turn, TypeOK
<1>3. ASSUME NEW S, IsFiniteSet(S)
      PROVE  /\ r \notin S => Cardinality(S \cup {r}) = Cardinality(S) + 1
             /\ r \in S => /\ Cardinality(S \ {r}) = Cardinality(S) - 1
                           /\ S # {}
  BY <1>3, FS_AddElement, FS_RemoveElement
<1>4. /\ to = "hard" => HardCount' = HardCount + 1
      /\ from = "hard" => HardCount' = HardCount - 1 /\ HardCount > 0
      /\ to # "hard" /\ from # "hard" => HardCount' = HardCount
  <2>1. HardCount' = Cardinality(Hard') /\ HardCount = Cardinality(Hard)
    BY DEF HardCount
  <2> QED BY <1>1, <1>3, <2>1, Finite
<1>5. /\ to = "weak" => WeakCount' = WeakCount + 1
      /\ from = "weak" => WeakCount' = WeakCount - 1 /\ WeakCount > 0
      /\ to # "weak" /\ from # "weak" => WeakCount' = WeakCount
  <2>1. WeakCount' = Cardinality(Weak') /\ WeakCount = Cardinality(Weak)
    BY DEF WeakCount
  <2> QED BY <1>2, <1>3, <2>1, Finite
<1> QED BY <1>4, <1>5, Finite

-----------------------------------------------------------------------------
(* The inductive invariant.  Neither half may be at the overflow mark       *)
(* without some thread being about to fail its assertion: this is what      *)
(* keeps the next addition from carrying into the other half.               *)

Exact == word = REFCOUNT_REFERENCES(HardCount, WeakCount)

BelowLimit == HardCount < UINT32_MAX /\ WeakCount < UINT32_MAX

TellOnce ==
  \/ Outstanding # {} /\ told = 0 /\ Tellers = {}
  \/ Outstanding = {} /\ told = 1 /\ Tellers = {}
  \/ Outstanding = {} /\ told = 0 /\ \E t \in Threads : Tellers = {t}

IInv == TypeOK /\ (~Doomed => Exact /\ BelowLimit /\ TellOnce)

\* A failing assertion stays failing until it has stopped the process.
LEMMA DoomedStays == ASSUME TypeOK, [Next]_vars, Doomed PROVE Doomed'
<1> USE DEF TypeOK, Doomed, Failing
<1>1. ASSUME NEW t \in Threads, NEW op \in RefOps, Atomic(t, op)
      PROVE  Doomed'
  BY <1>1 DEF Atomic
<1>2. ASSUME NEW t \in Threads, Abort(t) PROVE Doomed'
  BY <1>2 DEF Abort
<1>3. ASSUME NEW t \in Threads, Return(t) PROVE Doomed'
  BY <1>3 DEF Return
<1>4. CASE UNCHANGED vars
  BY <1>4 DEF vars
<1>5. ASSUME NEW t \in Threads,
             \/ Ref(t) \/ RefWeak(t) \/ Deref(t) \/ DerefWeak(t)
             \/ Promote(t) \/ Demote(t) \/ StaleRef(t)
      PROVE  \E op \in RefOps : Atomic(t, op)
  BY <1>5, StaleAssumption
  DEF Ref, RefWeak, Deref, DerefWeak, Promote, Demote, StaleRef, RefOps
<1> QED BY <1>1, <1>2, <1>3, <1>4, <1>5 DEF Next

\* Operation op of thread t moved at most one reference of each kind, left
\* the exact counts in the word, and checks the half that it raised.
Moved(t, op) ==
  /\ Atomic(t, op)
  /\ word' = REFCOUNT_REFERENCES(HardCount', WeakCount')
  /\ HardCount' \in {HardCount - 1, HardCount, HardCount + 1}
  /\ WeakCount' \in {WeakCount - 1, WeakCount, WeakCount + 1}
  /\ HardCount' > HardCount => op \in {"unsafe_ref", "ref", "promote"}
  /\ WeakCount' > WeakCount => op \in {"unsafe_ref_weak", "ref_weak", "demote"}
  /\ op \in {"ref", "ref_weak"} =>
       HardCount' + WeakCount' = HardCount + WeakCount + 1

\* A word that would reach the overflow mark fails the assertion of every
\* operation that can raise it to that mark.
LEMMA AtomicKeeps ==
  ASSUME IInv, ~Doomed, ~Doomed', TypeOK',
         NEW t \in Threads, NEW op \in RefOps, Moved(t, op), Outstanding # {}
  PROVE  IInv'
<1> USE DEF Moved
<1>1. pc'[t] = op /\ result'[t] = word' /\ ~AssertFails(op, word')
  BY DEF IInv, TypeOK, Atomic, Doomed, Failing, RefOps
<1>2. BelowLimit'
  <2>1. word'.hard = HardCount' /\ word'.weak = WeakCount'
    BY DEF REFCOUNT_REFERENCES
  <2>2. HardCount \in Nat /\ WeakCount \in Nat /\ UINT32_MAX \in Nat
    BY Finite, HalfAssumption DEF UINT32_MAX
  <2>3. HardCount < UINT32_MAX /\ WeakCount < UINT32_MAX
    BY DEF IInv, BelowLimit
  <2>4. HardCount' # UINT32_MAX
    BY <1>1, <2>1, <2>2, <2>3 DEF AssertFails
  <2>5. WeakCount' # UINT32_MAX
    BY <1>1, <2>1, <2>2, <2>3 DEF AssertFails
  <2>6. HardCount' < UINT32_MAX
    BY <2>2, <2>3, <2>4
  <2>7. WeakCount' < UINT32_MAX
    BY <2>2, <2>3, <2>5
  <2> QED BY <2>6, <2>7 DEF BelowLimit
<1>3. TellOnce'
  <2>1. Outstanding # {} /\ told = 0 /\ Tellers = {}
    BY DEF IInv, TellOnce
  <2>2. word' = Zero <=> Outstanding' = {}
    <3>1. Outstanding' = {} <=> Hard' = {} /\ Weak' = {}
      BY DEF TypeOK, Outstanding, Hard, Weak, Kinds
    <3>2. word' = Zero <=> HardCount' = 0 /\ WeakCount' = 0
      BY DEF Zero, REFCOUNT_REFERENCES
    <3>3. /\ HardCount' = 0 <=> Hard' = {}
          /\ WeakCount' = 0 <=> Weak' = {}
      <4>1. Hard' \subseteq Refs /\ Weak' \subseteq Refs
        BY DEF Hard, Weak
      <4>2. IsFiniteSet(Hard') /\ IsFiniteSet(Weak')
        BY <4>1, RefsAssumption, FS_Subset
      <4> QED BY <4>2, FS_EmptySet DEF HardCount, WeakCount
    <3> QED BY <3>1, <3>2, <3>3
  <2>3. /\ \A u \in Threads : u # t => pc'[u] = pc[u] /\ result'[u] = result[u]
        /\ told' = told
    BY DEF Atomic, IInv, TypeOK
  <2>4. Tellers' = IF word' = Zero THEN {t} ELSE {}
    BY <1>1, <2>1, <2>3 DEF Tellers, RefOps
  <2> QED BY <2>1, <2>2, <2>3, <2>4 DEF TellOnce
<1> QED BY <1>2, <1>3 DEF IInv, Exact

\* A checked operation on an object without references is caught.
LEMMA StaleDooms ==
  ASSUME IInv, ~Doomed, NEW t \in Threads, StaleRef(t)
  PROVE  Doomed'
<1>1. TypeOK /\ Exact /\ BelowLimit
  BY DEF IInv
<1>2. PICK op \in {"ref", "ref_weak"} : Atomic(t, op)
  BY StaleAssumption DEF StaleRef
<1>3. HardCount = 0 /\ WeakCount = 0
  <2>1. Hard = {} /\ Weak = {}
    BY DEF StaleRef, Outstanding, Hard, Weak
  <2> QED BY <2>1, Finite
<1>4. /\ word \in Words /\ word.hard = 0 /\ word.weak = 0
      /\ word.hard < UINT32_MAX /\ word.weak < UINT32_MAX
  BY <1>1, <1>3 DEF Exact, BelowLimit, REFCOUNT_REFERENCES, TypeOK
<1>5. /\ op = "ref" => word' = REFCOUNT_REFERENCES(1, 0)
      /\ op = "ref_weak" => word' = REFCOUNT_REFERENCES(0, 1)
  BY <1>2, <1>4, NewWordExact DEF Atomic
<1>6. AssertFails(op, word')
  BY <1>2, <1>5 DEF AssertFails
<1>7. pc'[t] = op /\ result'[t] = word'
  BY <1>1, <1>2 DEF Atomic, TypeOK
<1> QED BY <1>2, <1>6, <1>7 DEF Doomed, Failing

\* The operations of the callers that do hold a reference.
LEMMA HolderSteps ==
  ASSUME TypeOK, NEW t \in Threads,
         \/ Ref(t) \/ RefWeak(t) \/ Deref(t) \/ DerefWeak(t)
         \/ Promote(t) \/ Demote(t)
  PROVE  /\ Outstanding # {}
         /\ \E r \in Refs, k \in Kinds : kind' = [kind EXCEPT ![r] = k]
         /\ \E op \in RefOps : Atomic(t, op)
BY DEF Ref, RefWeak, Deref, DerefWeak, Promote, Demote, Turn, Outstanding,
       TypeOK, Kinds, RefOps

\* The operations of the holders keep the word exact, whatever the order in
\* which the threads' atomic steps are taken.
LEMMA HolderExact ==
  ASSUME IInv, ~Doomed, NEW u \in Threads,
         \/ Ref(u) \/ RefWeak(u) \/ Deref(u) \/ DerefWeak(u)
         \/ Promote(u) \/ Demote(u)
  PROVE  \E op \in RefOps : Moved(u, op)
<1>1. TypeOK /\ Exact /\ BelowLimit
  BY DEF IInv
<1>2. /\ word \in Words /\ word.hard = HardCount /\ word.weak = WeakCount
      /\ word.hard < UINT32_MAX /\ word.weak < UINT32_MAX
  BY <1>1 DEF Exact, BelowLimit, REFCOUNT_REFERENCES, TypeOK
<1>3. HardCount \in Nat /\ WeakCount \in Nat
  BY Finite
<1>4. ASSUME NEW t \in Threads, Ref(t) PROVE \E op \in RefOps : Moved(t, op)
  <2>1. PICK r \in Refs, op \in {"unsafe_ref", "ref"} :
          Turn(r, "free", "hard") /\ Atomic(t, op)
    BY <1>4 DEF Ref
  <2>2. HardCount' = HardCount + 1 /\ WeakCount' = WeakCount
    BY <2>1, <1>1, <1>3, TurnCounts DEF Kinds
  <2>3. word' = REFCOUNT_REFERENCES(HardCount', WeakCount')
    BY <2>1, <2>2, <1>2, NewWordExact DEF Atomic
  <2> QED BY <1>3, <2>1, <2>2, <2>3 DEF Moved, RefOps
<1>5. ASSUME NEW t \in Threads, RefWeak(t) PROVE \E op \in RefOps : Moved(t, op)
  <2>1. PICK r \in Refs, op \in {"unsafe_ref_weak", "ref_weak"} :
          Turn(r, "free", "weak") /\ Atomic(t, op)
    BY <1>5 DEF RefWeak
  <2>2. HardCount' = HardCount /\ WeakCount' = WeakCount + 1
    BY <2>1, <1>1, <1>3, TurnCounts DEF Kinds
  <2>3. word' = REFCOUNT_REFERENCES(HardCount', WeakCount')
    BY <2>1, <2>2, <1>2, NewWordExact DEF Atomic
  <2> QED BY <1>3, <2>1, <2>2, <2>3 DEF Moved, RefOps
<1>6. ASSUME NEW t \in Threads, Deref(t) PROVE \E op \in RefOps : Moved(t, op)
  <2>1. PICK r \in Refs : Turn(r, "hard", "free") /\ Atomic(t, "deref")
    BY <1>6 DEF Deref
  <2>2. HardCount' = HardCount - 1 /\ WeakCount' = WeakCount /\ HardCount > 0
    BY <2>1, <1>1, <1>3, TurnCounts DEF Kinds
  <2>3. word' = REFCOUNT_REFERENCES(HardCount', WeakCount')
    BY <2>1, <2>2, <1>2, NewWordExact DEF Atomic
  <2> QED BY <1>3, <2>1, <2>2, <2>3 DEF Moved, RefOps
<1>7. ASSUME NEW t \in Threads, DerefWeak(t) PROVE \E op \in RefOps : Moved(t, op)
  <2>1. PICK r \in Refs : Turn(r, "weak", "free") /\ Atomic(t, "deref_weak")
    BY <1>7 DEF DerefWeak
  <2>2. HardCount' = HardCount /\ WeakCount' = WeakCount - 1 /\ WeakCount > 0
    BY <2>1, <1>1, <1>3, TurnCounts DEF Kinds
  <2>3. word' = REFCOUNT_REFERENCES(HardCount', WeakCount')
    BY <2>1, <2>2, <1>2, NewWordExact DEF Atomic
  <2> QED BY <1>3, <2>1, <2>2, <2>3 DEF Moved, RefOps
<1>8. ASSUME NEW t \in Threads, Promote(t) PROVE \E op \in RefOps : Moved(t, op)
  <2>1. PICK r \in Refs : Turn(r, "weak", "hard") /\ Atomic(t, "promote")
    BY <1>8 DEF Promote
  <2>2. HardCount' = HardCount + 1 /\ WeakCount' = WeakCount - 1 /\ WeakCount > 0
    BY <2>1, <1>1, <1>3, TurnCounts DEF Kinds
  <2>3. word' = REFCOUNT_REFERENCES(HardCount', WeakCount')
    BY <2>1, <2>2, <1>2, NewWordExact DEF Atomic
  <2> QED BY <1>3, <2>1, <2>2, <2>3 DEF Moved, RefOps
<1>9. ASSUME NEW t \in Threads, Demote(t) PROVE \E op \in RefOps : Moved(t, op)
  <2>1. PICK r \in Refs : Turn(r, "hard", "weak") /\ Atomic(t, "demote")
    BY <1>9 DEF Demote
  <2>2. HardCount' = HardCount - 1 /\ WeakCount' = WeakCount + 1 /\ HardCount > 0
    BY <2>1, <1>1, <1>3, TurnCounts DEF Kinds
  <2>3. word' = REFCOUNT_REFERENCES(HardCount', WeakCount')
    BY <2>1, <2>2, <1>2, NewWordExact DEF Atomic
  <2> QED BY <1>3, <2>1, <2>2, <2>3 DEF Moved, RefOps
<1> QED BY <1>4, <1>5, <1>6, <1>7, <1>8, <1>9

\* The invariant holds at the start.
LEMMA InitIInv == Init => IInv
<1> SUFFICES ASSUME Init PROVE IInv
  OBVIOUS
<1>1. TypeOK
  BY InitTypeOK
<1>2. PICK first \in Refs : kind = [r \in Refs |-> IF r = first THEN "hard" ELSE "free"]
  BY DEF Init
<1>3. Hard = {first} /\ Weak = {} /\ Outstanding = {first}
  BY <1>2 DEF Hard, Weak, Outstanding
<1>4. HardCount = 1 /\ WeakCount = 0
  BY <1>3, FS_Singleton, FS_EmptySet DEF HardCount, WeakCount
<1>5. Exact /\ BelowLimit
  BY <1>4, HalfAssumption DEF Init, Exact, BelowLimit, UINT32_MAX
<1>6. TellOnce
  BY <1>3 DEF Init, TellOnce, Tellers
<1> QED BY <1>1, <1>5, <1>6 DEF IInv

\* Every step keeps the invariant.
LEMMA NextIInv == IInv /\ [Next]_vars => IInv'
<1> SUFFICES ASSUME IInv, [Next]_vars PROVE IInv'
  OBVIOUS
<1>1. TypeOK /\ TypeOK'
  BY NextTypeOK DEF IInv
<1>2. SUFFICES ASSUME ~Doomed' PROVE IInv'
  BY <1>1 DEF IInv
<1>3. ~Doomed
  BY <1>1, <1>2, DoomedStays
<1>4. Exact /\ BelowLimit /\ TellOnce
  BY <1>3 DEF IInv
<1>5. ASSUME NEW t \in Threads,
             \/ Ref(t) \/ RefWeak(t) \/ Deref(t) \/ DerefWeak(t)
             \/ Promote(t) \/ Demote(t)
      PROVE  IInv'
  <2>1. Outstanding # {}
    BY <1>1, <1>5, HolderSteps
  <2>2. PICK op \in RefOps : Moved(t, op)
    BY <1>3, <1>5, HolderExact
  <2> QED BY <1>1, <1>2, <1>3, <2>1, <2>2, AtomicKeeps
<1>6. ASSUME NEW t \in Threads, StaleRef(t) PROVE FALSE
  BY <1>2, <1>3, <1>6, StaleDooms
<1>7. ASSUME NEW t \in Threads, Abort(t) PROVE FALSE
  BY <1>2, <1>7 DEF Abort, Doomed
<1>8. ASSUME NEW t \in Threads, Return(t) PROVE IInv'
  <2>1. Hard' = Hard /\ Weak' = Weak /\ Outstanding' = Outstanding
    BY <1>8 DEF Return, Hard, Weak, Outstanding
  <2>2. Exact' /\ BelowLimit'
    BY <1>4, <1>8, <2>1 DEF Return, Exact, BelowLimit, HardCount, WeakCount
  <2>3. TellOnce'
    <3>1. Tellers' = Tellers \ {t}
      BY <1>1, <1>8 DEF Return, Tellers, TypeOK
    <3>2. t \in Tellers <=> result[t] = Zero
      BY <1>8 DEF Return, Tellers
    <3> QED BY <1>4, <1>8, <2>1, <3>1, <3>2 DEF TellOnce, Return
  <2> QED BY <1>1, <2>2, <2>3 DEF IInv
<1>9. CASE UNCHANGED vars
  BY <1>1, <1>4, <1>9
  DEF vars, IInv, Exact, BelowLimit, TellOnce, HardCount, WeakCount, Hard, Weak,
      Outstanding, Tellers
<1> QED
  BY <1>5, <1>6, <1>7, <1>8, <1>9 DEF Next

-----------------------------------------------------------------------------
(* The safety properties of RefCounts.                                     *)

\* Each half counts exactly the references of its kind until an assertion
\* has failed: the overflow trick of refcounts_promote and refcounts_demote
\* is sound for every width and every interleaving.
THEOREM WordIsExact == Spec => []WordCountsReferences
<1>1. IInv => WordCountsReferences
  BY DEF IInv, Exact, WordCountsReferences, HardCount, WeakCount, REFCOUNT_REFERENCES
<1> QED BY <1>1, InitIInv, NextIInv, PTL DEF Spec

\* Exactly one caller is told that it dropped the last reference.
THEOREM ToldOnce == Spec => []LastReferenceToldOnce
<1>1. IInv => LastReferenceToldOnce
  <2> SUFFICES ASSUME TellOnce
               PROVE  told + Cardinality(Tellers) = IF Outstanding = {} THEN 1 ELSE 0
    BY DEF IInv, LastReferenceToldOnce
  <2>1. Cardinality({}) = 0 /\ \A t \in Threads : Cardinality({t}) = 1
    BY FS_EmptySet, FS_Singleton
  <2>2. CASE Outstanding # {} /\ told = 0 /\ Tellers = {}
    BY <2>1, <2>2
  <2>3. CASE Outstanding = {} /\ told = 1 /\ Tellers = {}
    BY <2>1, <2>3
  <2>4. CASE Outstanding = {} /\ told = 0 /\ \E t \in Threads : Tellers = {t}
    BY <2>1, <2>4
  <2> QED BY <2>2, <2>3, <2>4 DEF TellOnce
<1> QED BY <1>1, InitIInv, NextIInv, PTL DEF Spec

-----------------------------------------------------------------------------
(* RefCounts implements RefLifetime.                                       *)

\* An initial state is one of the abstract specification.
LEMMA InitLifetime == Init => Lifetime!Init
<1> SUFFICES ASSUME Init PROVE Lifetime!Init
  OBVIOUS
<1>1. ~Doomed
  BY DEF Init, Doomed, Failing
<1>2. fate = "live"
  BY <1>1 DEF Init, fate
<1> QED BY <1>2 DEF Init, Lifetime!Init

\* A step is a step or a stutter of the abstract specification.
LEMMA StepLifetime ==
  IInv /\ IInv' /\ [Next]_vars => [Lifetime!Next]_<<kind, fate>>
<1> SUFFICES ASSUME IInv, IInv', [Next]_vars
             PROVE  [Lifetime!Next]_<<kind, fate>>
  OBVIOUS
<1> USE DEF Lifetime!Next
<1>1. CASE Doomed'
  <2>1. fate' = "crashed"
    BY <1>1 DEF fate
  <2> QED BY <2>1 DEF Lifetime!Crash, IInv, TypeOK, Kinds
<1>2. CASE ~Doomed'
  <2>1. ~Doomed
    BY <1>2, DoomedStays DEF IInv
  <2>2. TellOnce /\ TellOnce' /\ TypeOK
    BY <1>2, <2>1 DEF IInv
  <2>3. /\ told = 0 => fate = "live"
        /\ told' = 0 => fate' = "live"
        /\ told' = 1 => fate' = "dead"
    BY <1>2, <2>1 DEF fate
  <2>4. ASSUME NEW t \in Threads,
               \/ Ref(t) \/ RefWeak(t) \/ Deref(t) \/ DerefWeak(t)
               \/ Promote(t) \/ Demote(t)
        PROVE  Lifetime!Change
    <3>1. Outstanding # {} /\ told' = told
      BY <2>2, <2>4, HolderSteps DEF Atomic
    <3>2. told = 0
      BY <2>2, <3>1 DEF TellOnce
    <3> QED
      BY <2>2, <2>3, <2>4, <3>1, <3>2, HolderSteps
      DEF Lifetime!Change, Lifetime!InUse, Outstanding, Kinds
  <2>5. ASSUME NEW t \in Threads, Return(t)
        PROVE  Lifetime!Die \/ UNCHANGED <<kind, fate>>
    <3>1. CASE result[t] = Zero
      <4>1. t \in Tellers
        BY <2>5, <3>1 DEF Return, Tellers
      <4>2. told = 0 /\ Outstanding = {} /\ told' = 1
        BY <2>2, <2>5, <3>1, <4>1 DEF TellOnce, Return
      <4> QED
        BY <2>3, <2>5, <4>2 DEF Lifetime!Die, Lifetime!InUse, Outstanding, Return
    <3>2. CASE result[t] # Zero
      <4>1. told' = told /\ kind' = kind
        BY <2>5, <3>2 DEF Return
      <4> QED BY <1>2, <2>1, <4>1 DEF fate
    <3> QED BY <3>1, <3>2
  <2>6. CASE UNCHANGED vars
    BY <1>2, <2>1, <2>6 DEF vars, fate
  <2>7. ASSUME NEW t \in Threads, StaleRef(t) \/ Abort(t) PROVE FALSE
    BY <1>2, <2>1, <2>7, StaleDooms DEF Abort, Doomed
  <2> QED BY <2>4, <2>5, <2>6, <2>7 DEF Next
<1> QED BY <1>1, <1>2

\* Every step of the packed counter is a step of the object's lifetime: the
\* object dies once, after its last reference, and is never revived.
THEOREM ImplementsSafe == Spec => Lifetime!Safe
<1>1. Spec => []IInv
  BY InitIInv, NextIInv, PTL DEF Spec
<1> QED BY <1>1, InitLifetime, StepLifetime, PTL DEF Spec, Lifetime!Safe

\* An assertion starts to fail only at the overflow mark or on an object
\* that has no references.
THEOREM AbortsAreJustified == Spec => NoSpuriousAbort
<1>1. IInv /\ IInv' /\ [Next]_vars =>
        (~Doomed /\ Doomed' => \/ Cardinality(Hard') = UINT32_MAX
                               \/ Cardinality(Weak') = UINT32_MAX
                               \/ Outstanding = {})
  <2> SUFFICES ASSUME IInv, IInv', [Next]_vars, ~Doomed, Doomed', Outstanding # {}
               PROVE  HardCount' = UINT32_MAX \/ WeakCount' = UINT32_MAX
    BY DEF HardCount, WeakCount
  <2>1. ASSUME NEW t \in Threads,
               \/ Ref(t) \/ RefWeak(t) \/ Deref(t) \/ DerefWeak(t)
               \/ Promote(t) \/ Demote(t)
        PROVE  HardCount' = UINT32_MAX \/ WeakCount' = UINT32_MAX
    <3>1. PICK op \in RefOps : Moved(t, op)
      BY <2>1, HolderExact
    <3>2. AssertFails(op, word')
      BY <3>1 DEF Moved, Atomic, Doomed, Failing, IInv, TypeOK
    <3>3. word'.hard = HardCount' /\ word'.weak = WeakCount'
      BY <3>1 DEF Moved, REFCOUNT_REFERENCES
    <3>4. HardCount \in Nat /\ WeakCount \in Nat /\ HardCount + WeakCount > 0
      <4>1. Hard # {} \/ Weak # {}
        BY DEF IInv, TypeOK, Hard, Weak, Outstanding, Kinds
      <4> QED BY <4>1, Finite
    <3>5. /\ word' # REFCOUNT_REFERENCES(1, 0) \/ op # "ref"
          /\ word' # REFCOUNT_REFERENCES(0, 1) \/ op # "ref_weak"
      <4>1. op \in {"ref", "ref_weak"} =>
              HardCount' + WeakCount' = HardCount + WeakCount + 1
        BY <3>1 DEF Moved
      <4>2. /\ word' = REFCOUNT_REFERENCES(1, 0) => HardCount' = 1 /\ WeakCount' = 0
            /\ word' = REFCOUNT_REFERENCES(0, 1) => HardCount' = 0 /\ WeakCount' = 1
        BY <3>3 DEF REFCOUNT_REFERENCES
      <4> QED BY <3>4, <4>1, <4>2
    <3> QED BY <3>2, <3>3, <3>5 DEF AssertFails
  <2>2. ASSUME NEW t \in Threads, StaleRef(t) \/ Abort(t) \/ Return(t) PROVE FALSE
    BY <2>2 DEF StaleRef, Abort, Return, Doomed, Failing, IInv, TypeOK
  <2>3. CASE UNCHANGED vars
    BY <2>3 DEF vars, Doomed, Failing
  <2> QED BY <2>1, <2>2, <2>3 DEF Next
<1>2. Spec => []IInv
  BY InitIInv, NextIInv, PTL DEF Spec
<1> QED BY <1>1, <1>2, PTL DEF Spec, NoSpuriousAbort
=============================================================================
