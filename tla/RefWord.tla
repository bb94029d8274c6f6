------------------------------ MODULE RefWord ------------------------------
(***************************************************************************)
(* The packed reference counter of compat/refcount.h (refcounts_t): one    *)
(* 64-bit word whose low half counts hard and whose high half counts weak  *)
(* references, so that one atomic addition moves a reference between the   *)
(* halves.  The carry out of the low half into the high half is what       *)
(* refcounts_demote relies on and what every other operation must avoid;   *)
(* it is modelled explicitly.                                              *)
(***************************************************************************)
EXTENDS Integers

CONSTANT Half      \* number of values of one half: 2^32 in the code

ASSUME HalfAssumption == Half \in Nat /\ Half > 2

UINT32_MAX == Half - 1

Halves == 0 .. UINT32_MAX
Words == [hard : Halves, weak : Halves]

REFCOUNT_REFERENCES(hard, weak) == [hard |-> hard, weak |-> weak]

\* Mutant of Wrap: the first value beyond the range is left alone.
Wrap_OffByOne(n) == IF n > Half THEN n - Half ELSE IF n < 0 THEN n + Half ELSE n

\* Unsigned arithmetic of one half: a sum that leaves the range wraps once.
Wrap(n) == IF n >= Half THEN n - Half ELSE IF n < 0 THEN n + Half ELSE n
Carry(n) == IF n >= Half THEN 1 ELSE IF n < 0 THEN -1 ELSE 0

\* __atomic_add_fetch and __atomic_sub_fetch on the union's 64-bit value.
AddFetch(word, op) ==
  LET low == word.hard + op.hard IN
  [hard |-> Wrap(low), weak |-> Wrap(word.weak + op.weak + Carry(low))]

SubFetch(word, op) ==
  LET low == word.hard - op.hard IN
  [hard |-> Wrap(low), weak |-> Wrap(word.weak - op.weak + Carry(low))]

-----------------------------------------------------------------------------
(* The operations of refcount.h: the word each one leaves behind.          *)

RefOps == {"unsafe_ref", "ref", "deref", "promote", "demote",
           "unsafe_ref_weak", "ref_weak", "deref_weak"}

\* Mutant of NewWord: demote adds a weak reference on top of the carry.
NewWord_DemoteAddsBoth(op, word) ==
  CASE op \in {"unsafe_ref", "ref"} -> AddFetch(word, REFCOUNT_REFERENCES(1, 0))
    [] op = "deref"   -> SubFetch(word, REFCOUNT_REFERENCES(1, 0))
    [] op = "promote" -> AddFetch(word, REFCOUNT_REFERENCES(1, UINT32_MAX))
    [] op = "demote"  -> AddFetch(word, REFCOUNT_REFERENCES(UINT32_MAX, 1))
    [] op \in {"unsafe_ref_weak", "ref_weak"} ->
         AddFetch(word, REFCOUNT_REFERENCES(0, 1))
    [] op = "deref_weak" -> SubFetch(word, REFCOUNT_REFERENCES(0, 1))

NewWord(op, word) ==
  CASE op \in {"unsafe_ref", "ref"} -> AddFetch(word, REFCOUNT_REFERENCES(1, 0))
    [] op = "deref"   -> SubFetch(word, REFCOUNT_REFERENCES(1, 0))
    [] op = "promote" -> AddFetch(word, REFCOUNT_REFERENCES(1, UINT32_MAX))
    [] op = "demote"  -> AddFetch(word, REFCOUNT_REFERENCES(UINT32_MAX, 0))
    [] op \in {"unsafe_ref_weak", "ref_weak"} ->
         AddFetch(word, REFCOUNT_REFERENCES(0, 1))
    [] op = "deref_weak" -> SubFetch(word, REFCOUNT_REFERENCES(0, 1))

\* Mutant of AssertFails: the use-after-free checks look at one half only.
AssertFails_HardOnly(op, r) ==
  \/ r.hard = UINT32_MAX \/ r.weak = UINT32_MAX
  \/ op = "ref" /\ r.hard = 1
  \/ op = "ref_weak" /\ r.weak = 1

\* The assertions that follow the atomic operation, on the word it returned.
AssertFails(op, r) ==
  \/ op \in {"unsafe_ref", "ref", "deref", "promote", "demote"}
       /\ r.hard = UINT32_MAX
  \/ op \in {"promote", "demote", "unsafe_ref_weak", "ref_weak", "deref_weak"}
       /\ r.weak = UINT32_MAX
  \/ op = "ref" /\ r = REFCOUNT_REFERENCES(1, 0)
  \/ op = "ref_weak" /\ r = REFCOUNT_REFERENCES(0, 1)
=============================================================================
