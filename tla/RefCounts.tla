----------------------------- MODULE RefCounts -----------------------------
(***************************************************************************)
(* Threads that share one refcounts_t (compat/refcount.h) and hold         *)
(* references to the object it counts for.  Every operation is two steps:  *)
(* the atomic operation on the word, then, on the value it returned, the   *)
(* assertions and the return to the caller.  Other threads run in between: *)
(* the header promises that calls need not be serialised.                  *)
(***************************************************************************)
EXTENDS RefWord, FiniteSets

CONSTANTS Threads,     \* threads that use the object
          Refs,        \* identities of the references that can be outstanding
          StaleCalls   \* operations that a thread may still apply, by mistake,
                       \* to an object whose last reference is gone

ASSUME RefsAssumption == IsFiniteSet(Refs)
ASSUME StaleAssumption == StaleCalls \subseteq {"ref", "ref_weak"}

VARIABLES
  word,      \* the refcounts_t
  kind,      \* per reference: "free", or outstanding as "hard" or "weak"
  pc,        \* per thread: "idle", or the operation whose assertions are due
  result,    \* per thread: the word its atomic operation returned
  aborted,   \* an assertion failed and stopped the process
  told       \* operations that returned {0, 0} to their caller, who then
             \* owns the dead object and must free it

vars == <<word, kind, pc, result, aborted, told>>

Kinds == {"free", "hard", "weak"}
Hard == {r \in Refs : kind[r] = "hard"}
Weak == {r \in Refs : kind[r] = "weak"}
Outstanding == {r \in Refs : kind[r] # "free"}
Zero == REFCOUNT_REFERENCES(0, 0)

TypeOK ==
  /\ word \in Words
  /\ kind \in [Refs -> Kinds]
  /\ pc \in [Threads -> RefOps \cup {"idle"}]
  /\ result \in [Threads -> Words]
  /\ aborted \in BOOLEAN
  /\ told \in Nat

\* refcounts_init (&ref, 1, 0), the way ports_create_port calls it.
Init ==
  /\ word = REFCOUNT_REFERENCES(1, 0)
  /\ \E first \in Refs : kind = [r \in Refs |-> IF r = first THEN "hard" ELSE "free"]
  /\ pc = [t \in Threads |-> "idle"]
  /\ result = [t \in Threads |-> Zero]
  /\ aborted = FALSE
  /\ told = 0

-----------------------------------------------------------------------------
\* The atomic step of operation op by thread t.
Atomic(t, op) ==
  /\ ~aborted
  /\ pc[t] = "idle"
  /\ word' = NewWord(op, word)
  /\ pc' = [pc EXCEPT ![t] = op]
  /\ result' = [result EXCEPT ![t] = word']
  /\ UNCHANGED <<aborted, told>>

Turn(r, from, to) ==
  /\ kind[r] = from
  /\ kind' = [kind EXCEPT ![r] = to]

\* A new reference is taken by somebody who already has one.
Ref(t) ==
  /\ Outstanding # {}
  /\ \E r \in Refs, op \in {"unsafe_ref", "ref"} :
       Turn(r, "free", "hard") /\ Atomic(t, op)

RefWeak(t) ==
  /\ Outstanding # {}
  /\ \E r \in Refs, op \in {"unsafe_ref_weak", "ref_weak"} :
       Turn(r, "free", "weak") /\ Atomic(t, op)

Deref(t) == \E r \in Refs : Turn(r, "hard", "free") /\ Atomic(t, "deref")

DerefWeak(t) == \E r \in Refs : Turn(r, "weak", "free") /\ Atomic(t, "deref_weak")

Promote(t) == \E r \in Refs : Turn(r, "weak", "hard") /\ Atomic(t, "promote")

Demote(t) == \E r \in Refs : Turn(r, "hard", "weak") /\ Atomic(t, "demote")

\* The mistake the checked operations exist for: a reference is taken by a
\* thread that has only a stale pointer.
StaleRef(t) ==
  /\ Outstanding = {}
  /\ \E op \in StaleCalls : Atomic(t, op)
  /\ UNCHANGED kind

Failing(t) == pc[t] # "idle" /\ AssertFails(pc[t], result[t])
Doomed == aborted \/ \E t \in Threads : Failing(t)

\* assert_backtrace fails and aborts the process.
Abort(t) ==
  /\ ~aborted
  /\ Failing(t)
  /\ aborted' = TRUE
  /\ UNCHANGED <<word, kind, pc, result, told>>

\* Mutants of Return: the result, or the assertion, is taken from the word at
\* the time of the return instead of from the atomic operation.
Return_RereadsWord(t) ==
  /\ ~aborted
  /\ pc[t] # "idle"
  /\ ~AssertFails(pc[t], result[t])
  /\ pc' = [pc EXCEPT ![t] = "idle"]
  /\ result' = [result EXCEPT ![t] = Zero]
  /\ told' = IF word = Zero THEN told + 1 ELSE told
  /\ UNCHANGED <<word, kind, aborted>>

Return_ChecksLater(t) ==
  /\ ~aborted
  /\ pc[t] # "idle"
  /\ ~AssertFails(pc[t], word)
  /\ pc' = [pc EXCEPT ![t] = "idle"]
  /\ result' = [result EXCEPT ![t] = Zero]
  /\ told' = IF result[t] = Zero THEN told + 1 ELSE told
  /\ UNCHANGED <<word, kind, aborted>>

\* The assertions hold and the operation returns its result.
Return(t) ==
  /\ ~aborted
  /\ pc[t] # "idle"
  /\ ~AssertFails(pc[t], result[t])
  /\ pc' = [pc EXCEPT ![t] = "idle"]
  /\ result' = [result EXCEPT ![t] = Zero]
  /\ told' = IF result[t] = Zero THEN told + 1 ELSE told
  /\ UNCHANGED <<word, kind, aborted>>

Next ==
  \E t \in Threads :
    \/ Ref(t) \/ RefWeak(t)
    \/ Deref(t) \/ DerefWeak(t)
    \/ Promote(t) \/ Demote(t)
    \/ StaleRef(t)
    \/ Abort(t) \/ Return(t)

\* A thread inside an operation is running: it reaches its assertions.
Fairness == \A t \in Threads : WF_vars(Abort(t)) /\ WF_vars(Return(t))

Spec == Init /\ [][Next]_vars /\ Fairness

-----------------------------------------------------------------------------
(***************************************************************************)
(* As long as no thread has an assertion failing, each half of the word is *)
(* exactly the number of outstanding references of its kind, however the   *)
(* calls interleave: no carry or borrow ever crosses the halves except in  *)
(* refcounts_demote, which needs it.                                       *)
(***************************************************************************)
WordCountsReferences ==
  ~Doomed => /\ word.hard = Cardinality(Hard)
             /\ word.weak = Cardinality(Weak)

\* Threads that are about to hand {0, 0} to their caller.
Tellers == {t \in Threads : pc[t] # "idle" /\ result[t] = Zero}

(***************************************************************************)
(* Exactly one caller learns that it dropped the last reference: while     *)
(* references are outstanding nobody is told that the object is dead, and  *)
(* once none is left exactly one thread has been told or is about to be.   *)
(* More would free the object twice, fewer would leak it.                  *)
(***************************************************************************)
LastReferenceToldOnce ==
  ~Doomed => told + Cardinality(Tellers) = IF Outstanding = {} THEN 1 ELSE 0

(***************************************************************************)
(* An assertion starts to fail only for a reason: a half has reached       *)
(* UINT32_MAX references, or a thread used an object without references.   *)
(* In particular the wrap that promote and demote provoke on purpose never *)
(* looks like an overflow or an underflow.                                 *)
(***************************************************************************)
NoSpuriousAbort ==
  [][(~Doomed /\ Doomed') =>
        \/ Cardinality(Hard') = UINT32_MAX
        \/ Cardinality(Weak') = UINT32_MAX
        \/ Outstanding = {}]_vars

(***************************************************************************)
(* An overflow or a use after free, once it has happened, stops the        *)
(* process: no thread can repair the word before the assertion is reached. *)
(***************************************************************************)
DoomedAborts == Doomed ~> aborted

\* The fate of the counted object as its users see it.
fate ==
  IF Doomed THEN "crashed"
  ELSE CASE told = 0 -> "live" [] told = 1 -> "dead" [] OTHER -> "freed twice"

Lifetime == INSTANCE RefLifetime

(***************************************************************************)
(* The packed counter implements the lifetime of the object: it is live    *)
(* while references exist, and when the last one is dropped (by deref or   *)
(* deref_weak, in any order of racing callers) some caller eventually      *)
(* learns it and the object dies, once.                                    *)
(***************************************************************************)
ImplementsLifetime == Lifetime!Spec
=============================================================================
