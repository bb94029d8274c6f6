------------------------------- MODULE IdVec -------------------------------
(***************************************************************************)
(* Growable vectors of ids (compat/idvec.h).  A vector is its ids and the  *)
(* capacity of its block; the operations that may reallocate the block     *)
(* return the set of their outcomes, the failed one leaving the vector     *)
(* alone.                                                                  *)
(***************************************************************************)
EXTENDS Integers, Sequences

CONSTANT FirstCap     \* capacity of the first block: 8 in the code

ASSUME FirstCapAssumption == FirstCap \in Nat \ {0}

Empty == [ids |-> <<>>, alloced |-> 0]
Num(vec) == Len(vec.ids)
Contains(vec, id) == \E i \in 1 .. Num(vec) : vec.ids[i] = id

Start(vec) == IF vec.alloced = 0 THEN FirstCap ELSE 2 * vec.alloced

\* Mutant of NewSize: the size is doubled once and not until it suffices.
NewSize_Once(vec, needed) == Start(vec)

\* Mutant of NewSize: the block is made exactly as large as needed.
NewSize_Exact(vec, needed) == needed

\* The size is doubled until it is at least what is needed.
NewSize(vec, needed) ==
  LET grown[n \in Nat] == IF n >= needed THEN n ELSE grown[2 * n]
  IN  grown[Start(vec)]

\* What idvec_ensure may leave behind, with its result: 0, or -1 when realloc fails.
Ensure(vec, amount) ==
  LET needed == Num(vec) + amount IN
  IF needed > vec.alloced
  THEN {[vec |-> [vec EXCEPT !.alloced = NewSize(vec, needed)], err |-> 0],
        [vec |-> vec, err |-> -1]}
  ELSE {[vec |-> vec, err |-> 0]}

\* Mutant of MergeIds: the vector is extended whether or not the block was.
MergeIds_Unchecked(vec, ids) ==
  {[vec |-> [r.vec EXCEPT !.ids = @ \o ids], err |-> r.err] : r \in Ensure(vec, Len(ids))}

MergeIds(vec, ids) ==
  {IF r.err = 0 THEN [r EXCEPT !.vec.ids = @ \o ids] ELSE r :
     r \in Ensure(vec, Len(ids))}

Add(vec, id) == MergeIds(vec, <<id>>)

\* The vectors that the operations can build: the ids fit the block, and a
\* block beyond the first is less than twice as large as they need.
WellFormed(vec) ==
  /\ Num(vec) <= vec.alloced
  /\ vec.alloced > FirstCap => vec.alloced < 2 * Num(vec)
=============================================================================
