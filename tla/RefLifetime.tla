---------------------------- MODULE RefLifetime ----------------------------
(***************************************************************************)
(* What reference counting promises to its callers: an object is live as   *)
(* long as somebody has a reference to it, dies exactly once after the     *)
(* last reference is gone, and is never taken into use again.  Misuse and  *)
(* overflow may crash the program, in which case nothing more is promised. *)
(***************************************************************************)
CONSTANT Refs

VARIABLES kind,    \* the references: "free", "hard" or "weak"
          fate     \* "live", "dead" (its owner has been told) or "crashed"

Init ==
  /\ \E first \in Refs : kind = [r \in Refs |-> IF r = first THEN "hard" ELSE "free"]
  /\ fate = "live"

InUse == \E r \in Refs : kind[r] # "free"

\* A reference is taken, dropped, promoted or demoted by somebody who has one.
Change ==
  /\ fate = "live" /\ fate' = fate
  /\ InUse
  /\ \E r \in Refs, k \in {"free", "hard", "weak"} : kind' = [kind EXCEPT ![r] = k]

Die ==
  /\ fate = "live" /\ fate' = "dead"
  /\ ~InUse
  /\ UNCHANGED kind

Crash ==
  /\ fate' = "crashed"
  /\ kind' \in [Refs -> {"free", "hard", "weak"}]

Next == Change \/ Die \/ Crash

Safe == Init /\ [][Next]_<<kind, fate>>
Spec == Safe /\ WF_<<kind, fate>>(Die)
=============================================================================
