----------------------------- MODULE AtMostOnce -----------------------------
(***************************************************************************)
(* What a remote procedure call promises its caller, whatever the          *)
(* transport does: a call succeeds only once its procedure has run, and it *)
(* runs at most once.  A call that fails may have run, or still run later. *)
(***************************************************************************)
CONSTANT Calls

VARIABLES state, runs

Init == /\ state = [k \in Calls |-> "none"]
        /\ runs = [k \in Calls |-> 0]

Submit(k) == /\ state[k] = "none"
             /\ state' = [state EXCEPT ![k] = "pending"]
             /\ UNCHANGED runs

Execute(k) == /\ state[k] # "none" /\ runs[k] = 0
              /\ runs' = [runs EXCEPT ![k] = 1]
              /\ UNCHANGED state

Succeed(k) == /\ state[k] = "pending" /\ runs[k] = 1
              /\ state' = [state EXCEPT ![k] = "succeeded"]
              /\ UNCHANGED runs

Fail(k) == /\ state[k] \in {"none", "pending"}
           /\ state' = [state EXCEPT ![k] = "failed"]
           /\ UNCHANGED runs

Next == \E k \in Calls : Submit(k) \/ Execute(k) \/ Succeed(k) \/ Fail(k)

Spec == Init /\ [][Next]_<<state, runs>>
=============================================================================
