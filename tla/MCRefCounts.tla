---------------------------- MODULE MCRefCounts ----------------------------
(* Instance of RefCounts for TLC.  A half counts modulo 4: three          *)
(* references fill it and the fourth overflows it, so four references reach *)
(* and pass the limit of either half; the counters are bounded by the       *)
(* number of references and need no bound of their own.                     *)
EXTENDS RefCounts

=============================================================================
