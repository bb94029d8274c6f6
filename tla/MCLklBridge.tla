---------------------------- MODULE MCLklBridge ----------------------------
(* Instance of LklBridge for TLC.                                           *)
EXTENDS LklBridge, TLC

Symmetry == Permutations(Users) \cup Permutations(Files) \cup Permutations(Names)
=============================================================================
