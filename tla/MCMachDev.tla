----------------------------- MODULE MCMachDev -----------------------------
(* Instance of MachDev for TLC.                                             *)
EXTENDS MachDev, TLC

Symmetry == Permutations(Files) \cup Permutations(Names)
              \cup Permutations(Threads)
=============================================================================
