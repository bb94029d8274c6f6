--------------------------- MODULE MCPosixServers ---------------------------
(* Instance of PosixServers for TLC.                                        *)
EXTENDS PosixServers, TLC

Symmetry == Permutations(Threads)
=============================================================================
