---------------------------- MODULE MCAuthServer ----------------------------
(* Instances of AuthServer for TLC.                                         *)
EXTENDS AuthServer, TLC

Symmetry == Permutations(Threads)

FourKinds == <<"euids", "auids", "egids", "agids">>
TwoKinds == <<"euids", "auids">>
=============================================================================
