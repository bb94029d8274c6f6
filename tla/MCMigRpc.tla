------------------------------ MODULE MCMigRpc ------------------------------
(* Instance of MigRpc for TLC: the interfaces of the repository.             *)
EXTENDS MigRpc, HurdInterfaces

(* Every stub with another of its interface, and its server; every stub with *)
(* every server.                                                             *)
Other(p) == CHOOSE q \in StubIds : q[1] = p[1] /\ (q # p \/ Cardinality(CallersOf[p[1]]) = 1)

Few  == 1
Many == Word \div 4 + 1        \* times four it exceeds the word by four

MCMenus ==
  {[server |-> p[1], stubs |-> {p, Other(p)}, calls |-> MaxCalls, first |-> Few]
     : p \in StubIds}
  \union
  {[server |-> p[1], stubs |-> {p}, calls |-> 1, first |-> Many]
     : p \in {q \in StubIds : Arrays(StubOf[q].request) # {}}}
  \union
  {[server |-> i, stubs |-> {p}, calls |-> 1, first |-> Few]
     : p \in StubIds, i \in Interfaces}
=============================================================================
