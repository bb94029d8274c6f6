---------------------------- MODULE AuthServer ----------------------------
(***************************************************************************)
(* The auth server (compat/auth_xnu.c) on the libports stubs               *)
(* (compat/ports_stub.c): threads handle auth_makeauth, each creating an   *)
(* authhandle, merging the requested ids into its vectors, taking its      *)
(* right and dropping the reference that ports_create_port gave it.  The   *)
(* steps of two handlers interleave at the allocator and at the task's     *)
(* port name space, which both hand out again what was released.           *)
(*                                                                         *)
(* auth_port_to_handle has no table to look in, so auth_getids answers     *)
(* with empty vectors and both authenticate calls with an error, whatever  *)
(* the handle: they change nothing and are left out.                       *)
(***************************************************************************)
EXTENDS IdVec, FiniteSets

CONSTANTS Threads,
          Root,         \* the id 0
          Ids,
          Kinds,        \* the vectors of a handle, in the order of the merges
          NCells,       \* bound: handle structs that fit in memory
          NNames,       \* bound: port names of the task
          MaxIds,       \* bound: ids of one kind in a request
          MaxCalls      \* bound: calls of one thread

ASSUME AuthAssumption ==
  /\ Root \in Ids /\ Len(Kinds) \in Nat \ {0}
  /\ NCells \in Nat /\ NNames \in Nat /\ MaxIds \in Nat /\ MaxCalls \in Nat

Cells == 1 .. NCells
Names == 1 .. NNames
NULL == 0
Vectors == [1 .. Len(Kinds) -> UNION {[1 .. n -> Ids] : n \in 0 .. MaxIds}]

VARIABLES
  handles,   \* the authhandle structs in memory: a function on their addresses
  rights,    \* the receive rights the task holds
  lost,      \* id blocks that were allocated and that nothing points to
  up,        \* auth_server_init has returned 0
  pc, call,  \* per thread: the next step and the call in hand
  calls

vars == <<handles, rights, lost, up, pc, call, calls>>

NoCall == [req |-> NULL, cell |-> NULL, merged |-> 0, newhandle |-> NULL]

\* The vectors of one handle; create_authhandle clears all of them.
NoIds == [k \in 1 .. Len(Kinds) |-> Empty]

Live == DOMAIN handles
Blocks(h) == Cardinality({k \in DOMAIN h.ids : h.ids[k].alloced > 0})

TypeOK ==
  /\ Live \subseteq Cells
  /\ \A a \in Live : /\ handles[a].right \in Names /\ handles[a].refs \in 0 .. 1
                     /\ DOMAIN handles[a].ids = 1 .. Len(Kinds)
  /\ rights \subseteq Names /\ lost \in Nat /\ up \in BOOLEAN
  /\ pc \in [Threads -> {"idle", "merge", "getright", "deref", "free", "reply"}]
  /\ calls \in [Threads -> 0 .. MaxCalls]

\* The server before auth_server_init.
Init ==
  /\ handles = <<>> /\ rights = {} /\ lost = 0 /\ up = FALSE
  /\ pc = [t \in Threads |-> "idle"]
  /\ call = [t \in Threads |-> NoCall]
  /\ calls = [t \in Threads |-> 0]

-----------------------------------------------------------------------------
(* libports                                                                *)

Handle(right, ids) == [right |-> right, refs |-> 1, ids |-> ids]

\* calloc and mach_port_allocate take any free address and name.
CreatePort(cell, name) ==
  /\ cell \in Cells \ Live /\ name \in Names \ rights
  /\ rights' = rights \cup {name}

\* Mutant: a handle whose port could not be allocated is kept.
CreateFails_KeepsStruct(cell) ==
  /\ cell \in Cells \ Live
  /\ handles' = [a \in Live \cup {cell} |->
                   IF a = cell THEN Handle(NULL, NoIds) ELSE handles[a]]
  /\ UNCHANGED rights

\* calloc or mach_port_allocate fails; the struct is freed again.
CreateFails(cell) == UNCHANGED <<handles, rights>>

\* mach_port_deallocate drops a send right; whether the name goes, or is refused
\* because it denotes a receive right, is the kernel's choice here.
Deallocate(name) == rights' \in {rights, rights \ {name}}

\* Mutant: the right goes and the struct stays.
Release_KeepsStruct(cell) ==
  /\ UNCHANGED handles
  /\ lost' = lost + Blocks(handles[cell])

\* The struct is freed.  The class's clean routine is not called, so the id
\* blocks of the handle stay allocated.
Release(cell) ==
  /\ handles' = [a \in Live \ {cell} |-> handles[a]]
  /\ lost' = lost + Blocks(handles[cell])

-----------------------------------------------------------------------------
(* The server                                                              *)

\* create_authhandle, then one idvec_add of the id 0 to each vector, whose
\* results are ignored.  Nothing else runs yet.
ServerInit ==
  /\ ~up
  /\ \E a \in Cells, n \in Names :
       /\ CreatePort(a, n)
       /\ \E ids \in [1 .. Len(Kinds) -> {r.vec : r \in Add(Empty, Root)}] :
            handles' = [b \in Live \cup {a} |-> IF b = a THEN Handle(n, ids) ELSE handles[b]]
  /\ up' = TRUE
  /\ UNCHANGED <<lost, pc, call, calls>>

Makeauth(t) ==
  /\ up /\ pc[t] = "idle" /\ calls[t] < MaxCalls
  /\ calls' = [calls EXCEPT ![t] = @ + 1]
  /\ \E req \in Vectors :
       \/ \E a \in Cells, n \in Names :
            /\ CreatePort(a, n)
            /\ handles' = [b \in Live \cup {a} |->
                             IF b = a THEN Handle(n, NoIds) ELSE handles[b]]
            /\ call' = [call EXCEPT ![t] = [NoCall EXCEPT !.req = req, !.cell = a]]
            /\ pc' = [pc EXCEPT ![t] = "merge"]
       \/ /\ \E a \in Cells : CreateFails(a)
          /\ UNCHANGED <<call, pc>>
  /\ UNCHANGED <<lost, up>>

\* One of the four calls of idvec_merge_ids; its result is ignored.
Merge(t) ==
  LET c == call[t]
      k == c.merged + 1 IN
  /\ pc[t] = "merge"
  /\ \E r \in MergeIds(handles[c.cell].ids[k], c.req[k]) :
       handles' = [handles EXCEPT ![c.cell].ids[k] = r.vec]
  /\ call' = [call EXCEPT ![t].merged = k]
  /\ pc' = [pc EXCEPT ![t] = IF k = Len(Kinds) THEN "getright" ELSE "merge"]
  /\ UNCHANGED <<rights, lost, up, calls>>

GetRight(t) ==
  /\ pc[t] = "getright" /\ pc' = [pc EXCEPT ![t] = "deref"]
  /\ call' = [call EXCEPT ![t].newhandle = handles[call[t].cell].right]
  /\ UNCHANGED <<handles, rights, lost, up, calls>>

\* refcounts_deref of the one reference, which leaves none (RefCounts checks
\* the counter itself): the right goes first, and from then on another handler
\* may be given its name.
Deref(t) ==
  /\ pc[t] = "deref" /\ pc' = [pc EXCEPT ![t] = "free"]
  /\ handles[call[t].cell].refs = 1
  /\ handles' = [handles EXCEPT ![call[t].cell].refs = 0]
  /\ Deallocate(handles[call[t].cell].right)
  /\ UNCHANGED <<lost, up, call, calls>>

Free(t) ==
  /\ pc[t] = "free" /\ pc' = [pc EXCEPT ![t] = "reply"]
  /\ Release(call[t].cell)
  /\ UNCHANGED <<rights, up, call, calls>>

\* The stub returns and the reply carries newhandle.
Reply(t) ==
  /\ pc[t] = "reply" /\ pc' = [pc EXCEPT ![t] = "idle"]
  /\ call' = [call EXCEPT ![t] = NoCall]
  /\ UNCHANGED <<handles, rights, lost, up, calls>>

Next ==
  \/ ServerInit
  \/ \E t \in Threads : \/ Makeauth(t) \/ Merge(t) \/ GetRight(t)
                       \/ Deref(t) \/ Free(t) \/ Reply(t)

Spec == Init /\ [][Next]_vars

-----------------------------------------------------------------------------
Working(t) == pc[t] \in {"merge", "getright", "deref", "free"}

(***************************************************************************)
(* Between calls only the root handle is in memory: every struct belongs   *)
(* to the root or to exactly one handler that has not freed it yet, also   *)
(* when an allocation failed half way, and every handle with a reference   *)
(* has a receive right of its own, whoever gets the names of the others.   *)
(***************************************************************************)
HandlesAreOwned ==
  /\ \A s, t \in Threads : Working(s) /\ Working(t) /\ call[s].cell = call[t].cell => s = t
  /\ Cardinality(Live) = Cardinality({t \in Threads : Working(t)}) + (IF up THEN 1 ELSE 0)
  /\ \A a \in Live : handles[a].refs > 0 =>
       /\ handles[a].right \in rights
       /\ \A b \in Live : handles[b].refs > 0 /\ handles[b].right = handles[a].right => a = b

(***************************************************************************)
(* A reallocation that fails in the middle of a makeauth leaves each       *)
(* vector of the handle whole: either all of the ids of its kind or none,  *)
(* within its block; the vectors still to come are empty.                  *)
(***************************************************************************)
VectorsAreWhole ==
  \A t \in Threads : Working(t) =>
    LET ids == handles[call[t].cell].ids IN
      \A k \in DOMAIN ids :
        /\ WellFormed(ids[k])
        /\ ids[k].ids \in {<<>>, call[t].req[k]}
        /\ k > call[t].merged => ids[k] = Empty

(***************************************************************************)
(* auth_xnu.c, line 21: "Auth handles are server ports with sets of ids":  *)
(* the newhandle that a makeauth returns is one.                           *)
(***************************************************************************)
NewhandleIsAHandle ==
  \A t \in Threads : pc[t] = "reply" =>
    \E a \in Live : handles[a].right = call[t].newhandle
=============================================================================
