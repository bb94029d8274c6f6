---------------------------- MODULE PosixServers ----------------------------
(***************************************************************************)
(* The parts that stand on the host's POSIX interface: the two wrapper     *)
(* servers and the hypercalls of the rump kernel.  hurd_bootstrap starts   *)
(* pfinet and ext2fs in threads of one process, which rumpuser is not part *)
(* of.  Of that process the two share only the numbers of the host's       *)
(* descriptors: each has its own table and lock, and neither closes a      *)
(* number that the other opened.  So a behaviour is one of the three, and  *)
(* one check covers them.                                                  *)
(***************************************************************************)
EXTENDS Ext2fs, Pfinet

CONSTANTS MaxSize, MaxRoom, Lens, MaxHypercalls    \* bounds of RumpUser

ASSUME RumpAssumption ==
  MaxSize \in Nat /\ MaxRoom \in Nat /\ Lens \subseteq Nat /\ MaxHypercalls \in Nat

VARIABLES
  server,                                      \* the part that runs
  file, room, writer, readers,                 \* the state of RumpUser
  rump_pc, rump_job, moved, hypercalls

rump == <<file, room, writer, readers, rump_pc, rump_job, moved, hypercalls>>

Rump == INSTANCE RumpUser WITH
          pc <- rump_pc, job <- rump_job, calls <- hypercalls, MaxCalls <- MaxHypercalls

ServerInit ==
  /\ Init /\ Rump!Init
  /\ server \in {"ext2fs", "pfinet", "rumpuser"}
  /\ server # "rumpuser" => file = <<>>

Next ==
  /\ \/ server = "ext2fs" /\ Ext2fsNext /\ UNCHANGED rump
     \/ server = "pfinet" /\ PfinetNext /\ UNCHANGED rump
     \/ server = "rumpuser" /\ Rump!Next /\ UNCHANGED vars
  /\ UNCHANGED server

Spec == ServerInit /\ [][Next]_<<vars, rump, server>>
-----------------------------------------------------------------------------
(* The state of whichever part it is has its shape.                         *)
AllTypesOK == TypeOK /\ Rump!TypeOK

(* What a scattered read reports stands without a gap in its buffers, unless *)
(* it took no lock and the file grew meanwhile.                              *)
ReadGapsNeedGrowth == Rump!ReadGapsNeedGrowth

(* What a gathered write reports is where it belongs, unless room came back. *)
WriteGapsNeedRoom == Rump!WriteGapsNeedRoom

(* The lock is held by the threads inside it, whoever probes it.             *)
LockIsHeldByItsUsers == Rump!LockIsHeldByItsUsers
=============================================================================
