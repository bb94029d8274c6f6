------------------------------ MODULE HostFds ------------------------------
(***************************************************************************)
(* The file descriptor table of the host kernel, as the servers use it:    *)
(* open() takes the lowest number that is free, so a closed number comes   *)
(* back with the next open(); close() of a number that is not open fails   *)
(* with EBADF and changes nothing.                                         *)
(***************************************************************************)
EXTENDS Integers, FiniteSetsExt

CONSTANTS Files,     \* what a descriptor can refer to
          NoFile,    \* a free descriptor
          NFds       \* bound: size of the descriptor table

ASSUME NoFileAssumption == NoFile \notin Files
ASSUME NFdsAssumption == NFds \in Nat \ {0}

Fds == 0 .. NFds - 1

FdTables == [Fds -> Files \cup {NoFile}]

OpenFds(fds) == {n \in Fds : fds[n] # NoFile}

CanOpen(fds) == OpenFds(fds) # Fds

NewFd(fds) == Min(Fds \ OpenFds(fds))

AfterOpen(fds, file) == [fds EXCEPT ![NewFd(fds)] = file]

AfterClose(fds, n) == [m \in Fds |-> IF m = n THEN NoFile ELSE fds[m]]

\* What pread or pwrite on number n reaches; NoFile stands for EBADF.
Reached(fds, n) == IF n \in Fds THEN fds[n] ELSE NoFile
=============================================================================
