------------------------------- MODULE RWLock -------------------------------
(***************************************************************************)
(* What Repository::lock(exclusive) and Repository::unlock() promise       *)
(* (src/src/Repository.h:74-84): any number of processes may hold the      *)
(* repository in shared mode, or a single one in exclusive mode.  A lock   *)
(* is never waited for: a process that cannot have it is refused, which    *)
(* leaves this state unchanged.                                            *)
(***************************************************************************)
CONSTANT Procs

VARIABLE mode   \* mode[p]: how process p holds the repository

Modes == {"none", "shared", "exclusive"}

TypeOK == mode \in [Procs -> Modes]

Init == mode = [p \in Procs |-> "none"]

AcquireShared(p) ==
    /\ mode[p] = "none"
    /\ \A q \in Procs : mode[q] # "exclusive"
    /\ mode' = [mode EXCEPT ![p] = "shared"]

AcquireExclusive(p) ==
    /\ \A q \in Procs : mode[q] = "none"
    /\ mode' = [mode EXCEPT ![p] = "exclusive"]

(* unlock(), and the death of the process that holds the lock.             *)
Release(p) ==
    /\ mode[p] # "none"
    /\ mode' = [mode EXCEPT ![p] = "none"]

Next ==
    \E p \in Procs : AcquireShared(p) \/ AcquireExclusive(p) \/ Release(p)

Spec == Init /\ [][Next]_mode

(* An exclusive holder is alone.                                           *)
Exclusion ==
    \A p, q \in Procs :
        p # q /\ mode[p] = "exclusive" => mode[q] = "none"
=============================================================================
