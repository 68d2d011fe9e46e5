------------------------------ MODULE RepoLock ------------------------------
(***************************************************************************)
(* The lock directory of a repository, as Repository::lock() and           *)
(* Repository::unlock() use it (src/src/Repository.cpp:129-195): one file  *)
(* "<backupName>-<pid>.lock" per process, and the symbolic link "lock",    *)
(* which symlink() creates atomically or not at all.  A shared locker      *)
(* holds the link for a moment and then its own file only; an exclusive    *)
(* one keeps the link and counts the files of the others.                  *)
(*                                                                         *)
(* A process is one execution of the program.  It makes the lock calls of  *)
(* its operation in order; a call that throws, a failure of the work done  *)
(* under the lock, a signal and a crash each end it in their own way.      *)
(***************************************************************************)
EXTENDS Naturals, Sequences, FiniteSets

CONSTANTS
    Procs,          \* the executions of the program
    LockFile,       \* LockFile[p]: the name of p's lock file
    Program,        \* Program[p]: the calls of lock and unlock p makes
    Unlocks,        \* Unlocks[p]: which failures the owner of p's lock unlocks
    SymlinkLock,    \* the processes that run without -L (useSymlinkLock)
    SignalPoints,   \* the places where a signal may reach interruptHandler
    Crashes,        \* whether a process may be killed
    NoLock          \* the path locks/lock does not exist

Calls == {"shared", "exclusive", "unlock"}

(* BackupRun, GarbageCollection, Prune and History unlock in their         *)
(* destructor whatever throws; RestoreRun locks in its constructor, so a   *)
(* lock() that throws there is not unlocked; Migration unlocks nothing     *)
(* when it throws.                                                         *)
Owners == {"destructor", "constructor", "never"}

ASSUME ProcsAssumption == IsFiniteSet(Procs)
ASSUME LockFileAssumption ==
    /\ DOMAIN LockFile = Procs
    /\ \A p \in Procs : LockFile[p] # NoLock
ASSUME ProgramAssumption == Program \in [Procs -> Seq(Calls)]
ASSUME UnlocksAssumption == Unlocks \in [Procs -> Owners]

(* An exclusive lock is an operation's last: only its unlock() follows.    *)
ASSUME ExclusiveIsLast ==
    \A p \in Procs : \A i, j \in DOMAIN Program[p] :
        i < j /\ Program[p][i] = "exclusive" =>
            j = i + 1 /\ Program[p][j] = "unlock"

VARIABLES
    lockFiles,      \* the files locks/*.lock
    exclusiveLock,  \* the lock file the link locks/lock names, or NoLock
    pc,             \* where each process is
    step,           \* index in Program[p] of the call p makes, or makes next
    lockCount,      \* RuntimeConfig::lockCount
    haveExclusiveLock   \* RuntimeConfig::haveExclusiveLock

vars == <<lockFiles, exclusiveLock, pc, step, lockCount, haveExclusiveLock>>
dirVars == <<lockFiles, exclusiveLock>>

LockNames == {LockFile[p] : p \in Procs}
Dead == {"exited", "crashed"}
Places == {"ready", "link", "linked", "list", "check", "unlocking", "unwind",
           "unwinding", "handler", "handling"}

TypeOK ==
    /\ lockFiles \subseteq LockNames
    /\ exclusiveLock \in LockNames \cup {NoLock}
    /\ pc \in [Procs -> Places \cup Dead]
    /\ step \in [Procs -> Nat \ {0}]
    /\ lockCount \in [Procs -> Nat]
    /\ haveExclusiveLock \in [Procs -> BOOLEAN]

Init ==
    /\ lockFiles = {}
    /\ exclusiveLock = NoLock
    /\ pc = [p \in Procs |-> "ready"]
    /\ step = [p \in Procs |-> 1]
    /\ lockCount = [p \in Procs |-> 0]
    /\ haveExclusiveLock = [p \in Procs |-> FALSE]

-----------------------------------------------------------------------------
(* Helpers: the call p makes, and where control goes next.                 *)

Requests(p, call) ==
    step[p] \in DOMAIN Program[p] /\ Program[p][step[p]] = call

Goto(p, place) == pc' = [pc EXCEPT ![p] = place]

(* An exception leaves p for a destructor that unlocks, or for main().     *)
Throw(p, owners) ==
    Goto(p, IF Unlocks[p] \in owners THEN "unwind" ELSE "exited")

(* lock() throws: RestoreRun has no destructor yet, Migration has none.    *)
ThrowFromLockUncaught(p) == Goto(p, "exited")
ThrowFromLock(p) == Throw(p, {"destructor"})

Acquire(p) ==
    /\ lockCount' = [lockCount EXCEPT ![p] = 1]
    /\ step' = [step EXCEPT ![p] = @ + 1]
    /\ Goto(p, "ready")

-----------------------------------------------------------------------------
(* Repository::lock                                                        *)

(* Lines 131-136: reentrant, but a shared lock is not upgraded.            *)
UpgradeRefused(p) == Requests(p, "exclusive") /\ ~haveExclusiveLock[p]

LockAgain(p) ==
    /\ pc[p] = "ready" /\ lockCount[p] > 0
    /\ Requests(p, "shared") \/ Requests(p, "exclusive")
    /\ IF UpgradeRefused(p)
       THEN /\ ThrowFromLock(p)
            /\ UNCHANGED <<step, lockCount>>
       ELSE /\ lockCount' = [lockCount EXCEPT ![p] = @ + 1]
            /\ step' = [step EXCEPT ![p] = @ + 1]
            /\ UNCHANGED pc
    /\ UNCHANGED <<dirVars, haveExclusiveLock>>

(* Lines 140-142: open(O_CREAT | O_EXCL).                                  *)
CreateLockFile(p) ==
    /\ pc[p] = "ready" /\ lockCount[p] = 0
    /\ Requests(p, "shared") \/ Requests(p, "exclusive")
    /\ IF LockFile[p] \in lockFiles
       THEN ThrowFromLock(p) /\ UNCHANGED lockFiles
       ELSE /\ lockFiles' = lockFiles \cup {LockFile[p]}
            /\ Goto(p, IF p \in SymlinkLock THEN "link" ELSE "check")
    /\ UNCHANGED <<exclusiveLock, step, lockCount, haveExclusiveLock>>

(* Lines 145-155: symlink() fails when the link exists.                    *)
MakeSymlinkOverwriting(p) ==
    /\ pc[p] = "link"
    /\ exclusiveLock' = LockFile[p] /\ Goto(p, "linked")
    /\ UNCHANGED <<lockFiles, step, lockCount, haveExclusiveLock>>

MakeSymlink(p) ==
    /\ pc[p] = "link"
    /\ IF exclusiveLock # NoLock
       THEN ThrowFromLock(p) /\ UNCHANGED exclusiveLock
       ELSE exclusiveLock' = LockFile[p] /\ Goto(p, "linked")
    /\ UNCHANGED <<lockFiles, step, lockCount, haveExclusiveLock>>

(* Lines 157-158.                                                          *)
MarkExclusiveForgotten(p) ==
    /\ pc[p] = "linked" /\ Requests(p, "exclusive")
    /\ Goto(p, "list")
    /\ UNCHANGED <<dirVars, step, lockCount, haveExclusiveLock>>

MarkExclusive(p) ==
    /\ pc[p] = "linked" /\ Requests(p, "exclusive")
    /\ haveExclusiveLock' = [haveExclusiveLock EXCEPT ![p] = TRUE]
    /\ Goto(p, "list")
    /\ UNCHANGED <<dirVars, step, lockCount>>

(* Lines 161-166: the pattern "*.lock" does not match the link "lock", so  *)
(* the listing holds p's own file and those of all other processes.        *)
OtherLocksExistOffByOne == Cardinality(lockFiles) > 2
OtherLocksExist == Cardinality(lockFiles) > 1

CountLocks(p) ==
    /\ pc[p] = "list"
    /\ IF OtherLocksExist
       THEN ThrowFromLock(p) /\ UNCHANGED <<step, lockCount>>
       ELSE Acquire(p)
    /\ UNCHANGED <<dirVars, haveExclusiveLock>>

(* Lines 168 and 180.                                                      *)
DropSymlink(p) ==
    /\ pc[p] = "linked" /\ Requests(p, "shared")
    /\ exclusiveLock' = NoLock
    /\ Acquire(p)
    /\ UNCHANGED <<lockFiles, haveExclusiveLock>>

(* Lines 171-177, with -L.  File::isFile() (src/src/lib/File.cpp:168-176)  *)
(* asks lstat() for a regular file, which a link never is.                 *)
ExclusiveLockIsFile == FALSE

CheckExclusiveLock(p) ==
    /\ pc[p] = "check"
    /\ IF Requests(p, "exclusive") \/ ExclusiveLockIsFile
       THEN ThrowFromLock(p) /\ UNCHANGED <<step, lockCount>>
       ELSE Acquire(p)
    /\ UNCHANGED <<dirVars, haveExclusiveLock>>

-----------------------------------------------------------------------------
(* Repository::unlock: lines 185-191, then 192-194.                        *)

RemoveLockFileCounting(p) ==
    /\ lockCount' = [lockCount EXCEPT ![p] = @ - 1]
    /\ lockFiles' = lockFiles \ {LockFile[p]}

RemoveLockFile(p) ==
    /\ lockCount' = [lockCount EXCEPT ![p] = 0]
    /\ lockFiles' = lockFiles \ {LockFile[p]}

RemoveExclusiveLockOfOthers(p) == exclusiveLock' = NoLock
RemoveExclusiveLockIfHeld(p) ==
    exclusiveLock' = IF lockCount[p] > 0 THEN NoLock ELSE exclusiveLock

RemoveExclusiveLock(p) ==
    exclusiveLock' = IF haveExclusiveLock[p] THEN NoLock ELSE exclusiveLock

Unlock(p) ==
    /\ pc[p] = "ready" /\ Requests(p, "unlock")
    /\ IF lockCount[p] > 1
       THEN /\ lockCount' = [lockCount EXCEPT ![p] = @ - 1]
            /\ step' = [step EXCEPT ![p] = @ + 1]
            /\ UNCHANGED <<lockFiles, pc>>
       ELSE /\ RemoveLockFile(p)
            /\ Goto(p, "unlocking")
            /\ UNCHANGED step
    /\ UNCHANGED <<exclusiveLock, haveExclusiveLock>>

FinishUnlock(p) ==
    /\ pc[p] = "unlocking"
    /\ RemoveExclusiveLock(p)
    /\ step' = [step EXCEPT ![p] = @ + 1]
    /\ Goto(p, "ready")
    /\ UNCHANGED <<lockFiles, lockCount, haveExclusiveLock>>

(* The same calls from the destructors, one for each lock() that is held,  *)
(* and from the handler, which forces.                                     *)
UnwindUnlock(p) ==
    /\ pc[p] = "unwind"
    /\ IF lockCount[p] > 1
       THEN /\ lockCount' = [lockCount EXCEPT ![p] = @ - 1]
            /\ UNCHANGED <<lockFiles, pc>>
       ELSE RemoveLockFile(p) /\ Goto(p, "unwinding")
    /\ UNCHANGED <<exclusiveLock, step, haveExclusiveLock>>

HandlerUnlock(p) ==
    /\ pc[p] = "handler"
    /\ RemoveLockFile(p)
    /\ Goto(p, "handling")
    /\ UNCHANGED <<exclusiveLock, step, haveExclusiveLock>>

Exit(p) ==
    /\ pc[p] \in {"unwinding", "handling"}
    /\ RemoveExclusiveLock(p)
    /\ Goto(p, "exited")
    /\ UNCHANGED <<lockFiles, step, lockCount, haveExclusiveLock>>

-----------------------------------------------------------------------------
(* The process around the calls.                                           *)

(* main() returns.                                                         *)
Return(p) ==
    /\ pc[p] = "ready" /\ step[p] > Len(Program[p])
    /\ Goto(p, "exited")
    /\ UNCHANGED <<dirVars, step, lockCount, haveExclusiveLock>>

(* What the process does under its lock throws.                            *)
WorkFails(p) ==
    /\ pc[p] = "ready" /\ lockCount[p] > 0
    /\ Throw(p, {"destructor", "constructor"})
    /\ UNCHANGED <<dirVars, step, lockCount, haveExclusiveLock>>

(* haveExclusiveLock stays set after unlock(): from then to the end of the *)
(* process interruptHandler still removes the link.                        *)
ReleasedExclusive(p) ==
    pc[p] = "ready" /\ lockCount[p] = 0 /\ haveExclusiveLock[p]

SignalPoint(p) == IF ReleasedExclusive(p) THEN "released" ELSE pc[p]

(* SIGINT, SIGTERM, SIGHUP or SIGPIPE (src/src/main.cpp:218-223,246-249).  *)
Interrupt(p) ==
    /\ pc[p] \in Places \ {"handler", "handling"}
    /\ SignalPoint(p) \in SignalPoints
    /\ Goto(p, "handler")
    /\ UNCHANGED <<dirVars, step, lockCount, haveExclusiveLock>>

(* SIGKILL, a power failure: the files stay.                               *)
Crash(p) ==
    /\ Crashes
    /\ pc[p] \in Places
    /\ Goto(p, "crashed")
    /\ UNCHANGED <<dirVars, step, lockCount, haveExclusiveLock>>

(* "rm -f locks/*" as the container starts (docker-entrypoint.sh:41), when *)
(* it is the only one to use the repository.                               *)
Alone ==
    \A p \in Procs :
        pc[p] \in Dead \/ (pc[p] = "ready" /\ lockCount[p] = 0
                             /\ step[p] = 1 /\ ~haveExclusiveLock[p])

ClearLocks ==
    /\ Alone
    /\ lockFiles' = {}
    /\ exclusiveLock' = NoLock
    /\ UNCHANGED <<pc, step, lockCount, haveExclusiveLock>>

(* What p does unless something stops it.                                  *)
Proceed(p) ==
    \/ LockAgain(p) \/ CreateLockFile(p) \/ MakeSymlink(p)
    \/ MarkExclusive(p) \/ CountLocks(p) \/ DropSymlink(p)
    \/ CheckExclusiveLock(p)
    \/ Unlock(p) \/ FinishUnlock(p)
    \/ UnwindUnlock(p) \/ HandlerUnlock(p) \/ Exit(p)
    \/ Return(p)

Next ==
    \/ \E p \in Procs : Proceed(p) \/ WorkFails(p) \/ Interrupt(p) \/ Crash(p)
    \/ ClearLocks

Spec == Init /\ [][Next]_vars

(* No call waits: the scheduler lets every process run on.                 *)
FairSpec == Spec /\ \A p \in Procs : WF_vars(Proceed(p))

-----------------------------------------------------------------------------
(* Properties.                                                             *)

Holds(p) == lockCount[p] > 0 /\ pc[p] \notin Dead
HoldsExclusive(p) == Holds(p) /\ haveExclusiveLock[p]

(* While a process is under an exclusive lock() (gc, prune, history --keep,*)
(* the rewriting of repo.properties), no other is under any lock().        *)
MutualExclusion ==
    \A p, q \in Procs : p # q /\ HoldsExclusive(p) => ~Holds(q)

(* Whoever holds the repository is listed in locks/: an exclusive locker   *)
(* that counts the files cannot miss it, and an exclusive holder keeps the *)
(* link, so that no lock() after it succeeds.                              *)
HolderIsListed ==
    \A p \in Procs :
        /\ Holds(p) => LockFile[p] \in lockFiles
        /\ HoldsExclusive(p) => exclusiveLock = LockFile[p]

(* Why they hold.  A process inside lock() or unlock() holds nothing, and  *)
(* what follows an exclusive lock() is its unlock() and the end.           *)
AfterExclusive(p) ==
    \E i \in DOMAIN Program[p] :
        step[p] = i + 1 /\ Program[p][i] = "exclusive"

LocalInv(p) ==
    /\ pc[p] \in {"link", "linked", "list", "check"} =>
          /\ lockCount[p] = 0
          /\ Requests(p, "shared") \/ Requests(p, "exclusive")
    /\ pc[p] \in {"unlocking", "unwinding", "handling"} => lockCount[p] = 0
    /\ pc[p] \in {"link", "linked", "check"} => ~haveExclusiveLock[p]
    /\ pc[p] = "list" => haveExclusiveLock[p] /\ Requests(p, "exclusive")
    /\ pc[p] = "check" => p \notin SymlinkLock
    /\ haveExclusiveLock[p] /\ pc[p] \in {"ready", "unlocking"} =>
          \/ AfterExclusive(p) /\ (pc[p] = "ready" => lockCount[p] = 1)
          \/ ReleasedExclusive(p) /\ step[p] \notin DOMAIN Program[p]

(* A process has its lock file from open() to unlock(), and the link from  *)
(* symlink() to the end of a shared lock() or of an exclusive unlock().    *)
NeedsFile(p) == Holds(p) \/ pc[p] \in {"link", "linked", "list", "check"}
NeedsLink(p) ==
    \/ pc[p] = "linked"
    \/ haveExclusiveLock[p] /\ pc[p] \notin Dead /\ ~ReleasedExclusive(p)

DirInv(p) ==
    /\ NeedsFile(p) => LockFile[p] \in lockFiles
    /\ NeedsLink(p) => exclusiveLock = LockFile[p]

LockInv == \A p \in Procs : LocalInv(p) /\ DirInv(p)
IInv == TypeOK /\ LockInv /\ MutualExclusion

(* The detailed lock implements the readers-writer lock.                   *)
LockMode ==
    [p \in Procs |-> IF HoldsExclusive(p) THEN "exclusive"
                     ELSE IF Holds(p) THEN "shared" ELSE "none"]
RW == INSTANCE RWLock WITH mode <- LockMode
ImplementsRWLock == RW!Spec

(* unlock() "releases the acquired lock": the link of one process is not   *)
(* removed by another one that is still running or has locks of its own.   *)
OnlyOwnerUnlocks ==
    [][\A p \in Procs :
         exclusiveLock = LockFile[p] /\ exclusiveLock' # LockFile[p]
           => Alone \/ pc'[p] # pc[p]]_vars

(* A process that ends without being killed leaves no lock behind, however *)
(* it was refused, failed or was interrupted.                              *)
ExitLeavesNothing ==
    \A p \in Procs :
        pc[p] = "exited" =>
            LockFile[p] \notin lockFiles /\ exclusiveLock # LockFile[p]

(* "Locked exclusively" and "other locks exist" are said only while another*)
(* process is really at work: nothing that has ended refuses a lock.       *)
Refused(p) == pc[p] \in {"link", "list"} /\ pc'[p] \in {"unwind", "exited"}
AtWork(q) == pc[q] \in Places /\ (pc[q] # "ready" \/ lockCount[q] > 0)

RefusedByTheLiving ==
    [][\A p \in Procs : Refused(p) => \E q \in Procs \ {p} : AtWork(q)]_vars

(* Nobody keeps the link for ever, so a retried lock() can succeed.        *)
LinkIsReleased == exclusiveLock # NoLock ~> exclusiveLock = NoLock
=============================================================================
