----------------------------- MODULE MCRepoLock -----------------------------
(* Instances of RepoLock: each process runs one operation of the program.  *)
EXTENDS RepoLock

CONSTANTS
    backup,     \* backup: BackupRun::run
    backupL,    \* backup -L
    test,       \* test-restore --all with two index files: RestoreRun
    gc,         \* gc (prune and history --keep lock the same way)
    gcL,        \* gc -L: refused
    migrate,    \* migrate: Migration::migrate2to3 and updateRepoVersion
    nested      \* a caller that uses lock()'s reentrancy, and an upgrade

MCLockFile == [p \in Procs |-> p]

MCProgram ==
    [p \in Procs |->
        CASE p = test -> <<"shared", "unlock", "shared", "unlock">>
          [] p \in {gc, gcL} -> <<"exclusive", "unlock">>
          [] p = migrate -> <<"shared", "unlock", "exclusive", "unlock">>
          [] p = nested -> <<"shared", "shared", "unlock", "exclusive">>
          [] OTHER -> <<"shared", "unlock">>]

MCUnlocks ==
    [p \in Procs |-> CASE p = test -> "constructor"
                       [] p = migrate -> "never"
                       [] OTHER -> "destructor"]

MCSymlinkLock == Procs \ {backupL, gcL}

(* Signals everywhere but after the release of an exclusive lock.          *)
NotReleased == Places

(* Nor between symlink() and the next statement of lock().                 *)
NotLinked == Places \ {"linked"}
Everywhere == Places \cup {"released"}
=============================================================================
