CONSTANTS
    backup = backup
    backupL = backupL
    test = test
    gc = gc
    gcL = gcL
    migrate = migrate
    nested = nested
    Procs = {backup, gc, gcL, nested}
    NoLock = NoLock
    LockFile <- MCLockFile
    Program <- MCProgram
    Unlocks <- MCUnlocks
    SymlinkLock <- MCSymlinkLock
    SignalPoints <- NotLinked
    Crashes = FALSE
SPECIFICATION FairSpec
INVARIANTS
    ExitLeavesNothing
PROPERTIES
    RefusedByTheLiving
    LinkIsReleased
