CONSTANTS
    backup = backup
    backupL = backupL
    test = test
    gc = gc
    gcL = gcL
    migrate = migrate
    nested = nested
    Procs = {test, gc, migrate}
    NoLock = NoLock
    LockFile <- MCLockFile
    Program <- MCProgram
    Unlocks <- MCUnlocks
    SymlinkLock <- MCSymlinkLock
    SignalPoints <- NotReleased
    Crashes = TRUE
SPECIFICATION Spec
INVARIANTS
    TypeOK
    MutualExclusion
    HolderIsListed
PROPERTIES
    ImplementsRWLock
    OnlyOwnerUnlocks
