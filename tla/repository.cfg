CONSTANTS
    x = x
    y = y
    l = l
    NoList = NoList
    Backups = {b1, b2}
    GCs = {g1}
    Prunes = {p1}
    Restores = {r1}
    Blobs = {x, y}
    Lists = {l}
    Blocks <- MCBlocks
    Source <- MCSource
    Unreadable = {l}
    UseWriteCache = TRUE
    GCDuringImport = FALSE
    SweepInterrupted = FALSE
SYMMETRY Symmetry
SPECIFICATION Spec
CHECK_DEADLOCK FALSE
INVARIANTS
    TypeOK
    NoDanglingReference
    CacheSound
    BackupSound
    RestoreFindsAll
    GCExact
