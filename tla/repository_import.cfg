CONSTANTS
    x = x
    y = y
    l = l
    NoList = NoList
    Backups = {b1, b2}
    GCs = {g1}
    Prunes = {p1}
    Restores = {}
    Blobs = {x, y}
    Lists = {l}
    Blocks <- MCBlocks
    Source <- MCSource
    Unreadable = {l}
    UseWriteCache = TRUE
    GCDuringImport = TRUE
    SweepInterrupted = FALSE
SYMMETRY Symmetry
SPECIFICATION Spec
CHECK_DEADLOCK FALSE
INVARIANT
    NoDanglingReference
