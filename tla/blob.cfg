CONSTANTS
    Backups = {b1, b2}
    Sources = {f, g}
    Chunks = {u, v}
    Hole = Hole
    None = None
    MaxChanges = 1
    MaxKills = 1
    KillWhileMoving = FALSE
SYMMETRY Symmetry
SPECIFICATION Spec
CHECK_DEADLOCK FALSE
INVARIANTS
    TypeOK
    BlobSound
    IndexSound
    AttrSound
PROPERTY
    BlobStays
