CONSTANTS
    Backups = {b1, b2}
    Sources = {f, g}
    Chunks = {u, v}
    Hole = Hole
    None = None
    MaxChanges = 1
    MaxKills = 0
    KillWhileMoving = FALSE
SYMMETRY Symmetry
SPECIFICATION Spec
CHECK_DEADLOCK FALSE
INVARIANT
    AttrAlwaysSound
