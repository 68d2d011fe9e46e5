CONSTANTS
    Node <- MCNode
    Root = "/"
    Parent <- MCParent
    Above <- MCAbove
    Contents = {"small", "big", "new", "huge"}
    Cases <- MCCases
    Device <- MCDevice
    OddNames = {"o"}
    Unreadable = {"v"}
    ReadOnly = {"e"}
    Parts <- MCParts
    Size <- MCSize
    UIntRange = 4
    CpioMaxFileSize = 8
    Alike <- MCAlike
    Options <- MCAllOptions
    Obstacles <- MCObstacles
    Damages <- MCDamages
    MaxChanges = 2
    MaxMishaps = 1
    MaxBoth = 2
    MaxRuns = 2
    Revisits <- MCRevisits
SPECIFICATION Spec
CHECK_DEADLOCK FALSE
INVARIANTS
    TypeOK
    RestoreRight
    ExistingStays
    PartialIsKnown
    TestFindsDamage
    StreamSound
    ComesBack
    BackupExact
PROPERTIES
    RunsEnd
