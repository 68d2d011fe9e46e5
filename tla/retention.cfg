CONSTANTS
    Day = 2
    Week = 7
    Month = 30
    KeepAll = 1
    KeepDaily = 14
    KeepWeekly = 30
    MaxDuration = 2
    MaxMishaps = 1
    Horizon = 240
SPECIFICATION Spec
INVARIANTS
    TypeOK
    FirstIsKept
    OneOfEachStays
    NoHoles
    OldOnesStay
