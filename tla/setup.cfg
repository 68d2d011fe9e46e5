CONSTANTS
    Procs = {p1, p2, p3}
    Here = "here"
    ConfigFiles <- MCConfigFiles
    SystemConfig <- MCSystemConfig
    RepoLua <- MCRepoLua
    CommandLines <- MCCommandLines
    Digits = {"f"}
    Roots = {r1, r2}
    Chunks = 2
    MaxMishaps = 2
SYMMETRY MCSymmetry
SPECIFICATION Spec
CHECK_DEADLOCK FALSE
INVARIANTS
    TypeOK
    OpensAlike
    MigratesAll
