CONSTANTS
    f1 = f1
    f2 = f2
    u1 = u1
    u2 = u2
    u3 = u3
    u4 = u4
    u5 = u5
    p1 = p1
    p2 = p2
    p3 = p3
    NoFile = NoFile
    File = {f1, f2}
    Unit = {u1, u2, u3, u4, u5}
    FileOf <- MCFileOf
    KeyOf <- MCKeyOf
    Keyworded <- MCKeyworded
    DiffPath = {p1, p2, p3}
    Resolve <- MCResolve
    Modes = {"full", "incremental"}
    MaxParallelFiles = 2
    ParallelThreshold = 1
    MaxParallelCalls = 1
    MaxCalls = 1
SPECIFICATION FairSpec
INVARIANTS
    TypeOK
    LedgerBalances
    CompletedMeansAudited
    FindingsAllOrNone
    NotifiedAfterVerdict
    
    EveryUnitOnce
PROPERTIES
    FilesAreIsolated
    LedgerSpec
    EveryTaskEnds
