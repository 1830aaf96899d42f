CONSTANTS
    SolFile = {f1, f2}
    Request = {r1, r2}
    Task = {t1, t2, t3, t4}
    Kind <- MCKind
    Guarded <- MCGuarded
    Slots = 2
    MayFail = TRUE
SYMMETRY Symmetry
SPECIFICATION Spec
INVARIANTS
    TypeOK
    ReadyMeansListed
    OnlyReadyProjects
    NoOrphanRows
PROPERTY
    StatusOnlyForward
