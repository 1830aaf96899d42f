CONSTANTS
    s1 = s1
    s2 = s2
    shipped = shipped
    upstream = upstream
    remote = remote
    inprocess = inprocess
    chatonly = chatonly
    Task = {s1, s2}
    EntryCount = 2
    Edition = {shipped, upstream}
    Snapshot = shipped
    Provider = {remote, inprocess, chatonly}
    DimensionOf <- MCDimensionOf
    Local = {inprocess}
    TextCount = 3
    BatchLimit = 2
    MaxAttempts = 2
    Absent = Absent
    MaxChanges = 1
SPECIFICATION Spec
SYMMETRY Syncs
INVARIANTS
    TypeOK
    WholeOrNothing
    CleanSyncAgrees
    ContextIsOwn
CHECK_DEADLOCK FALSE
