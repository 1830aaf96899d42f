CONSTANTS
    narrow = narrow
    wide = wide
    broken = broken
    t1 = t1
    t2 = t2
    Thread = {t1, t2}
    Content = {narrow, wide, broken}
    Loadable = {narrow, wide}
    Name = {"first", "second", "default"}
    LimitOf <- MCLimitOf
    ProvidersOf <- MCProvidersOf
    Gone = Gone
    Nothing = Nothing
    MaxAttempts = 2
    MaxCalls = 2
    MaxEdits = 1
SPECIFICATION FairSpec
INVARIANTS
    TypeOK
    LimitRestored
    LimitDescribesGate
PROPERTIES
    EveryCallEnds
CHECK_DEADLOCK FALSE
