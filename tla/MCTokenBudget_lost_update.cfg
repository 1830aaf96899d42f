CONSTANTS
    Process = {w1, w2}
    Thread = {t1, t2}
    MaxCalls = 2
    MaxTokens = 2
    MaxCost = 1
    RedisMayFail = FALSE
SPECIFICATION Spec
INVARIANT
    PersistedStays
