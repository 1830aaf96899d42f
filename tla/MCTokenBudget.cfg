CONSTANTS
    Process = {w1, w2}
    Thread = {t1, t2, t3}
    MaxCalls = 2
    MaxTokens = 1
    MaxCost = 1
    RedisMayFail = TRUE
SYMMETRY Symmetry
SPECIFICATION Spec
INVARIANTS
    TypeOK
    CallsOvershoot
    TokensOvershoot
    EveryAnswerIsCharged
