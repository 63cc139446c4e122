SPECIFICATION MCSpec
CONSTANTS
    Kinds = {"note", "quiet", "reset", "sensing"}
    Keys = TRUE
    Latency = 4
    StreamMax = 3
    QueueMax = 6
    SenseMax = 2
    Capacity = 2
    PassMax = 3
INVARIANTS RunsAhead DropsOnlyLate ExpiresInSilence
PROPERTY ComesBack
