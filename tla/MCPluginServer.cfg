SPECIFICATION FairSpec
CONSTANTS
    Keys = {k1}
    Values = {v1}
    Watchers = {w1}
    WatchBuf = 2
    MaxWrites = 3
    Absent = Absent
    Types = {logger}
    Grants = {g1}
    Callers = {c1, c2}
    GrantTTL = 2
    MaxHandlers = 2
    Free = Free
    Configs <- MCConfigs
    ShutdownTimeout = 2
    Nil = Nil
INVARIANTS
    StreamsAreSound
    ShutdownInOrder
PROPERTIES
    EndedWatchReturns
    GrantIsLease
    BrokerAnswers
    StopEndsServe
CHECK_DEADLOCK FALSE
