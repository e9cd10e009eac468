SPECIFICATION Spec
CONSTANTS
    Keys = {k1}
    Values = {v1}
    Watchers = {w1}
    WatchBuf = 2
    MaxWrites = 1
    Absent = Absent
    Types = {logger}
    Grants = {g1}
    Callers = {c1}
    GrantTTL = 2
    MaxHandlers = 1
    Free = Free
    Configs <- MCConfigs
    ShutdownTimeout = 1
    Nil = Nil
INVARIANTS
    AdvertisedBrokerIsServed
CHECK_DEADLOCK FALSE
