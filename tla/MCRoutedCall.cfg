\* A caller with retries, another plugin whose runtime ID may clash with its own.
SPECIFICATION FairSpec
CONSTANTS
    Callers = {c1, c2}
    Calling = {c1}
    SelfIDs <- MCSelfIDs
    ServiceNames <- MCServiceNames
    IDSuffixes = {"0", "1"}
    ProviderName <- MCProviderName
    ProviderSuffix = "0"
    MaxServices = 1
    TTL = 2
    MaxHandshakes = 1
    MaxAttempts = 2
    InitialBackoff = 1
    Multiplier = 2
    MaxBackoff = 3
    Chains <- MCChains
    Errors = {"unavailable", "invalid_argument"}
    MaxNameLen = 3
    None = None
INVARIANTS
    NamedProviderReached
    SucceedsOnceUnlessLost
PROPERTIES
    AdmittedWhileTokenLives
    EveryCallEnds
CHECK_DEADLOCK FALSE
