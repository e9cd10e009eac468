SPECIFICATION Spec
CONSTANTS
    Callers = {c1, c2}
    Calling = {c1}
    SelfIDs <- MCSelfIDs
    ServiceNames <- TwoServices
    IDSuffixes = {"0"}
    ProviderName <- MCProviderName
    ProviderSuffix = "0"
    MaxServices = 2
    TTL = 2
    MaxHandshakes = 1
    MaxAttempts = 2
    InitialBackoff = 1
    Multiplier = 2
    MaxBackoff = 3
    Chains <- MCChains
    Errors = {"unavailable", "invalid_argument"}
    MaxNameLen = 3
    None = None
INVARIANTS
    NamedServiceReached
CHECK_DEADLOCK FALSE
