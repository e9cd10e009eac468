\* Three overlapping calls, with and without an OnStateChange callback.
SPECIFICATION FairSpec
CONSTANTS
    Callers = {c1, c2, c3}
    FailureThreshold = 3
    SuccessThreshold = 2
    Timeout = 2
    MaxSuccesses = 2
PROPERTIES
    NeverOpensEarly
    NeverClosesEarly
    StaysOpenForTimeout
    RecoveryCloses
