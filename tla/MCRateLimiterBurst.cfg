\* Three overlapping requests on one key, a burst of two that is not refilled.
SPECIFICATION LimiterSpec
CONSTANTS
    Requests = {c1, c2, c3}
    Keys = {k1}
    BucketIDs = {b1, b2, b3, b4}
    Limits <- OneTimeBurst
    Token = 1
    Idle = 3
    MaxAge = 4
    None = None
SYMMETRY Symmetry
PROPERTIES
    OverLimitOnlyIfUpset
