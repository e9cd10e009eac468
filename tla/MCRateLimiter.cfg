\* Two overlapping requests on one key, two limits.
SPECIFICATION LimiterSpec
CONSTANTS
    Requests = {c1, c2}
    Keys = {k1}
    BucketIDs = {b1, b2, b3}
    Limits <- MCLimits
    Token = 2
    Idle = 3
    MaxAge = 4
    None = None
SYMMETRY Symmetry
PROPERTIES
    RefusedOnlyOverLimit
    OverLimitOnlyIfUpset
