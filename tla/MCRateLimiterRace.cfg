\* Two first requests, one limit.
SPECIFICATION LimiterSpec
CONSTANTS
    Requests = {c1, c2}
    Keys = {k1}
    BucketIDs = {b1, b2, b3}
    Limits <- OneLimit
    Token = 1
    Idle = 3
    MaxAge = 4
    None = None
PROPERTIES
    NeverOverLimit
