\* Two Watch calls on the overall status, updates and shutdown; no symmetry,
\* because liveness is checked too.
SPECIFICATION FairSpec
CONSTANTS
    Services = {overall}
    Overall = overall
    Watchers = {w1, w2}
    Settable = {"SERVING", "NOT_SERVING"}
    None = None
INVARIANTS
    SettledClientIsCurrent
PROPERTIES
    WatchIsFeed
    ShutdownReachesClients
    CancelledWatchIsRemoved
