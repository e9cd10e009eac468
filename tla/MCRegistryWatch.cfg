\* A watcher against registrations, removals, plugin removals, health reports.
SPECIFICATION FairSpec
CONSTANTS
    RuntimeIDs = {p, q}
    ServiceTypes = {logger}
    Versions = {1}
    MinVersions = {0}
    RegIDs = {r1, r2}
    Clients = {}
    Watchers = {w1}
    WatchCap = 1
    Strategies = {}
    Health = {"DEGRADED", "UNHEALTHY"}
    AllowedSets = {}
    HasLifecycle = TRUE
    None = None
INVARIANTS
    NoSendOnClosedChannel
    StreamsUpToDate
PROPERTIES
    CancelledWatchCloses
