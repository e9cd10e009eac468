\* Discoveries of two loggers that take turns, and a client that asks HasService.
SPECIFICATION Spec
CONSTANTS
    RuntimeIDs = {p, q}
    ServiceTypes = {logger}
    Versions = {1}
    MinVersions = {0}
    RegIDs = {r1, r2}
    Clients = {c1}
    Watchers = {}
    WatchCap = 1
    Strategies = {"RoundRobin"}
    Health = {}
    AllowedSets = {}
    HasLifecycle = TRUE
    None = None
PROPERTIES
    EachDiscoveryDiffers
