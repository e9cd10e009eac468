\* Removing a plugin, seen by a watcher.
SPECIFICATION Spec
CONSTANTS
    RuntimeIDs = {p, q}
    ServiceTypes = {logger}
    Versions = {1}
    MinVersions = {0}
    RegIDs = {r1, r2}
    Clients = {}
    Watchers = {w1}
    WatchCap = 2
    Strategies = {}
    Health = {"DEGRADED", "UNHEALTHY"}
    AllowedSets = {}
    HasLifecycle = TRUE
    None = None
INVARIANTS
    ToldOfPluginRemoval
