\* Selection over three registrations of two versions, against health reports.
SPECIFICATION Spec
CONSTANTS
    RuntimeIDs = {p, q}
    ServiceTypes = {logger}
    Versions = {1, 2}
    MinVersions = {0, 2}
    RegIDs = {r1, r2, r3}
    Clients = {c1}
    Watchers = {}
    WatchCap = 1
    Strategies = {"RoundRobin"}
    Health = {"UNHEALTHY"}
    AllowedSets = {{}}
    HasLifecycle = TRUE
    None = None
SYMMETRY Symmetry
INVARIANTS
    SelectionIsRight
PROPERTIES
    SingleProviderOrGone
