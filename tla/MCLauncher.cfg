SPECIFICATION FairSpec
CONSTANTS
    Plugins = {"a"}
    Types = {"kv"}
    Specs <- MCSpecs
    Ports = {0, 1, 2}
    ForeignPorts = {2}
    Callers = {c1, c2}
    Requests = {r1}
    MaxLaunches = 2
    QueueCap = 1
    None = None
INVARIANTS
    OneIncarnationAlive
PROPERTIES
    EndpointIsUpOrCrashed
    ShutdownStopsAll
    LauncherReturns
CHECK_DEADLOCK FALSE
