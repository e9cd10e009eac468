SPECIFICATION Spec
CONSTANTS
    Plugins = {"a", "b"}
    Types = {"kv"}
    Specs <- SharedPortSpecs
    Ports = {0, 1, 2}
    ForeignPorts = {2}
    Callers = {c1}
    Requests = {}
    MaxLaunches = 2
    QueueCap = 1
    None = None
PROPERTIES
    EndpointIsUpOrCrashed
CHECK_DEADLOCK FALSE
