SPECIFICATION Spec
CONSTANTS
    Plugins = {"a", "b"}
    Types = {"kv"}
    Specs <- SharedPortSpecs
    Ports = {0, 1, 2}
    ForeignPorts = {}
    Callers = {c1}
    Requests = {}
    MaxLaunches = 1
    QueueCap = 1
    None = None
PROPERTIES
    ReadyMeansListening
CHECK_DEADLOCK FALSE
