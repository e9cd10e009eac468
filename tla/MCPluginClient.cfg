\* Three goroutines of one client, two hosts that may fail or hang.
SPECIFICATION FairSpec
CONSTANTS
    Threads = {"app", "reporter", "handler"}
    Hosts = {h1, h2}
    Configs <- MCConfigs
    Program <- MCProgram
    Offered <- MCOffered
    None = None
INVARIANTS
    OneHandshake
    ReportsReachTheirHost
PROPERTIES
    EndpointFollowsIdentity
    OperationsReturn
