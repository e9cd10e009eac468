\* A managed plugin: the host assigns the identity, Connect is not called.
SPECIFICATION FairSpec
CONSTANTS
    Threads = {"handler"}
    Hosts = {h1, h2}
    Configs <- Managed
    Program <- OnlyManaged
    Offered <- MCOffered
    None = None
INVARIANTS
    IdentifiedCanReport
