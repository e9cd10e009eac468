\* Four plugins, two service types.
SPECIFICATION GraphSpec
CONSTANTS
    RuntimeIDs = {1, 2, 3, 4}
    Types = {"logger", "cache"}
    Decls <- MCDecls
    MaxCopies = 2
    MaxAgain = 1
    None = None
INVARIANTS
    IndexAgrees
    StartupIsRight
    ImpactIsRight
