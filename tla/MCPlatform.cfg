\* Two plugin processes, three runtime IDs.
SPECIFICATION Spec
CONSTANTS
    Procs = {"loggerProc", "cacheProc"}
    Declares <- MCDeclares
    RuntimeIDs = {1, 2, 3}
    Types = {"logger", "cache"}
    Decls <- MCDecls
    MaxCopies = 1
    MaxAgain = 0
    MaxPolls = 1
    OutOfBand = TRUE
    None = None
INVARIANTS
    TablesAgree
    OrphansExplained
    AddOrderIsStartupOrder
