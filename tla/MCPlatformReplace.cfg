\* A plugin is not told the ID ReplacePlugin makes for it.
SPECIFICATION Spec
CONSTANTS
    Procs = {"loggerProc", "cacheProc"}
    Declares <- MCDeclares
    RuntimeIDs = {1, 2, 3}
    Types = {"logger", "cache"}
    Decls <- MCDecls
    MaxCopies = 1
    MaxAgain = 0
    MaxPolls = 1
    OutOfBand = FALSE
    None = None
PROPERTIES
    HealthyReplacementSucceeds
