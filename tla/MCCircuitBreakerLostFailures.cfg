\* The failure count with a callback.
SPECIFICATION Spec
CONSTANTS
    Callers = {c1, c2, c3}
    FailureThreshold = 2
    SuccessThreshold = 2
    Timeout = 2
    MaxSuccesses = 2
SYMMETRY Symmetry
INVARIANTS
    OpensInTime
