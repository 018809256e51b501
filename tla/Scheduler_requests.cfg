SPECIFICATION Spec
CONSTANTS
    N = 1
    Limit = 1
    MaxRetries = 0
    Exempt = {}
    Pooled = {}
    Seeders = {1}
    Gated = {1}
    Requests = {r1, r2}
    MaxRequests = 3
    MaxCrashes = 0
SYMMETRY HandlerSymmetry
INVARIANT WorkIsAlone
INVARIANT HoldsAccounted
INVARIANT ReasonAccounted
CHECK_DEADLOCK FALSE
