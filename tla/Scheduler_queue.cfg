SPECIFICATION Spec
CONSTANTS
    N = 2
    Limit = 1
    MaxRetries = 1
    Exempt = {}
    Pooled = {2}
    Seeders = {}
    Gated = {}
    Requests = {r1}
    MaxRequests = 1
    MaxCrashes = 1
INVARIANT TypeOK
 
INVARIANT ShutdownReachesAll
INVARIANT OnlyAskedPauses
INVARIANT LimitRespected
PROPERTY FinishedStaysFinished
CHECK_DEADLOCK FALSE
