SPECIFICATION FairSpec
CONSTANTS
    N = 2
    Limit = 1
    MaxRetries = 1
    Exempt = {}
    Pooled = {}
    Seeders = {2}
    Gated = {}
    Requests = {}
    MaxRequests = 0
    MaxCrashes = 0
PROPERTY QueueComesToRest
CHECK_DEADLOCK FALSE
