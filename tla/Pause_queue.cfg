SPECIFICATION FairSpec
CONSTANTS
    N = 2
    Limit = 1
    Targets <- FileAndPackage
    MaxRetries = 1
    Ops = {"timed", "started", "resume", "mark", "clear"}
    Races = {}
    MaxRequests = 2
    MaxCrashes = 1
INVARIANT TypeOK
 
PROPERTY StopMarkStops
 
CHECK_DEADLOCK FALSE
