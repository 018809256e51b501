SPECIFICATION FairSpec
CONSTANTS
    N = 3
    WithAccount = {3}
    Kinds = {"transient", "refused", "local"}
    MaxRetries = 1
    MaxRounds = 1
    Races = {}
    Ops = {"cancel", "resume"}
    MaxRequests = 1
    MaxCrashes = 1
INVARIANT TypeOK
INVARIANT OneAtATime
 
INVARIANT TurnIsHeld
PROPERTY GivenUpStays
PROPERTY GroupEnds
CHECK_DEADLOCK FALSE
