SPECIFICATION Spec
CONSTANTS
    N = 2
    WithAccount = {}
    Kinds = {"transient", "refused", "local"}
    MaxRetries = 1
    MaxRounds = 1
    Races = {"request"}
    Ops = {"cancel"}
    MaxRequests = 1
    MaxCrashes = 0
INVARIANT TurnIsHeld
CHECK_DEADLOCK FALSE
