SPECIFICATION FairSpec
CONSTANTS
    Length <- Single
    Longest = 4
    MaxChunks = 3
    Sizes = {TRUE}
    Changing = {TRUE}
    Ranges = {TRUE}
    Answers = {"partial"}
    Policies = {"rename"}
    Mirrored = FALSE
    Interruptions = {"crash", "power"}
    MaxStops = 3
    MaxDiscards = 0
PROPERTY CrashesOnlyCostTime
CHECK_DEADLOCK FALSE
