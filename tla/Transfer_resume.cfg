SPECIFICATION Spec
CONSTANTS
    Length <- Shrinking
    Longest = 4
    MaxChunks = 2
    Sizes = {TRUE, FALSE}
    Changing = {TRUE}
    Ranges = {TRUE, FALSE}
    Answers = {"partial", "whole"}
    Policies = {"rename", "overwrite", "skip", "compare", "ask"}
    Mirrored = TRUE
    Interruptions = {"pause", "break", "crash", "power", "full"}
    MaxStops = 3
    MaxDiscards = 1
INVARIANT TypeOK
INVARIANT ConfirmedIsDurable
INVARIANT CompletedIsOneVersion
INVARIANT FetchedIsNotRefused
INVARIANT PlacedIsNotFetchedAgain
PROPERTY ConfirmedBytesStay
PROPERTY ImplementsDownload
CHECK_DEADLOCK FALSE
