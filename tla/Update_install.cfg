\* Two updates, three faults; a version may be one that never answers.
CONSTANTS
    Archive <- TwoUpdates
    MaxFaults = 3
    Faults = {"service", "updater", "stop", "stage", "rename", "spawn", "timeout", "roll_back"}
SPECIFICATION FairSpec
INVARIANTS
    TypeOK
    
    WayBack
    
PROPERTIES
    EndIsFinal
    UpdateEnds
\* The last version serves on, and a failed roll-back waits for a person.
CHECK_DEADLOCK FALSE
