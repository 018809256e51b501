\* Two restores, three faults of any kind the code repairs.
CONSTANTS
    MaxRestores = 2
    MaxFaults = 3
    Faults = {"crash", "rename", "open", "start", "damage", "unmark"}
SPECIFICATION FairSpec
INVARIANTS
    TypeOK
    OwnIsKept
    NeverMixed
    CredentialsAreKept
PROPERTIES
    TriedOnce
    RestoreIsSettled
