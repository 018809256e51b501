\* One restore whose roll-back is itself interrupted.
CONSTANTS
    MaxRestores = 1
    MaxFaults = 2
    Faults = {"crash", "rename", "open", "interrupted_roll_back"}
SPECIFICATION Spec
INVARIANT OwnIsKept
CHECK_DEADLOCK FALSE
