\* One update that is taken back, and an updater that ends after it has started
\* the old version again.
CONSTANTS
    Archive <- OneUpdate
    MaxFaults = 2
    Faults = {"service", "updater", "timeout", "late"}
SPECIFICATION Spec
PROPERTY WorkIsKept
CHECK_DEADLOCK FALSE
