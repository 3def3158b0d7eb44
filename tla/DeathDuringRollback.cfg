SPECIFICATION Spec
CONSTANTS
    Keep = 3
    Faults = {}
    MaxVersions = 2
    MaxBackups = 3
    MaxRestores = 1
    MaxFaults = 0
    MaxCrashes = 1
INVARIANTS
    RollbacksAreFinished
CHECK_DEADLOCK FALSE
