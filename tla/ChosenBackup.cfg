SPECIFICATION Spec
CONSTANTS
    Keep = 1
    Faults = {}
    MaxVersions = 2
    MaxBackups = 3
    MaxRestores = 1
    MaxFaults = 0
    MaxCrashes = 0
INVARIANTS
    ChosenBackupStays
CHECK_DEADLOCK FALSE
