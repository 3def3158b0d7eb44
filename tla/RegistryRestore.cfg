SPECIFICATION FairSpec
CONSTANTS
    Keep = 2
    Faults = {"step", "undo", "report", "recovery"}
    MaxVersions = 3
    MaxBackups = 4
    MaxRestores = 1
    MaxFaults = 2
    MaxCrashes = 2
INVARIANTS
    RollbackIsPossible
PROPERTIES
    LaterWorkIsKept
    JournalsTell
    RestoresEnd
CHECK_DEADLOCK FALSE
