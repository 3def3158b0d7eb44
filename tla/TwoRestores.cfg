SPECIFICATION FairSpec
CONSTANTS
    Keep = 2
    Faults = {"step", "undo", "report", "recovery"}
    MaxVersions = 3
    MaxBackups = 4
    MaxRestores = 2
    MaxFaults = 2
    MaxCrashes = 0
INVARIANTS
    TypeOK
    RollbackIsPossible
PROPERTIES
    LaterWorkIsKept
    JournalsTell
    RestoresEnd
CHECK_DEADLOCK FALSE
