SPECIFICATION FairSpec
CONSTANTS
    Faults = {"capture", "apply", "report", "undo"}
    MaxTxns = 2
    MaxVersions = 2
    MaxNative = 1
    MaxFaults = 2
    MaxCrashes = 1
INVARIANTS
    ReceiptsTell
PROPERTIES
    CommittedWritesStand
    JournalsEnd
CHECK_DEADLOCK FALSE
