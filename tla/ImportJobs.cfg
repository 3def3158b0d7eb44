SPECIFICATION FairSpec
CONSTANTS
    Jobs = {a, b}
    Places = {p, q}
    Staging = Staging
    Nothing = Nothing
    Retained = 1
    Beside = FALSE
    Hasty = FALSE
    Faults = {"step", "history"}
    MaxFaults = 2
    MaxCrashes = 2
INVARIANTS
    ResultsTell
    RowsHaveTheirTree
    UndoErasesItsOwn
PROPERTIES
    JobsEnd
CHECK_DEADLOCK FALSE
