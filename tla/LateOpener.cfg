SPECIFICATION Spec
CONSTANTS
    d1 = d1
    d2 = d2
    w1 = w1
    w2 = w2
    cli = cli
    Owner = owner
    Nobody = nobody
    Deletions = {d1}
    Writers = {w1}
    Commands = {}
    MaxFaults = 1
    MaxCrashes = 0
    MaxCopies = 0
    Gaps = {"reopen"}
INVARIANTS
    UndeletedBytesAreKept
CHECK_DEADLOCK FALSE
