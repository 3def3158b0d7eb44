SPECIFICATION Spec
CONSTANTS
    d1 = d1
    d2 = d2
    w1 = w1
    w2 = w2
    cli = cli
    Owner = owner
    Nobody = nobody
    Deletions = {d1}
    Writers = {}
    Commands = {cli}
    MaxFaults = 1
    MaxCrashes = 0
    MaxCopies = 0
    Gaps = {}
INVARIANTS
    DeletedStaysDeleted
CHECK_DEADLOCK FALSE
