SPECIFICATION Spec
CONSTANTS
    d1 = d1
    d2 = d2
    w1 = w1
    w2 = w2
    cli = cli
    Owner = owner
    Nobody = nobody
    Deletions = {d1, d2}
    Writers = {w1}
    Commands = {}
    MaxFaults = 2
    MaxCrashes = 0
    MaxCopies = 0
    Gaps = {"reopen", "missing"}
INVARIANTS
    MutationExcludesMove
CHECK_DEADLOCK FALSE
