SPECIFICATION FairSpec
CONSTANTS
    d1 = d1
    d2 = d2
    w1 = w1
    w2 = w2
    cli = cli
    Owner = owner
    Nobody = nobody
    Deletions = {d1, d2}
    Writers = {w1}
    Commands = {}
    MaxFaults = 2
    MaxCrashes = 2
    MaxCopies = 1
    Gaps = {}
INVARIANTS
    UndeletedBytesAreKept
    DeletedStaysDeleted
    NoOrphanStaging
    MutationExcludesMove
PROPERTIES
    BytesReturnToTheirRow
    IntentsEnd
CHECK_DEADLOCK FALSE
