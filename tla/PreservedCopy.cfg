SPECIFICATION Spec
CONSTANTS
    d1 = d1
    d2 = d2
    w1 = w1
    w2 = w2
    cli = cli
    Owner = owner
    Nobody = nobody
    Deletions = {d1}
    Writers = {}
    Commands = {}
    MaxFaults = 1
    MaxCrashes = 1
    MaxCopies = 1
    Gaps = {"copy"}
PROPERTIES
    BytesReturnToTheirRow
CHECK_DEADLOCK FALSE
