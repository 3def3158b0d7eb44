SPECIFICATION FairSpec
CONSTANTS
    Faults = {"append", "step", "remove", "undo", "report"}
    Policies = {2, 6}
    DefaultPolicy = 2
    MinProtected = 1
    MaxEvents = 6
    MaxRotations = 2
    MaxAnchors = 1
    MaxFaults = 2
    MaxCrashes = 1
INVARIANTS
    ChainVerifies
    EventsStay
    AnchorsHold
PROPERTIES
    RotationsEnd
CHECK_DEADLOCK FALSE
