SPECIFICATION ModeSpec
CONSTANTS
    a = a
    b = b
    c = c
    Nobody = nobody
    Callers = {a, b, c}
    MaxRequests = 5
    MaxAborts = 2
SYMMETRY Anybody
INVARIANTS
    WritesOnlyWhileWritable
PROPERTIES
    LoosenedOnlyByOwner
CHECK_DEADLOCK FALSE
