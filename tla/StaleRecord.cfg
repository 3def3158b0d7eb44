SPECIFICATION ModeSpec
CONSTANTS
    a = a
    b = b
    c = c
    Nobody = nobody
    Callers = {a, b}
    MaxRequests = 3
    MaxAborts = 0
SYMMETRY Anybody
PROPERTIES
    WithdrawnOnlyByOwner
CHECK_DEADLOCK FALSE
