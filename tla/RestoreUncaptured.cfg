SPECIFICATION Spec
CONSTANTS
    t1 = t1
    t2 = t2
    h1 = h1
    h2 = h2
    Threads = {t1}
    Processes = {h1}
    Host <- OneHost
    Paths = {f, g}
    Contents = {x, y}
    Absent = Absent
    Damaged = Damaged
    TxnIds = {a}
    NoThread = NoThread
    NoTxn = NoTxn
    Operations = {"write", "delete", "restore", "snapshot"}
    Faults = {}
    MaxRevision = 6
    MaxFaults = 0
SYMMETRY Symmetric
PROPERTIES
    CapturesBeforeChanging
