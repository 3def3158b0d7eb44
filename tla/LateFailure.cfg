SPECIFICATION Spec
CONSTANTS
    t1 = t1
    t2 = t2
    h1 = h1
    h2 = h2
    Threads = {t1}
    Processes = {h1}
    Host <- OneHost
    Paths = {f, g}
    Contents = {x, y}
    Absent = Absent
    Damaged = Damaged
    TxnIds = {a, b}
    NoThread = NoThread
    NoTxn = NoTxn
    Operations = {"write"}
    Faults = {"late_exception"}
    MaxRevision = 4
    MaxFaults = 1
SYMMETRY Symmetric
INVARIANTS
    CrashConsistent
