SPECIFICATION FairSpec
CONSTANTS
    t1 = t1
    t2 = t2
    h1 = h1
    h2 = h2
    Threads = {t1, t2}
    Processes = {h1, h2}
    Host <- TwoHosts
    Paths = {f}
    Contents = {x}
    Absent = Absent
    Damaged = Damaged
    TxnIds = {a, b, c}
    NoThread = NoThread
    NoTxn = NoTxn
    Operations = {"write", "delete", "import", "restore", "snapshot"}
    Faults = {"crash", "exception", "undo_exception", "late_exception", "torn_cleanup"}
    MaxRevision = 4
    MaxFaults = 2
PROPERTIES
    LockIsReleased
