SPECIFICATION Spec
CONSTANTS
    t1 = t1
    t2 = t2
    h1 = h1
    h2 = h2
    Threads = {t1, t2}
    Processes = {h1, h2}
    Host <- TwoHosts
    Paths = {f, g}
    Contents = {x, y}
    Absent = Absent
    Damaged = Damaged
    TxnIds = {a, b, c}
    NoThread = NoThread
    NoTxn = NoTxn
    Operations = {"write", "rename", "delete", "merge", "import", "snapshot"}
    Faults = {"exception"}
    MaxRevision = 4
    MaxFaults = 2
SYMMETRY Symmetric
INVARIANTS
    CrashConsistent
    MutationsStartFromSavedTree
PROPERTIES
    SnapshotsRecordSavedTrees
