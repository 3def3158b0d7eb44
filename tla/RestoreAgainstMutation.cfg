SPECIFICATION LocksSpec
CONSTANTS
    t1 = t1
    t2 = t2
    t3 = t3
    h1 = h1
    h2 = h2
    Threads = {t1, t2}
    Processes = {h1}
    Host <- TwoHosts
    NoThread = NoThread
    NoLock = NoLock
    NoRequest = NoRequest
    Requests = {"mutation", "restore"}
    MaxTakes = 4
    MaxStarts = 2
    MaxDeaths = 0
INVARIANTS
    NoCircularWait
CHECK_DEADLOCK FALSE
