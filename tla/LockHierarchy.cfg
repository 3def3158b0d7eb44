SPECIFICATION FairLocksSpec
CONSTANTS
    t1 = t1
    t2 = t2
    t3 = t3
    h1 = h1
    h2 = h2
    Threads = {t1, t2, t3}
    Processes = {h1, h2}
    Host <- TwoHosts
    NoThread = NoThread
    NoLock = NoLock
    NoRequest = NoRequest
    Requests = {"mutation", "set_access_mode", "delete_present"}
    MaxTakes = 5
    MaxStarts = 2
    MaxDeaths = 1
INVARIANTS
    LocksTypeOK
    Exclusion
    NoCircularWait
PROPERTIES
    WaitsEnd
CHECK_DEADLOCK FALSE
