---------------------------- MODULE LockHierarchy ----------------------------
(***************************************************************************)
(* The locks of ForgeTrace and the order in which requests nest them       *)
(* (locks.py and the "with" blocks of repository.py, registry.py,          *)
(* registry_restore.py, git_writes.py, git_switch.py, collaboration.py).   *)
(*                                                                         *)
(* Two locks live in the memory of a process; the others (InterProcessRLock)*)
(* pair a reentrant thread lock, which waits for ever, with a file lock    *)
(* across processes, which times out.  A request is described by the deepest*)
(* chains of "with" blocks it enters: it may stop, return or raise anywhere,*)
(* and leaves the blocks innermost first.                                  *)
(*                                                                         *)
(* One repository, one application-data directory.  The lock of the        *)
(* security ledger and those of coordination, boards and releases are left *)
(* out: while one of them is held, at most the ledger's is acquired.       *)
(***************************************************************************)
EXTENDS Naturals, Sequences

CONSTANTS
    Threads,    \* request threads of every process
    Processes,  \* ForgeTrace processes
    Host,       \* the process of each thread
    NoThread,   \* owner of a free lock
    NoLock,     \* no lock is waited for
    NoRequest,  \* the request of a thread that has none, or is unwinding
    Requests,   \* the kinds of request the threads perform
    MaxTakes,   \* bound: lock acquisitions of one request
    MaxStarts,  \* bound: requests in a behaviour
    MaxDeaths   \* bound: crashes in a behaviour

ThreadLocks == {"collaboration", "registry"}
FileLocks   == {"guard", "repository", "git", "switch", "operation"}
Locks       == ThreadLocks \cup FileLocks

\* _deletion_guard makes a new object each time: only its file is shared.
PerCall == {"guard"}

\* Variant: a mode change takes the registry's locks first.
SetAccessModeRegistryFirst ==
  {<<"registry", "operation", "repository", "repository", "operation">>}

SetAccessMode == {<<"repository", "registry", "operation", "repository", "operation">>}

\* The chains of "with" blocks of each kind of request.
Nesting ==
  [ open            |-> {<<"registry", "operation">>, <<"repository">>},
    mutation        |-> {<<"repository", "operation">>,
                         <<"repository", "repository", "operation">>},
    registry_update |-> {<<"registry", "operation">>},
    set_access_mode |-> SetAccessMode,
    discard         |-> {<<"repository", "operation">>,
                         <<"repository", "registry", "operation">>},
    git_write       |-> {<<"repository", "git", "operation">>},
    switch_plan     |-> {<<"repository", "git", "switch", "operation">>},
    merge           |-> {<<"collaboration", "registry", "operation">>,
                         <<"collaboration", "repository", "repository", "operation">>},
    delete_present  |-> {<<"guard", "repository", "operation">>,
                         <<"guard", "repository", "registry", "operation">>,
                         <<"guard", "registry", "operation">>},
    delete_missing  |-> {<<"guard", "operation", "registry", "operation">>,
                         <<"guard", "registry", "operation">>},
    restore         |-> {<<"registry", "operation", "registry", "operation">>,
                         <<"registry", "operation", "repository", "repository">>} ]

ASSUME LockParameters ==
  /\ Host \in [Threads -> Processes]
  /\ Requests \subseteq DOMAIN Nesting
  /\ MaxTakes \in Nat /\ MaxStarts \in Nat /\ MaxDeaths \in Nat

ASSUME Sentinels ==
  /\ NoThread \notin Threads
  /\ NoLock \notin Locks
  /\ NoRequest \notin DOMAIN Nesting

VARIABLES
    owner,      \* owner of each thread lock, in each process
    fileOwner,  \* owner of each file lock
    request,    \* what each thread is doing
    held,       \* the locks of the "with" blocks each thread is in, outermost first
    want,       \* the lock each thread is acquiring
    inside,     \* the threads that own the thread lock they want, and wait for its file
    takes,      \* acquisitions of the current request
    starts,     \* requests so far
    deaths      \* crashes so far

lockVars == <<owner, fileOwner, request, held, want, inside, takes, starts, deaths>>

-----------------------------------------------------------------------------
(* State functions *)

Held(p) == {held[p][i] : i \in DOMAIN held[p]}

ThreadOwner(p, l) == owner[Host[p]][l]

SetOwner(p, l, q) == owner' = [owner EXCEPT ![Host[p]][l] = q]

\* The chains that go one block deeper than where the thread is.
MayWant(p, l) ==
  \E chain \in Nesting[request[p]] :
    /\ Len(held[p]) + 1 \in DOMAIN chain
    /\ \A i \in DOMAIN held[p] : held[p][i] = chain[i]
    /\ l = chain[Len(held[p]) + 1]

\* RLock.acquire would wait: somebody else in the process has the lock.
Blocked(p) ==
  /\ want[p] \in Locks \ PerCall
  /\ p \notin inside
  /\ ThreadOwner(p, want[p]) \notin {NoThread, p}

-----------------------------------------------------------------------------
LocksInit ==
  /\ owner = [h \in Processes |-> [l \in Locks |-> NoThread]]
  /\ fileOwner = [l \in FileLocks |-> NoThread]
  /\ request = [p \in Threads |-> NoRequest]
  /\ held = [p \in Threads |-> << >>]
  /\ want = [p \in Threads |-> NoLock]
  /\ inside = {}
  /\ takes = [p \in Threads |-> 0]
  /\ starts = 0
  /\ deaths = 0

Begin(p, r) ==
  /\ request[p] = NoRequest /\ held[p] = << >>
  /\ starts < MaxStarts
  /\ request' = [request EXCEPT ![p] = r]
  /\ takes' = [takes EXCEPT ![p] = 0]
  /\ starts' = starts + 1
  /\ UNCHANGED <<owner, fileOwner, held, want, inside, deaths>>

\* The thread reaches a "with".
Want(p, l) ==
  /\ request[p] # NoRequest /\ want[p] = NoLock
  /\ takes[p] < MaxTakes
  /\ MayWant(p, l)
  /\ want' = [want EXCEPT ![p] = l]
  /\ takes' = [takes EXCEPT ![p] = @ + 1]
  /\ UNCHANGED <<owner, fileOwner, request, held, inside, starts, deaths>>

Got(p) ==
  /\ held' = [held EXCEPT ![p] = Append(@, want[p])]
  /\ want' = [want EXCEPT ![p] = NoLock]

\* self._thread_lock.acquire(): a thread that has the lock already only counts
\* deeper; the outermost acquisition of a file-backed lock goes on to the file.
TakeThreadLock(p) ==
  /\ want[p] # NoLock /\ p \notin inside
  /\ ~Blocked(p)
  /\ IF want[p] \in PerCall THEN UNCHANGED owner ELSE SetOwner(p, want[p], p)
  /\ IF want[p] \in FileLocks \ Held(p)
       THEN inside' = inside \cup {p} /\ UNCHANGED <<held, want>>
       ELSE Got(p) /\ UNCHANGED inside
  /\ UNCHANGED <<fileOwner, request, takes, starts, deaths>>

TakeFileLock(p) ==
  /\ p \in inside
  /\ fileOwner[want[p]] = NoThread
  /\ fileOwner' = [fileOwner EXCEPT ![want[p]] = p]
  /\ inside' = inside \ {p}
  /\ Got(p)
  /\ UNCHANGED <<owner, request, takes, starts, deaths>>

\* Variant: the exception handler forgets the thread lock.
TimeOutHoldingThreadLock(p) ==
  /\ p \in inside
  /\ fileOwner[want[p]] # NoThread
  /\ inside' = inside \ {p}
  /\ want' = [want EXCEPT ![p] = NoLock]
  /\ request' = [request EXCEPT ![p] = NoRequest]
  /\ UNCHANGED <<owner, fileOwner, held, takes, starts, deaths>>

\* LockUnavailable: the thread lock is given back and the request unwinds.
TimeOut(p) ==
  /\ p \in inside
  /\ fileOwner[want[p]] # NoThread
  /\ IF want[p] \in PerCall THEN UNCHANGED owner ELSE SetOwner(p, want[p], NoThread)
  /\ inside' = inside \ {p}
  /\ want' = [want EXCEPT ![p] = NoLock]
  /\ request' = [request EXCEPT ![p] = NoRequest]
  /\ UNCHANGED <<fileOwner, held, takes, starts, deaths>>

\* Variant: the file is unlocked by every release.
ReleaseFileAlways(p) ==
  /\ want[p] = NoLock /\ held[p] # << >>
  /\ LET l    == held[p][Len(held[p])]
         rest == SubSeq(held[p], 1, Len(held[p]) - 1)
     IN  /\ held' = [held EXCEPT ![p] = rest]
         /\ IF \E i \in DOMAIN rest : rest[i] = l THEN UNCHANGED owner ELSE SetOwner(p, l, NoThread)
         /\ IF l \in FileLocks THEN fileOwner' = [fileOwner EXCEPT ![l] = NoThread]
                               ELSE UNCHANGED fileOwner
  /\ UNCHANGED <<request, want, inside, takes, starts, deaths>>

\* The end of a "with" block: the outermost release frees file and thread lock.
Release(p) ==
  /\ want[p] = NoLock /\ held[p] # << >>
  /\ LET l    == held[p][Len(held[p])]
         rest == SubSeq(held[p], 1, Len(held[p]) - 1)
     IN  /\ held' = [held EXCEPT ![p] = rest]
         /\ IF \E i \in DOMAIN rest : rest[i] = l
              THEN UNCHANGED <<owner, fileOwner>>
              ELSE /\ IF l \in PerCall THEN UNCHANGED owner ELSE SetOwner(p, l, NoThread)
                   /\ IF l \in FileLocks THEN fileOwner' = [fileOwner EXCEPT ![l] = NoThread]
                                         ELSE UNCHANGED fileOwner
  /\ UNCHANGED <<request, want, inside, takes, starts, deaths>>

\* The request returns, or raises: the blocks it is in are left one by one.
Return(p) ==
  /\ request[p] # NoRequest /\ want[p] = NoLock
  /\ request' = [request EXCEPT ![p] = NoRequest]
  /\ UNCHANGED <<owner, fileOwner, held, want, inside, takes, starts, deaths>>

\* A process dies; the system frees its file locks.
Die(h) ==
  /\ deaths < MaxDeaths
  /\ \E p \in Threads : Host[p] = h /\ request[p] # NoRequest
  /\ LET dead == {p \in Threads : Host[p] = h}
     IN  /\ fileOwner' = [l \in FileLocks |->
                            IF fileOwner[l] \in dead THEN NoThread ELSE fileOwner[l]]
         /\ request' = [p \in Threads |-> IF p \in dead THEN NoRequest ELSE request[p]]
         /\ held' = [p \in Threads |-> IF p \in dead THEN << >> ELSE held[p]]
         /\ want' = [p \in Threads |-> IF p \in dead THEN NoLock ELSE want[p]]
         /\ inside' = inside \ dead
  /\ owner' = [owner EXCEPT ![h] = [l \in Locks |-> NoThread]]
  /\ deaths' = deaths + 1
  /\ UNCHANGED <<takes, starts>>

-----------------------------------------------------------------------------
Work(p) ==
  \/ \E l \in Locks : Want(p, l)
  \/ TakeThreadLock(p) \/ TakeFileLock(p) \/ TimeOut(p) \/ Release(p) \/ Return(p)

LocksNext ==
  \/ \E p \in Threads : (\E r \in Requests : Begin(p, r)) \/ Work(p)
  \/ \E h \in Processes : Die(h)

LocksSpec == LocksInit /\ [][LocksNext]_lockVars

\* Threads run, and a file lock that stays taken times out.
FairLocksSpec == LocksSpec /\ \A p \in Threads : WF_lockVars(Work(p))

-----------------------------------------------------------------------------
(* Properties *)

\* The thread lock's owner is the thread that is in a block of the lock, or waits
\* for its file; the file's owner is the thread that is in a block.
OwnersAgree ==
  \A p \in Threads :
    /\ \A l \in Locks \ PerCall :
         ThreadOwner(p, l) = p <=> l \in Held(p) \/ (p \in inside /\ l = want[p])
    /\ \A l \in FileLocks : fileOwner[l] = p <=> l \in Held(p)

\* Every variable holds a value of its kind, and the locks know their owners.
LocksTypeOK ==
  /\ owner \in [Processes -> [Locks -> Threads \cup {NoThread}]]
  /\ fileOwner \in [FileLocks -> Threads \cup {NoThread}]
  /\ request \in [Threads -> Requests \cup {NoRequest}]
  /\ held \in [Threads -> Seq(Locks)]
  /\ want \in [Threads -> Locks \cup {NoLock}]
  /\ inside \in SUBSET Threads
  /\ takes \in [Threads -> Nat]
  /\ starts \in Nat /\ deaths \in Nat
  /\ OwnersAgree

\* Two threads are never both inside a block of the same lock: of a file-backed
\* lock in any processes, of a thread lock in one.
Exclusion ==
  \A p, q \in Threads : p # q =>
    \A l \in Held(p) \cap Held(q) : l \in ThreadLocks /\ Host[p] # Host[q]

\* No ring of threads in which each waits, without a time-out, for a lock of the
\* next: such threads wait for ever ("repository -> registry everywhere").
NoCircularWait ==
  \A S \in (SUBSET Threads) \ {{}} :
    ~ \A p \in S : Blocked(p) /\ ThreadOwner(p, want[p]) \in S

\* Whoever starts to acquire a lock gets it or gives up, and whoever is in a
\* block leaves it: nobody waits for ever.
WaitsEnd == \A p \in Threads : want[p] # NoLock ~> want[p] = NoLock
=============================================================================
