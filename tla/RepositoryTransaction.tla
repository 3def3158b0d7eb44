------------------------ MODULE RepositoryTransaction ------------------------
(***************************************************************************)
(* One registered repository: its workspace, the metadata in state.json,   *)
(* the rollback journals under .forgetrace/transactions and the repository *)
(* lock (repository.py, transactions.py, importing.py).                    *)
(*                                                                         *)
(* A request first OPENS the repository, which recovers the journals a     *)
(* crash left behind while it holds the lock, lets go of the lock, and     *)
(* then takes it again for its mutation.  A mutation captures the paths it *)
(* is about to change, changes them, saves the metadata (one atomic        *)
(* replacement that adds one to the revision), marks the journal committed *)
(* and removes it.  Whatever fails in between is rolled back; whatever     *)
(* dies in between is left for the next open.                              *)
(*                                                                         *)
(* A folder import is planned before it takes the lock: what it will       *)
(* overwrite is decided on the workspace of that moment.                   *)
(*                                                                         *)
(* Abstractions.  A path is a place that operations take as a whole, a     *)
(* file or a tree, apart from the others, its content a model value;       *)
(* Damaged is a tree that a copy or a removal left half done.  Only the    *)
(* lock's owner has work in flight, so the local variables of that work    *)
(* are one record, op.  A wait for the lock that times out is a request    *)
(* that never left its state.                                              *)
(***************************************************************************)
EXTENDS Naturals, FiniteSets, Sequences

CONSTANTS
    Threads,      \* request threads of every ForgeTrace process
    Processes,    \* ForgeTrace processes sharing the workspace
    Host,         \* the process of each thread
    Paths,        \* places of the workspace, apart from one another
    Contents,     \* what a file or a tree can hold
    Absent,       \* the value of a path that does not exist
    Damaged,      \* the value of a half copied or half removed tree
    TxnIds,       \* names of transaction directories
    NoThread,     \* owner of the free lock
    NoTxn,        \* no transaction directory
    Operations,   \* the operations the requests perform
    Faults,       \* the kinds of fault that strike
    MaxRevision,  \* bound: revisions of state.json
    MaxFaults     \* bound: faults in a behaviour

AllOperations == {"write", "rename", "delete", "merge", "import", "restore", "snapshot"}

AllFaults ==
  { "crash",           \* a process dies between two steps
    "exception",       \* a step of a mutation raises before the metadata is saved
    "undo_exception",  \* putting a captured path back raises
    "late_exception",  \* a step after the save raises
    "torn_cleanup" }   \* a removal of a transaction directory stops halfway

ASSUME Parameters ==
  /\ Host \in [Threads -> Processes]
  /\ Operations \subseteq AllOperations
  /\ Faults \subseteq AllFaults
  /\ MaxRevision \in Nat
  /\ MaxFaults \in Nat

ASSUME Sentinels ==
  /\ Absent \notin Contents
  /\ Damaged \notin Contents \cup {Absent}
  /\ NoThread \notin Threads
  /\ NoTxn \notin TxnIds

Values == Contents \cup {Absent, Damaged}
Trees  == [Paths -> Values]

VARIABLES
    workspace,  \* what each path holds on disk
    image,      \* what each path holds according to the last saved metadata
    commits,    \* state["commits"]: the tree each snapshot's manifest describes
    revision,   \* state["revision"] on disk
    roots,      \* transaction directories on disk
    lockOwner,  \* owner of repository.lock
    pc,         \* where each request stands
    op,         \* the work of the lock's owner
    imports,    \* the folder import each request has planned
    faults      \* faults so far

vars == <<workspace, image, commits, revision, roots, lockOwner, pc, op, imports, faults>>

Journals == {"none", "missing", "pending", "committed", "rolled_back"}
Labels   == {"idle", "recovering", "opened", "locked", "protected", "working",
             "saved", "committed", "returning", "rollingBack", "rolledBack"}

EmptyTree == [f \in Paths |-> Absent]

\* A directory that is not there.  Unset backups read Absent, as a missing file.
NoRoot == [journal |-> "none", before |-> 0, captured |-> {}, backups |-> EmptyTree]

\* A directory whose journal was never written or is gone.
UnreadableRoot == [journal |-> "missing", before |-> 0, captured |-> {}, backups |-> EmptyTree]

NoOp == [kind |-> "none", loaded |-> 0, root |-> NoTxn, captured |-> {}, existed |-> {},
         toCapture |-> {}, toClear |-> {}, toPut |-> {}, target |-> EmptyTree,
         toUndo |-> {}, toVisit |-> {}]

\* A request that is no folder import, or that has not scanned its source yet.
NoImport == [paths |-> {}, overwrites |-> FALSE]

Roots == [journal : Journals, before : Nat, captured : SUBSET Paths, backups : Trees]

Ops == [kind : Operations \cup {"none"}, loaded : Nat, root : TxnIds \cup {NoTxn},
        captured : SUBSET Paths, existed : SUBSET Paths, toCapture : SUBSET Paths,
        toClear : SUBSET Paths, toPut : SUBSET Paths, target : Trees,
        toUndo : SUBSET Paths, toVisit : SUBSET TxnIds]

Imports == [paths : SUBSET Paths, overwrites : BOOLEAN]

-----------------------------------------------------------------------------
(* State functions *)

Existing(tree) == {f \in Paths : tree[f] # Absent}

\* ensure_snapshot, _append_commit_to_state: the manifest differs from the last one.
Dirty == ~(commits # << >> /\ commits[Len(commits)] = workspace)

\* Variant: recovery trusts the journal's status and not the revision.
SupersededByStatus(r) == r.journal = "committed"

\* recover_transactions: what a journal is worth to the next open.
Superseded(r) == r.journal = "committed" \/ revision > r.before
Live(t) == roots[t].journal \in {"pending", "rolled_back"} /\ ~Superseded(roots[t])

CanFault(kind) == kind \in Faults /\ faults < MaxFaults

Holds(p, label) == lockOwner = p /\ pc[p] = label

Goto(p, label) == pc' = [pc EXCEPT ![p] = label]

\* Variant: an early return forgets the lock.
LeaveLockHeld(p, label) ==
  /\ Goto(p, label)
  /\ op' = NoOp
  /\ UNCHANGED <<lockOwner, imports>>

\* Leaving the "with self.lock" block of an open (label "opened") or of a request.
LeaveLock(p, label) ==
  /\ Goto(p, label)
  /\ lockOwner' = NoThread
  /\ op' = NoOp
  /\ imports' = [imports EXCEPT ![p] = NoImport]

\* shutil.rmtree(root, ignore_errors=True).  It may stop halfway, with the
\* journal gone or with the journal there and backups gone.
Remove(t) ==
  \/ /\ roots' = [roots EXCEPT ![t] = NoRoot]
     /\ UNCHANGED faults
  \/ /\ CanFault("torn_cleanup")
     /\ \/ roots' = [roots EXCEPT ![t] = UnreadableRoot]
        \/ \E gone \in SUBSET roots[t].captured :
             roots' = [roots EXCEPT ![t].backups =
                         [f \in Paths |-> IF f \in gone THEN Absent ELSE @[f]]]
     /\ faults' = faults + 1

-----------------------------------------------------------------------------
Init ==
  /\ workspace \in [Paths -> Contents \cup {Absent}]
  /\ image = workspace
  /\ commits = << >>
  /\ revision = 1
  /\ roots = [t \in TxnIds |-> NoRoot]
  /\ lockOwner = NoThread
  /\ pc = [p \in Threads |-> "idle"]
  /\ op = NoOp
  /\ imports = [p \in Threads |-> NoImport]
  /\ faults = 0

-----------------------------------------------------------------------------
(* Opening the repository: recover_transactions under the lock *)

Open(p) ==
  /\ pc[p] = "idle" /\ lockOwner = NoThread
  /\ lockOwner' = p
  /\ Goto(p, "recovering")
  /\ op' = [NoOp EXCEPT !.toVisit = {t \in TxnIds : roots[t].journal # "none"}]
  /\ UNCHANGED <<workspace, image, commits, revision, roots, faults, imports>>

Visiting(p, t) == Holds(p, "recovering") /\ op.root = NoTxn /\ t \in op.toVisit

RetainUnreadable(p, t) ==
  /\ Visiting(p, t)
  /\ roots[t].journal = "missing"
  /\ op' = [op EXCEPT !.toVisit = @ \ {t}]
  /\ UNCHANGED <<workspace, image, commits, revision, roots, lockOwner, pc, faults, imports>>

CleanCommitted(p, t) ==
  /\ Visiting(p, t)
  /\ roots[t].journal # "missing"
  /\ Superseded(roots[t])
  /\ Remove(t)
  /\ op' = [op EXCEPT !.toVisit = @ \ {t}]
  /\ UNCHANGED <<workspace, image, commits, revision, lockOwner, pc, imports>>

\* Neither committed nor overtaken: the journal's records are undone, whatever
\* else its status says.
StartUndo(p, t) ==
  /\ Visiting(p, t)
  /\ Live(t)
  /\ op' = [op EXCEPT !.root = t, !.toUndo = roots[t].captured, !.toVisit = @ \ {t}]
  /\ UNCHANGED <<workspace, image, commits, revision, roots, lockOwner, pc, faults, imports>>

FinishUndo(p) ==
  /\ Holds(p, "recovering")
  /\ op.root # NoTxn /\ op.toUndo = {}
  /\ Remove(op.root)
  /\ op' = [op EXCEPT !.root = NoTxn]
  /\ UNCHANGED <<workspace, image, commits, revision, lockOwner, pc, imports>>

Opened(p) ==
  /\ Holds(p, "recovering")
  /\ op.root = NoTxn /\ op.toVisit = {}
  /\ LeaveLock(p, "opened")
  /\ UNCHANGED <<workspace, image, commits, revision, roots, faults>>

\* A request that only reads, whose wait for the lock timed out, or whose import
\* is refused or fails before it asks for the lock.
Close(p) ==
  /\ pc[p] = "opened"
  /\ Goto(p, "idle")
  /\ imports' = [imports EXCEPT ![p] = NoImport]
  /\ UNCHANGED <<workspace, image, commits, revision, roots, lockOwner, op, faults>>

-----------------------------------------------------------------------------
(* The start of a mutation *)

\* build_folder_import_plan looks for the destination of one file after the other,
\* without the lock, at a workspace that somebody else may be changing.  Only the
\* policy "overwrite" keeps a destination that exists: the others leave it out,
\* give it a free name, or refuse the import.
PlanImport(p, f) ==
  /\ "import" \in Operations
  /\ pc[p] = "opened"
  /\ f \notin imports[p].paths
  /\ imports' = [imports EXCEPT ![p].paths = @ \cup {f},
                                ![p].overwrites = @ \/ f \in Existing(workspace)]
  /\ UNCHANGED <<workspace, image, commits, revision, roots, lockOwner, pc, op, faults>>

Importing(p) == imports[p].paths # {}

\* mutation() and load_state(); two saves at most follow.
Lock(p) ==
  /\ pc[p] = "opened" /\ lockOwner = NoThread
  /\ revision + 2 <= MaxRevision
  /\ lockOwner' = p
  /\ Goto(p, "locked")
  /\ op' = [NoOp EXCEPT !.loaded = revision]
  /\ UNCHANGED <<workspace, image, commits, revision, roots, faults, imports>>

\* Read-only repository, missing source, existing destination, merge race.
Refuse(p) ==
  /\ Holds(p, "locked") \/ Holds(p, "protected")
  /\ LeaveLock(p, "idle")
  /\ UNCHANGED <<workspace, image, commits, revision, roots, faults>>

\* create_commit: the scan, the appended commit and the save, no transaction.
AppendSnapshot ==
  /\ Dirty
  /\ commits' = Append(commits, workspace)
  /\ revision' = revision + 1

Snapshot(p) ==
  /\ "snapshot" \in Operations
  /\ Holds(p, "locked") /\ ~Importing(p)
  /\ AppendSnapshot
  /\ LeaveLock(p, "idle")
  /\ UNCHANGED <<workspace, image, roots, faults>>

\* Variant: the merge trusts that the owner took a snapshot.
SafetySnapshotSkipped(p) ==
  /\ Holds(p, "locked")
  /\ Goto(p, "protected")
  /\ UNCHANGED <<workspace, image, commits, revision, roots, lockOwner, op, faults, imports>>

\* ensure_snapshot before a merge, or an import whose plan says that it
\* overwrites, and the state loaded again after it.
SafetySnapshot(p) ==
  /\ Holds(p, "locked")
  /\ IF Importing(p) THEN imports[p].overwrites ELSE "merge" \in Operations
  /\ AppendSnapshot \/ (~Dirty /\ UNCHANGED <<commits, revision>>)
  /\ Goto(p, "protected")
  /\ op' = [op EXCEPT !.loaded = revision']
  /\ UNCHANGED <<workspace, image, roots, lockOwner, faults, imports>>

\* FilesystemTransaction(...) and the plan of the mutation it protects:
\* what is captured, what is removed first, what is written, and the tree
\* the metadata will describe.
Begin(p, plan) ==
  /\ plan.kind \in Operations
  /\ plan.kind = "import" <=> Importing(p)
  /\ \E t \in TxnIds :
       /\ roots[t].journal = "none"
       /\ roots' = [roots EXCEPT ![t] =
                      [journal |-> "pending", before |-> op.loaded, captured |-> {},
                       backups |-> EmptyTree]]
       /\ op' = [op EXCEPT !.kind = plan.kind, !.root = t, !.toCapture = plan.toCapture,
                           !.toClear = plan.toClear, !.toPut = plan.toPut,
                           !.target = plan.target]
  /\ Goto(p, "working")
  /\ UNCHANGED <<workspace, image, commits, revision, lockOwner, faults, imports>>

BeginWrite(p) ==
  /\ Holds(p, "locked")
  /\ \E f \in Paths, c \in Contents :
       Begin(p, [kind |-> "write", toCapture |-> {f}, toClear |-> {}, toPut |-> {f},
                 target |-> [workspace EXCEPT ![f] = c]])

BeginRename(p) ==
  /\ Holds(p, "locked")
  /\ \E f \in Existing(workspace), g \in Paths \ Existing(workspace) :
       Begin(p, [kind |-> "rename", toCapture |-> {f, g}, toClear |-> {}, toPut |-> {f, g},
                 target |-> [workspace EXCEPT ![f] = Absent, ![g] = workspace[f]]])

BeginDelete(p) ==
  /\ Holds(p, "locked")
  /\ \E f \in Existing(workspace) :
       Begin(p, [kind |-> "delete", toCapture |-> {f}, toClear |-> {f}, toPut |-> {},
                 target |-> [workspace EXCEPT ![f] = Absent]])

BeginMerge(p) ==
  /\ Holds(p, "protected")
  /\ \E S \in (SUBSET Paths) \ {{}} : \E new \in [S -> Contents \cup {Absent}] :
       Begin(p, [kind |-> "merge", toCapture |-> S, toClear |-> {}, toPut |-> S,
                 target |-> [f \in Paths |-> IF f \in S THEN new[f] ELSE workspace[f]]])

\* apply_folder_import: the planned destinations are replaced, whatever they hold
\* by now; that nothing was there is not looked at again.
BeginImport(p) ==
  /\ Holds(p, IF imports[p].overwrites THEN "protected" ELSE "locked")
  /\ \E new \in [imports[p].paths -> Contents] :
       Begin(p, [kind |-> "import", toCapture |-> imports[p].paths, toClear |-> {},
                 toPut |-> imports[p].paths,
                 target |-> [f \in Paths |-> IF f \in imports[p].paths THEN new[f]
                                                                   ELSE workspace[f]]])

BeginRestore(p) ==
  /\ Holds(p, "locked")
  /\ \E i \in DOMAIN commits :
       Begin(p, [kind |-> "restore",
                 toCapture |-> Existing(workspace), toClear |-> Existing(workspace),
                 toPut |-> Existing(commits[i]), target |-> commits[i]])

\* The constructor runs outside the try block: what stops between mkdir and
\* the first journal leaves a directory without one.
BeginFails(p) ==
  /\ Holds(p, "locked") \/ Holds(p, "protected")
  /\ CanFault("exception")
  /\ \E t \in TxnIds :
       /\ roots[t].journal = "none"
       /\ roots' = [roots EXCEPT ![t] = UnreadableRoot]
  /\ LeaveLock(p, "idle")
  /\ faults' = faults + 1
  /\ UNCHANGED <<workspace, image, commits, revision>>

-----------------------------------------------------------------------------
(* The body of a mutation *)

\* capture(): the backup first, then the journal that names it.  An import
\* and a restore change each captured path before they capture the next.
Capture(p, f) ==
  /\ Holds(p, "working")
  /\ f \in op.toCapture
  /\ op.captured \cap op.toClear = {}
  /\ op.kind = "import" => op.captured \cap op.toPut = {}
  /\ roots' = [roots EXCEPT ![op.root].captured = @ \cup {f},
                            ![op.root].backups[f] = workspace[f]]
  /\ op' = [op EXCEPT !.toCapture = @ \ {f}, !.captured = @ \cup {f},
                      !.existed = IF workspace[f] = Absent THEN @ ELSE @ \cup {f}]
  /\ UNCHANGED <<workspace, image, commits, revision, lockOwner, pc, faults, imports>>

Clear(p, f) ==
  /\ Holds(p, "working")
  /\ f \in op.toClear \cap op.captured
  /\ workspace' = [workspace EXCEPT ![f] = Absent]
  /\ op' = [op EXCEPT !.toClear = @ \ {f}]
  /\ UNCHANGED <<image, commits, revision, roots, lockOwner, pc, faults, imports>>

\* Variant: a path is written as soon as it is known.
MayPutEarly(f) == f \in op.toPut

\* A restore copies what the snapshot holds, captured or not.
MayPut(f) ==
  /\ f \in op.toPut
  /\ IF op.kind = "import" THEN f \in op.captured
                           ELSE op.toCapture = {} /\ op.toClear = {}

Put(p, f) ==
  /\ Holds(p, "working")
  /\ op.kind # "rename"
  /\ MayPut(f)
  /\ workspace' = [workspace EXCEPT ![f] = op.target[f]]
  /\ op' = [op EXCEPT !.toPut = @ \ {f}]
  /\ UNCHANGED <<image, commits, revision, roots, lockOwner, pc, faults, imports>>

\* path.rename: both names at once.
Move(p) ==
  /\ Holds(p, "working")
  /\ op.kind = "rename"
  /\ op.toPut # {} /\ op.toCapture = {}
  /\ workspace' = op.target
  /\ op' = [op EXCEPT !.toPut = {}]
  /\ UNCHANGED <<image, commits, revision, roots, lockOwner, pc, faults, imports>>

\* save_state: the revision check and the atomic replacement of state.json.
Save(p) ==
  /\ Holds(p, "working")
  /\ op.toCapture = {} /\ op.toClear = {} /\ op.toPut = {}
  /\ op.loaded = revision
  /\ revision' = revision + 1
  /\ image' = op.target
  /\ commits' = IF op.kind = "merge" THEN Append(commits, workspace) ELSE commits
  /\ Goto(p, "saved")
  /\ UNCHANGED <<workspace, roots, lockOwner, op, faults, imports>>

Commit(p) ==
  /\ Holds(p, "saved")
  /\ roots' = [roots EXCEPT ![op.root].journal = "committed"]
  /\ Goto(p, "committed")
  /\ UNCHANGED <<workspace, image, commits, revision, lockOwner, op, faults, imports>>

Cleanup(p) ==
  /\ Holds(p, "committed")
  /\ Remove(op.root)
  /\ Goto(p, "returning")
  /\ UNCHANGED <<workspace, image, commits, revision, lockOwner, op, imports>>

Return(p) ==
  /\ Holds(p, "returning")
  /\ LeaveLock(p, "idle")
  /\ UNCHANGED <<workspace, image, commits, revision, roots, faults>>

-----------------------------------------------------------------------------
(* Failures, rollback and crashes *)

\* An exception inside the try block: before the save, in commit() after it,
\* or while the result is read back with the directory already removed.
Fail(p) ==
  /\ \/ Holds(p, "working") /\ CanFault("exception")
     \/ (Holds(p, "saved") \/ Holds(p, "returning")) /\ CanFault("late_exception")
  /\ Goto(p, "rollingBack")
  /\ op' = [op EXCEPT !.toUndo = op.captured]
  /\ faults' = faults + 1
  /\ UNCHANGED <<workspace, image, commits, revision, roots, lockOwner, imports>>

\* rollback() asks for the backup of every path that existed; recovery looks
\* whether it is there.
BackupMissing(f) == f \in op.existed /\ roots[op.root].backups[f] = Absent

\* One record undone: the destination is removed and the backup copied back.
UndoRecord(p, f) ==
  /\ Holds(p, "recovering") \/ (Holds(p, "rollingBack") /\ ~BackupMissing(f))
  /\ f \in op.toUndo
  /\ workspace' = [workspace EXCEPT ![f] = roots[op.root].backups[f]]
  /\ op' = [op EXCEPT !.toUndo = @ \ {f}]
  /\ UNCHANGED <<image, commits, revision, roots, lockOwner, pc, faults, imports>>

MarkRolledBack(p) ==
  /\ Holds(p, "rollingBack")
  /\ op.toUndo = {}
  /\ roots[op.root].journal # "none"
  /\ roots' = [roots EXCEPT ![op.root].journal = "rolled_back",
                            ![op.root].captured = op.captured]
  /\ Goto(p, "rolledBack")
  /\ UNCHANGED <<workspace, image, commits, revision, lockOwner, op, faults, imports>>

FinishRollback(p) ==
  /\ Holds(p, "rolledBack")
  /\ Remove(op.root)
  /\ LeaveLock(p, "idle")
  /\ UNCHANGED <<workspace, image, commits, revision>>

\* rollback() after the directory went: it removes a destination and raises for
\* want of its backup, or raises for want of a place for its journal.
RollbackWithoutRoot(p) ==
  /\ Holds(p, "rollingBack")
  /\ \/ \E f \in op.toUndo :
          /\ BackupMissing(f)
          /\ workspace' = [workspace EXCEPT ![f] = Absent]
     \/ /\ op.toUndo = {}
        /\ roots[op.root].journal = "none"
        /\ UNCHANGED workspace
  /\ LeaveLock(p, "idle")
  /\ UNCHANGED <<image, commits, revision, roots, faults>>

UndoFails(p) ==
  /\ \/ Holds(p, "recovering") /\ op.toUndo # {}
     \/ Holds(p, "rollingBack")
  /\ CanFault("undo_exception")
  /\ LeaveLock(p, "idle")
  /\ faults' = faults + 1
  /\ UNCHANGED <<workspace, image, commits, revision, roots>>

\* A recursive removal or copy of a tree is under way.  Files are replaced
\* atomically, so only these three leave a path half done.
Tear(p, f) ==
  /\ \/ Holds(p, "working") /\ f \in op.toClear \cap op.captured
     \/ Holds(p, "working") /\ op.kind = "restore" /\ MayPut(f)
     \/ (Holds(p, "recovering") \/ Holds(p, "rollingBack")) /\ f \in op.toUndo
  /\ workspace[f] # Damaged
  /\ workspace' = [workspace EXCEPT ![f] = Damaged]
  /\ UNCHANGED <<image, commits, revision, roots, lockOwner, pc, op, faults, imports>>

\* A process dies with all its threads; the system frees its lock.
Crash(h) ==
  /\ CanFault("crash")
  /\ \E p \in Threads : Host[p] = h /\ pc[p] # "idle"
  /\ pc' = [p \in Threads |-> IF Host[p] = h THEN "idle" ELSE pc[p]]
  /\ IF lockOwner \in Threads /\ Host[lockOwner] = h
       THEN lockOwner' = NoThread /\ op' = NoOp
       ELSE UNCHANGED <<lockOwner, op>>
  /\ imports' = [p \in Threads |-> IF Host[p] = h THEN NoImport ELSE imports[p]]
  /\ faults' = faults + 1
  /\ UNCHANGED <<workspace, image, commits, revision, roots>>

-----------------------------------------------------------------------------
Recover(p) ==
  \/ \E t \in TxnIds : RetainUnreadable(p, t) \/ CleanCommitted(p, t) \/ StartUndo(p, t)
  \/ FinishUndo(p) \/ Opened(p)

BeginMutation(p) ==
  \/ BeginWrite(p) \/ BeginRename(p) \/ BeginDelete(p)
  \/ BeginMerge(p) \/ BeginImport(p) \/ BeginRestore(p)

Mutate(p) ==
  \/ \E f \in Paths : Capture(p, f) \/ Clear(p, f) \/ Put(p, f)
  \/ Move(p) \/ Save(p) \/ Commit(p) \/ Cleanup(p) \/ Return(p)

Undo(p) ==
  \/ \E f \in Paths : UndoRecord(p, f)
  \/ MarkRolledBack(p) \/ FinishRollback(p) \/ RollbackWithoutRoot(p)

\* What a request does by itself once it holds the lock.
Progress(p) ==
  \/ Recover(p) \/ Refuse(p) \/ Snapshot(p) \/ SafetySnapshot(p)
  \/ BeginMutation(p) \/ Mutate(p) \/ Undo(p)

Failure(p) == BeginFails(p) \/ Fail(p) \/ UndoFails(p)

Next ==
  \/ \E p \in Threads : Open(p) \/ Close(p) \/ Lock(p) \/ Progress(p) \/ Failure(p)
  \/ \E p \in Threads, f \in Paths : PlanImport(p, f) \/ Tear(p, f)
  \/ \E h \in Processes : Crash(h)

Spec == Init /\ [][Next]_vars

\* A thread that holds the lock keeps running until it dies or fails.
FairSpec == Spec /\ \A p \in Threads : WF_vars(Progress(p))

-----------------------------------------------------------------------------
(* Properties *)

InsideLock == Labels \ {"idle", "opened"}

\* One thread is inside a "with self.lock" block, and it owns the lock.
LockDiscipline == \A p \in Threads : pc[p] \in InsideLock <=> lockOwner = p

\* From its journal to its return a mutation has a transaction in hand, and so
\* has whatever still has records to undo.
InTransaction ==
  {"working", "saved", "committed", "returning", "rollingBack", "rolledBack"}

TransactionInHand ==
  op.toUndo # {} \/ (\E p \in Threads : pc[p] \in InTransaction) => op.root \in TxnIds

\* Every variable holds a value of its kind, and the lock serialises the work.
TypeOK ==
  /\ workspace \in Trees
  /\ image \in Trees
  /\ commits \in Seq(Trees)
  /\ revision \in Nat
  /\ roots \in [TxnIds -> Roots]
  /\ lockOwner \in Threads \cup {NoThread}
  /\ pc \in [Threads -> Labels]
  /\ op \in Ops
  /\ imports \in [Threads -> Imports]
  /\ faults \in Nat
  /\ LockDiscipline
  /\ TransactionInHand

\* If everything stopped now, the next open would give back the tree that the
\* saved metadata describes: every journal it would undo restores that tree,
\* and a path that no such journal names already holds it.
CrashConsistent ==
  \A f \in Paths :
    LET Undoers == {t \in TxnIds : Live(t) /\ f \in roots[t].captured}
    IN  IF Undoers = {} THEN workspace[f] = image[f]
                        ELSE \A t \in Undoers : roots[t].backups[f] = image[f]

\* A mutation that has just taken the lock finds the tree that the metadata it
\* loads describes (the recovery that made it so ran earlier, at open).
MutationsStartFromSavedTree ==
  \A p \in Threads : pc[p] \in {"locked", "protected"} => workspace = image

\* A new snapshot records the tree of the saved metadata, never the half
\* applied tree of an operation that did not finish.
SnapshotsRecordSavedTrees ==
  [][Len(commits') > Len(commits) => commits'[Len(commits')] = image']_vars

\* Content of the saved tree goes and no snapshot has it.
LosesUnrecorded ==
  /\ \E f \in Paths : image[f] \notin {Absent, image'[f]}
  /\ \A i \in DOMAIN commits : commits[i] # image

\* A merge, or an import that its plan says overwrites, leaves the tree it replaces
\* in the history (the safety snapshot), also what came there after the plan.
OverwritesAreSnapshotted ==
  [][\A p \in Threads :
       lockOwner = p /\ (op.kind = "merge" \/ (op.kind = "import" /\ imports[p].overwrites))
         => ~LosesUnrecorded]_vars

\* No import replaces what no snapshot has, as AUDIT_CLOSURE.md tells of FT-AUD-005.
\* The code does not keep it: see ImportRace.cfg.
ImportsAreSnapshotted == [][op.kind = "import" => ~LosesUnrecorded]_vars

\* A path is captured before it is changed (FilesystemTransaction's docstring):
\* whatever changes the workspace changes a path of the journal in hand.
CapturesBeforeChanging ==
  [][\A f \in Paths : workspace'[f] # workspace[f]
       => op.root # NoTxn /\ f \in roots[op.root].captured]_vars

\* The tree that the next open would find: the backups of the journals it would
\* undo over the workspace as it is.
TreeOnDisk ==
  [f \in Paths |->
     LET Undoers == {t \in TxnIds : Live(t) /\ f \in roots[t].captured}
     IN  IF Undoers = {} THEN workspace[f]
                         ELSE roots[CHOOSE t \in Undoers : TRUE].backups[f]]

Atomic == INSTANCE AtomicRepository
            WITH content <- TreeOnDisk, version <- revision, history <- commits

\* Journals, rollback and recovery make each mutation one atomic step, taken at
\* the save: no step of another kind, and no crash, changes what recovery yields.
ImplementsAtomicRepository == Atomic!Spec

\* Whoever takes the repository lock lets it go, whichever step fails.
LockIsReleased == \A p \in Threads : lockOwner = p ~> lockOwner # p
=============================================================================
