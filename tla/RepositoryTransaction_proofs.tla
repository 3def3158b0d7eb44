--------------------- MODULE RepositoryTransaction_proofs ---------------------
(***************************************************************************)
(* Theorems about RepositoryTransaction, for every set of threads,         *)
(* processes, paths and contents, and for every bound: the types; then, in *)
(* the settings in which it is true (SafeSetting; TLC shows that outside   *)
(* them it is not), that at every instant the next open would give back    *)
(* the tree the saved metadata describes, and what follows from that.      *)
(***************************************************************************)
EXTENDS RepositoryTransaction, SequenceTheorems, TLAPS

-----------------------------------------------------------------------------
(* Facts about the building blocks *)

\* The empty values belong to their kinds.
LEMMA EmptyTypes ==
  /\ EmptyTree \in Trees
  /\ NoRoot \in Roots /\ UnreadableRoot \in Roots
  /\ NoOp \in Ops
  /\ NoImport \in Imports
BY DEF EmptyTree, Trees, Values, NoRoot, UnreadableRoot, Roots, Journals, NoOp, Ops, NoImport,
       Imports

\* Removing a transaction directory, halfway or not, keeps the directories well formed.
LEMMA RemoveType ==
  ASSUME TypeOK, NEW t \in TxnIds, Remove(t)
  PROVE  roots' \in [TxnIds -> Roots] /\ faults' \in Nat
<1>1. CASE roots' = [roots EXCEPT ![t] = NoRoot] /\ UNCHANGED faults
  BY <1>1, EmptyTypes DEF TypeOK
<1>2. CASE roots' = [roots EXCEPT ![t] = UnreadableRoot] /\ faults' = faults + 1
  BY <1>2, EmptyTypes DEF TypeOK
<1>3. ASSUME NEW gone \in SUBSET roots[t].captured,
             roots' = [roots EXCEPT ![t].backups =
                         [f \in Paths |-> IF f \in gone THEN Absent ELSE @[f]]],
             faults' = faults + 1
      PROVE  roots' \in [TxnIds -> Roots] /\ faults' \in Nat
  <2>1. Absent \in Values
    BY DEF Values
  <2>2. roots' \in [TxnIds -> Roots]
    BY <1>3, <2>1 DEF TypeOK, Roots, Trees
  <2> QED BY <1>3, <2>2 DEF TypeOK
<1> QED BY <1>1, <1>2, <1>3 DEF Remove

\* Where the threads stand and who owns the lock.
Control ==
  /\ lockOwner \in Threads \cup {NoThread}
  /\ pc \in [Threads -> Labels]
  /\ LockDiscipline
  /\ TransactionInHand

\* A thread that leaves the lock leaves it to nobody.
LEMMA LeaveLockType ==
  ASSUME TypeOK, NEW p \in Threads, lockOwner = p, NEW label \in {"idle", "opened"},
         LeaveLock(p, label)
  PROVE  Control' /\ op' \in Ops /\ imports' \in [Threads -> Imports]
BY EmptyTypes, Sentinels
DEF TypeOK, LeaveLock, NoOp, Goto, Control, LockDiscipline, TransactionInHand, InTransaction,
    InsideLock, Labels

\* The owner of the lock moves on inside its block.
LEMMA GotoType ==
  ASSUME TypeOK, NEW p \in Threads, lockOwner = p, NEW label \in InsideLock,
         Goto(p, label), UNCHANGED lockOwner,
         \/ op'.root \in TxnIds
         \/ label \notin InTransaction /\ op'.root = op.root /\ op'.toUndo = op.toUndo
  PROVE  Control'
BY DEF TypeOK, Goto, Control, LockDiscipline, TransactionInHand, InTransaction,
    InsideLock, Labels

\* A step that moves nobody keeps the discipline as long as the owner keeps its
\* transaction.
LEMMA StayType ==
  ASSUME TypeOK, UNCHANGED <<lockOwner, pc>>,
         op'.root \in TxnIds \/ (op'.root = op.root /\ op'.toUndo = op.toUndo)
  PROVE  Control'
BY DEF TypeOK, Control, LockDiscipline, TransactionInHand

\* What the variables hold, apart from control.
Data ==
  /\ workspace \in Trees
  /\ image \in Trees
  /\ commits \in Seq(Trees)
  /\ revision \in Nat
  /\ roots \in [TxnIds -> Roots]
  /\ op \in Ops
  /\ imports \in [Threads -> Imports]
  /\ faults \in Nat

-----------------------------------------------------------------------------
(* Each group of actions keeps the types *)

LEMMA RecoverType ==
  ASSUME TypeOK, NEW p \in Threads, Open(p) \/ Recover(p) \/ Close(p)
  PROVE  TypeOK'
<1>1. CASE Open(p)
  <2>1. Data'
    BY <1>1, EmptyTypes DEF TypeOK, Data, Open, Ops
  <2>2. Control'
    BY <1>1, Sentinels DEF TypeOK, Open, NoOp, Goto, Control, LockDiscipline, TransactionInHand,
       InTransaction, InsideLock, Labels
  <2> QED BY <2>1, <2>2 DEF TypeOK, Data, Control
<1>2. ASSUME NEW t \in TxnIds, RetainUnreadable(p, t) PROVE TypeOK'
  <2>1. Data'
    BY <1>2 DEF TypeOK, Data, RetainUnreadable, Ops
  <2>2. Control'
    BY <1>2, StayType DEF TypeOK, RetainUnreadable, Ops
  <2> QED BY <2>1, <2>2 DEF TypeOK, Data, Control
<1>3. ASSUME NEW t \in TxnIds, CleanCommitted(p, t) PROVE TypeOK'
  <2>1. Data'
    BY <1>3, RemoveType DEF TypeOK, Data, CleanCommitted, Ops
  <2>2. Control'
    BY <1>3, StayType DEF TypeOK, CleanCommitted, Ops
  <2> QED BY <2>1, <2>2 DEF TypeOK, Data, Control
<1>4. ASSUME NEW t \in TxnIds, StartUndo(p, t) PROVE TypeOK'
  <2>1. Data'
    BY <1>4 DEF TypeOK, Data, StartUndo, Ops, Roots
  <2>2. Control'
    <3>1. op'.root \in TxnIds
      BY <1>4 DEF TypeOK, StartUndo, Ops
    <3> QED BY <1>4, <3>1 DEF TypeOK, StartUndo, Control, LockDiscipline, TransactionInHand
  <2> QED BY <2>1, <2>2 DEF TypeOK, Data, Control
<1>5. CASE FinishUndo(p)
  <2>1. op.root \in TxnIds
    BY <1>5 DEF TypeOK, FinishUndo, Ops
  <2>2. Data'
    BY <1>5, <2>1, RemoveType DEF TypeOK, Data, FinishUndo, Ops
  <2>3. Control'
    BY <1>5, Sentinels DEF TypeOK, FinishUndo, Holds, Control, LockDiscipline,
       TransactionInHand, InTransaction, InsideLock, Labels
  <2> QED BY <2>2, <2>3 DEF TypeOK, Data, Control
<1>6. CASE Opened(p)
  BY <1>6, LeaveLockType DEF TypeOK, Control, Opened, Holds
<1>7. CASE Close(p)
  <2>1. Data'
    BY <1>7, EmptyTypes DEF TypeOK, Data, Close
  <2>2. Control'
    BY <1>7 DEF TypeOK, Close, Goto, Control, LockDiscipline, TransactionInHand,
       InTransaction, InsideLock, Labels
  <2> QED BY <2>1, <2>2 DEF TypeOK, Data, Control
<1> QED BY <1>1, <1>2, <1>3, <1>4, <1>5, <1>6, <1>7 DEF Recover

\* Begin gives the lock's owner a transaction whose plan is well formed.
LEMMA BeginType ==
  ASSUME TypeOK, NEW p \in Threads, lockOwner = p, NEW plan, Begin(p, plan),
         plan.toCapture \subseteq Paths, plan.toClear \subseteq Paths,
         plan.toPut \subseteq Paths, plan.target \in Trees
  PROVE  TypeOK'
<1>1. PICK t \in TxnIds :
        /\ roots' = [roots EXCEPT ![t] =
                       [journal |-> "pending", before |-> op.loaded, captured |-> {},
                        backups |-> EmptyTree]]
        /\ op' = [op EXCEPT !.kind = plan.kind, !.root = t, !.toCapture = plan.toCapture,
                            !.toClear = plan.toClear, !.toPut = plan.toPut,
                            !.target = plan.target]
  BY DEF Begin
<1>2. Data'
  BY <1>1, EmptyTypes DEF TypeOK, Data, Begin, Ops, Roots, Journals
<1>3. op'.root \in TxnIds
  BY <1>1 DEF TypeOK, Ops
<1>4. Control'
  BY <1>3, GotoType DEF Begin, InsideLock, Labels
<1> QED BY <1>2, <1>4 DEF TypeOK, Data, Control

LEMMA StartType ==
  ASSUME TypeOK, NEW p \in Threads,
         Lock(p) \/ Refuse(p) \/ Snapshot(p) \/ SafetySnapshot(p) \/ BeginMutation(p)
  PROVE  TypeOK'
<1>1. CASE Lock(p)
  <2>1. Data'
    BY <1>1, EmptyTypes DEF TypeOK, Data, Lock, Ops
  <2>2. Control'
    BY <1>1, Sentinels DEF TypeOK, Lock, NoOp, Goto, Control, LockDiscipline, TransactionInHand,
       InTransaction, InsideLock, Labels
  <2> QED BY <2>1, <2>2 DEF TypeOK, Data, Control
<1>2. CASE Refuse(p)
  BY <1>2, LeaveLockType DEF TypeOK, Control, Refuse, Holds
<1>3. CASE Snapshot(p)
  <2>1. commits' \in Seq(Trees) /\ revision' \in Nat
    BY <1>3 DEF TypeOK, Snapshot, AppendSnapshot
  <2> QED BY <1>3, <2>1, LeaveLockType DEF TypeOK, Control, Snapshot, Holds
<1>4. CASE SafetySnapshot(p)
  <2>1. commits' \in Seq(Trees) /\ revision' \in Nat
    <3>1. CASE AppendSnapshot
      BY <3>1 DEF TypeOK, AppendSnapshot
    <3>2. CASE UNCHANGED <<commits, revision>>
      BY <3>2 DEF TypeOK
    <3> QED BY <1>4, <3>1, <3>2 DEF SafetySnapshot
  <2>2. Data'
    BY <1>4, <2>1 DEF TypeOK, Data, SafetySnapshot, Ops
  <2>3. Control'
    BY <1>4, GotoType DEF SafetySnapshot, Holds, InsideLock, InTransaction, Labels
  <2> QED BY <2>2, <2>3 DEF TypeOK, Data, Control
<1>5. CASE BeginWrite(p)
  BY <1>5, BeginType DEF TypeOK, BeginWrite, Holds, Trees, Values
<1>6. CASE BeginRename(p)
  BY <1>6, BeginType DEF TypeOK, BeginRename, Holds, Trees, Values, Existing
<1>7. CASE BeginDelete(p)
  BY <1>7, BeginType DEF TypeOK, BeginDelete, Holds, Trees, Values, Existing
<1>8. CASE BeginMerge(p)
  BY <1>8, BeginType DEF TypeOK, BeginMerge, Holds, Trees, Values
<1>9. CASE BeginImport(p)
  <2>1. imports[p].paths \in SUBSET Paths
    BY DEF TypeOK, Imports
  <2>2. PICK new \in [imports[p].paths -> Contents] :
          Begin(p, [kind |-> "import", toCapture |-> imports[p].paths, toClear |-> {},
                    toPut |-> imports[p].paths,
                    target |-> [f \in Paths |-> IF f \in imports[p].paths THEN new[f]
                                                                      ELSE workspace[f]]])
    BY <1>9 DEF BeginImport
  <2>3. [f \in Paths |-> IF f \in imports[p].paths THEN new[f] ELSE workspace[f]] \in Trees
    BY DEF TypeOK, Trees, Values
  <2> QED BY <1>9, <2>1, <2>2, <2>3, BeginType DEF BeginImport, Holds
<1>10. CASE BeginRestore(p)
  <2>1. PICK i \in DOMAIN commits :
          Begin(p, [kind |-> "restore",
                    toCapture |-> Existing(workspace), toClear |-> Existing(workspace),
                    toPut |-> Existing(commits[i]), target |-> commits[i]])
    BY <1>10 DEF BeginRestore
  <2>2. commits[i] \in Trees
    BY <2>1, ElementOfSeq DEF TypeOK
  <2> QED BY <1>10, <2>1, <2>2, BeginType DEF BeginRestore, Holds, Existing
<1> QED BY <1>1, <1>2, <1>3, <1>4, <1>5, <1>6, <1>7, <1>8, <1>9, <1>10 DEF BeginMutation

LEMMA MutateType ==
  ASSUME TypeOK, NEW p \in Threads, Mutate(p)
  PROVE  TypeOK'
<1>1. ASSUME NEW f \in Paths, Capture(p, f) PROVE TypeOK'
  <2>1. op.root \in TxnIds
    BY <1>1 DEF TypeOK, Capture, Holds, TransactionInHand, InTransaction
  <2>2. workspace[f] \in Values
    BY DEF TypeOK, Trees
  <2>3. roots' \in [TxnIds -> Roots]
    <3>1. roots[op.root] \in Roots /\ roots[op.root].backups \in [Paths -> Values]
      BY <2>1 DEF TypeOK, Roots, Trees
    <3>2. roots' = [roots EXCEPT ![op.root].captured = @ \cup {f},
                                ![op.root].backups[f] = workspace[f]]
      BY <1>1 DEF Capture
    <3> QED BY <2>1, <2>2, <3>1, <3>2 DEF TypeOK, Roots, Trees
  <2>4. Data'
    BY <1>1, <2>3 DEF TypeOK, Data, Capture, Ops
  <2>5. Control'
    BY <1>1, StayType DEF TypeOK, Capture, Ops
  <2> QED BY <2>4, <2>5 DEF TypeOK, Data, Control
<1>2. ASSUME NEW f \in Paths, Clear(p, f) PROVE TypeOK'
  <2>1. Data'
    BY <1>2 DEF TypeOK, Data, Clear, Ops, Trees, Values
  <2>2. Control'
    BY <1>2, StayType DEF TypeOK, Clear, Ops
  <2> QED BY <2>1, <2>2 DEF TypeOK, Data, Control
<1>3. ASSUME NEW f \in Paths, Put(p, f) PROVE TypeOK'
  <2>1. Data'
    BY <1>3 DEF TypeOK, Data, Put, Ops, Trees
  <2>2. Control'
    BY <1>3, StayType DEF TypeOK, Put, Ops
  <2> QED BY <2>1, <2>2 DEF TypeOK, Data, Control
<1>4. CASE Move(p)
  <2>1. Data'
    BY <1>4 DEF TypeOK, Data, Move, Ops
  <2>2. Control'
    BY <1>4, StayType DEF TypeOK, Move, Ops
  <2> QED BY <2>1, <2>2 DEF TypeOK, Data, Control
<1>5. CASE Save(p)
  <2>1. commits' \in Seq(Trees)
    BY <1>5 DEF TypeOK, Save
  <2>2. Data'
    BY <1>5, <2>1 DEF TypeOK, Data, Save, Ops
  <2>3. Control'
    BY <1>5, GotoType DEF TypeOK, Save, Holds, TransactionInHand, InTransaction, InsideLock, Labels
  <2> QED BY <2>2, <2>3 DEF TypeOK, Data, Control
<1>6. CASE Commit(p)
  <2>1. op.root \in TxnIds
    BY <1>6 DEF TypeOK, Commit, Holds, TransactionInHand, InTransaction
  <2>2. Data'
    BY <1>6, <2>1 DEF TypeOK, Data, Commit, Roots, Journals
  <2>3. Control'
    BY <1>6, <2>1, GotoType DEF Commit, Holds, InsideLock, Labels
  <2> QED BY <2>2, <2>3 DEF TypeOK, Data, Control
<1>7. CASE Cleanup(p)
  <2>1. op.root \in TxnIds
    BY <1>7 DEF TypeOK, Cleanup, Holds, TransactionInHand, InTransaction
  <2>2. Data'
    BY <1>7, <2>1, RemoveType DEF TypeOK, Data, Cleanup
  <2>3. Control'
    BY <1>7, <2>1, GotoType DEF Cleanup, Holds, InsideLock, Labels
  <2> QED BY <2>2, <2>3 DEF TypeOK, Data, Control
<1>8. CASE Return(p)
  BY <1>8, LeaveLockType DEF TypeOK, Control, Return, Holds
<1> QED BY <1>1, <1>2, <1>3, <1>4, <1>5, <1>6, <1>7, <1>8 DEF Mutate

LEMMA UndoType ==
  ASSUME TypeOK, NEW p \in Threads, Undo(p)
  PROVE  TypeOK'
<1>1. ASSUME NEW f \in Paths, UndoRecord(p, f) PROVE TypeOK'
  <2>1. op.root \in TxnIds
    BY <1>1 DEF TypeOK, UndoRecord, TransactionInHand
  <2>2. Data'
    <3>1. roots[op.root].backups \in Trees
      BY <2>1 DEF TypeOK, Roots
    <3>2. workspace' \in Trees
      BY <1>1, <3>1 DEF TypeOK, UndoRecord, Trees
    <3>3. op' \in Ops
      BY <1>1 DEF TypeOK, UndoRecord, Ops
    <3> QED BY <1>1, <3>2, <3>3 DEF TypeOK, Data, UndoRecord
  <2>3. Control'
    <3>1. op'.root = op.root
      BY <1>1 DEF TypeOK, UndoRecord, Ops
    <3>2. UNCHANGED <<lockOwner, pc>>
      BY <1>1 DEF UndoRecord
    <3> QED BY <2>1, <3>1, <3>2 DEF TypeOK, Control, LockDiscipline, TransactionInHand
  <2> QED BY <2>2, <2>3 DEF TypeOK, Data, Control
<1>2. CASE MarkRolledBack(p)
  <2>1. op.root \in TxnIds
    BY <1>2 DEF TypeOK, MarkRolledBack, Holds, TransactionInHand, InTransaction
  <2>2. Data'
    <3>1. op.captured \in SUBSET Paths
      BY DEF TypeOK, Ops
    <3>2. roots' \in [TxnIds -> Roots]
      <4>1. roots' = [roots EXCEPT ![op.root].journal = "rolled_back",
                                  ![op.root].captured = op.captured]
        BY <1>2 DEF MarkRolledBack
      <4>2. roots \in [TxnIds -> Roots]
        BY DEF TypeOK
      <4> QED BY <2>1, <3>1, <4>1, <4>2 DEF Roots, Journals
    <3> QED BY <1>2, <3>2 DEF TypeOK, Data, MarkRolledBack
  <2>3. Control'
    BY <1>2, <2>1, GotoType DEF MarkRolledBack, Holds, InsideLock, Labels
  <2> QED BY <2>2, <2>3 DEF TypeOK, Data, Control
<1>3. CASE FinishRollback(p)
  <2>1. op.root \in TxnIds
    BY <1>3 DEF TypeOK, FinishRollback, Holds, TransactionInHand, InTransaction
  <2> QED BY <1>3, <2>1, RemoveType, LeaveLockType DEF TypeOK, Control, FinishRollback, Holds
<1>4. CASE RollbackWithoutRoot(p)
  <2>1. workspace' \in Trees
    BY <1>4 DEF TypeOK, RollbackWithoutRoot, Trees, Values
  <2> QED BY <1>4, <2>1, LeaveLockType DEF TypeOK, Control, RollbackWithoutRoot, Holds
<1> QED BY <1>1, <1>2, <1>3, <1>4 DEF Undo

LEMMA FailureType ==
  ASSUME TypeOK, NEW p \in Threads, Failure(p)
  PROVE  TypeOK'
<1>1. CASE BeginFails(p)
  <2>1. roots' \in [TxnIds -> Roots]
    BY <1>1, EmptyTypes DEF TypeOK, BeginFails
  <2> QED BY <1>1, <2>1, LeaveLockType DEF TypeOK, Control, BeginFails, Holds
<1>2. CASE Fail(p)
  <2>1. op.root \in TxnIds
    BY <1>2 DEF TypeOK, Fail, Holds, TransactionInHand, InTransaction
  <2>2. Data' /\ op'.root \in TxnIds
    BY <1>2, <2>1 DEF TypeOK, Data, Fail, Ops
  <2>3. Control'
    BY <1>2, <2>2, GotoType DEF Fail, Holds, InsideLock, Labels
  <2> QED BY <2>2, <2>3 DEF TypeOK, Data, Control
<1>3. CASE UndoFails(p)
  BY <1>3, LeaveLockType DEF TypeOK, Control, UndoFails, Holds
<1> QED BY <1>1, <1>2, <1>3 DEF Failure

\* The plan of an import is the only thing that grows while it scans.
LEMMA PlanType ==
  ASSUME TypeOK, NEW p \in Threads, NEW f \in Paths, PlanImport(p, f)
  PROVE  TypeOK'
<1>1. imports' \in [Threads -> Imports]
  BY DEF TypeOK, PlanImport, Imports
<1>2. Control'
  BY DEF TypeOK, PlanImport, Control, LockDiscipline, TransactionInHand
<1> QED BY <1>1, <1>2 DEF TypeOK, Control, PlanImport

LEMMA TearType ==
  ASSUME TypeOK, NEW p \in Threads, NEW f \in Paths, Tear(p, f)
  PROVE  TypeOK'
<1>1. Data'
  BY DEF TypeOK, Data, Tear, Trees, Values
<1>2. Control'
  BY DEF TypeOK, Tear, Control, LockDiscipline, TransactionInHand
<1> QED BY <1>1, <1>2 DEF TypeOK, Data, Control

\* A process that dies takes its transaction with it; the threads of the other
\* processes were outside the lock or still own it.
LEMMA CrashType ==
  ASSUME TypeOK, NEW h \in Processes, Crash(h)
  PROVE  TypeOK'
<1>1. Data'
  BY EmptyTypes DEF TypeOK, Data, Crash, Imports
<1>2. CASE lockOwner \in Threads /\ Host[lockOwner] = h
  <2>1. lockOwner' = NoThread /\ op' = NoOp
    BY <1>2 DEF Crash
  <2>2. \A p \in Threads : pc'[p] \notin InsideLock
    BY <1>2 DEF TypeOK, Crash, LockDiscipline, InsideLock, Labels
  <2>3. Control'
    BY <2>1, <2>2, Sentinels DEF TypeOK, Crash, Control, LockDiscipline, TransactionInHand,
       InTransaction, InsideLock, Labels, NoOp
  <2> QED BY <1>1, <2>3 DEF TypeOK, Data, Control
<1>3. CASE ~(lockOwner \in Threads /\ Host[lockOwner] = h)
  BY <1>1, <1>3 DEF TypeOK, Data, Crash, LockDiscipline, TransactionInHand,
     InTransaction, InsideLock, Labels
<1> QED BY <1>2, <1>3

-----------------------------------------------------------------------------
(* Type correctness *)

LEMMA TypeInit == Init => TypeOK
<1> SUFFICES ASSUME Init PROVE TypeOK
  OBVIOUS
<1>1. Data
  BY EmptyTypes, EmptySeq DEF Init, Data, Trees, Values
<1>2. Control
  BY Sentinels DEF Init, Control, LockDiscipline, TransactionInHand, InTransaction,
     InsideLock, Labels, NoOp
<1> QED BY <1>1, <1>2 DEF TypeOK, Data, Control

LEMMA TypeStep == TypeOK /\ [Next]_vars => TypeOK'
<1> SUFFICES ASSUME TypeOK, [Next]_vars PROVE TypeOK'
  OBVIOUS
<1>1. ASSUME NEW p \in Threads,
             Open(p) \/ Close(p) \/ Lock(p) \/ Progress(p) \/ Failure(p)
      PROVE  TypeOK'
  BY <1>1, RecoverType, StartType, MutateType, UndoType, FailureType DEF Progress
<1>2. ASSUME NEW p \in Threads, NEW f \in Paths, PlanImport(p, f) \/ Tear(p, f)
      PROVE  TypeOK'
  BY <1>2, PlanType, TearType
<1>3. ASSUME NEW h \in Processes, Crash(h) PROVE TypeOK'
  BY <1>3, CrashType
<1>4. CASE UNCHANGED vars
  BY <1>4 DEF vars, TypeOK, LockDiscipline, TransactionInHand
<1> QED BY <1>1, <1>2, <1>3, <1>4 DEF Next

\* Every reachable state is well typed, and in every one of them at most one
\* thread is inside the repository lock: the one that owns it.
THEOREM TypeCorrect == Spec => []TypeOK
BY TypeInit, TypeStep, PTL DEF Spec


-----------------------------------------------------------------------------
(* The setting and the inductive invariant *)

\* No restore, no failure after the save, removals of directories that end; and
\* nobody keeps an opened service across an undo that did not finish: there is
\* one thread, or one process whose undo works, or neither crash nor failed undo.
SafeSetting ==
  /\ "restore" \notin Operations
  /\ "late_exception" \notin Faults /\ "torn_cleanup" \notin Faults
  /\ \/ \A p, q \in Threads : p = q
     \/ (\A p, q \in Threads : Host[p] = Host[q]) /\ "undo_exception" \notin Faults
     \/ "crash" \notin Faults /\ "undo_exception" \notin Faults

\* The journal of the mutation that the lock's owner has in hand.
InHand(t) == lockOwner \in Threads /\ pc[lockOwner] \in InTransaction /\ op.root = t

\* A journal that recovery would undo is in hand, or nobody is past its open and
\* whoever is recovering has it before him.
LiveIsInHand ==
  \A t \in TxnIds, p \in Threads : Live(t) =>
    /\ pc[p] \notin {"idle", "recovering"} => InHand(t)
    /\ pc[p] = "recovering" => t \in op.toVisit \/ t = op.root

OneIsLive == \A t, u \in TxnIds : Live(t) /\ Live(u) => t = u

\* Undoing a live journal gives the saved tree, and with none there it is.
LiveRestores ==
  \A t \in TxnIds : Live(t) =>
    \A f \in Paths : IF f \in roots[t].captured THEN roots[t].backups[f] = image[f]
                                                ELSE workspace[f] = image[f]

QuietIsSaved == (\A t \in TxnIds : ~Live(t)) => workspace = image

\* A mutation works on the state it loaded and starts with an empty journal.
LoadedIsCurrent ==
  \A p \in Threads :
    /\ pc[p] \in {"locked", "protected", "working"} => op.loaded = revision
    /\ pc[p] \in {"locked", "protected"} => op.captured = {} /\ op.existed = {}

\* What a mutation has yet to change it has captured or will, what it has
\* captured it will not capture again, and the rest is as it should become.
CoveredWork ==
  /\ Live(op.root)
  /\ roots[op.root].before = op.loaded
  /\ op.kind # "restore"
  /\ op.toClear \cup op.toPut \subseteq op.toCapture \cup op.captured
  /\ op.toCapture \cap op.captured = {}
  /\ op.toClear \cap op.toPut = {}
  /\ \A f \in op.toClear : op.target[f] = Absent
  /\ \A f \in Paths : f \notin op.toClear \cup op.toPut => workspace[f] = op.target[f]

WorkIsCovered == \A p \in Threads : pc[p] = "working" => CoveredWork

\* The transaction object and its journal agree, and the backups are there.
AgreedRecords ==
  /\ roots[op.root].captured = op.captured
  /\ op.existed \subseteq op.captured
  /\ \A f \in op.existed : roots[op.root].backups[f] # Absent

RecordsAgree == \A p \in Threads : pc[p] \in {"working", "rollingBack"} => AgreedRecords

\* After the save the journal binds nobody.
SavedIsDone ==
  \A p \in Threads : pc[p] \in {"saved", "committed", "returning"} => ~Live(op.root)

\* What has been undone is as the saved tree says.
UndoneIsSaved ==
  /\ \A p \in Threads :
       pc[p] = "rollingBack" \/ (pc[p] = "recovering" /\ op.root # NoTxn) =>
         /\ Live(op.root)
         /\ op.toUndo \subseteq roots[op.root].captured
         /\ \A f \in roots[op.root].captured \ op.toUndo : workspace[f] = image[f]
  /\ \A p \in Threads : pc[p] = "recovering" /\ op.root = NoTxn => op.toUndo = {}
  /\ \A p \in Threads : pc[p] = "rolledBack" => Live(op.root) /\ workspace = image

\* What the disk says, and what the threads may rely on.
DiskInv    == OneIsLive /\ LiveRestores /\ QuietIsSaved
ControlInv == /\ LiveIsInHand /\ LoadedIsCurrent /\ WorkIsCovered
              /\ RecordsAgree /\ SavedIsDone /\ UndoneIsSaved

IInv == TypeOK /\ DiskInv /\ ControlInv

-----------------------------------------------------------------------------
(* Lemmas about groups of actions *)

\* Beside the owner of the lock everybody is idle or has just opened.
LEMMA OthersOutside ==
  ASSUME TypeOK, NEW p \in Threads, NEW q \in Threads, p # q, lockOwner = p
  PROVE  pc[q] \in {"idle", "opened"}
BY DEF TypeOK, LockDiscipline, InsideLock, Labels

LEMMA OthersOutsideNext ==
  ASSUME TypeOK', NEW p \in Threads, NEW q \in Threads, p # q, lockOwner' = p
  PROVE  pc'[q] \in {"idle", "opened"}
BY DEF TypeOK, LockDiscipline, InsideLock, Labels

\* The owner of the lock who has no transaction in hand and is past recovery has
\* no live journal around, nor has anybody when the lock is free.
LEMMA NothingLive ==
  ASSUME IInv, NEW p \in Threads, pc[p] \notin {"idle", "recovering"},
         lockOwner = NoThread \/ (lockOwner = p /\ pc[p] \notin InTransaction)
  PROVE  (\A t \in TxnIds : ~Live(t)) /\ workspace = image
<1>1. \A t \in TxnIds : ~Live(t)
  BY Sentinels DEF IInv, ControlInv, LiveIsInHand, InHand
<1> QED BY <1>1 DEF IInv, DiskInv, QuietIsSaved

\* Steps that leave the disk alone.
LEMMA DiskSame ==
  ASSUME IInv, UNCHANGED <<workspace, image, revision, roots>>
  PROVE  DiskInv' /\ \A t \in TxnIds : Live(t)' <=> Live(t)
<1>1. \A t \in TxnIds : Live(t)' <=> Live(t)
  BY DEF Live, Superseded
<1> QED BY <1>1 DEF IInv, DiskInv, OneIsLive, LiveRestores, QuietIsSaved

\* With every thread outside the lock and nothing live, or every thread idle,
\* nobody relies on anything.
LEMMA NobodyInside ==
  ASSUME \A q \in Threads : pc'[q] \in {"idle", "opened"},
         \/ \A t \in TxnIds : ~Live(t)'
         \/ \A q \in Threads : pc'[q] = "idle"
  PROVE  ControlInv'
BY DEF ControlInv, LiveIsInHand, LoadedIsCurrent, WorkIsCovered, RecordsAgree, SavedIsDone,
       UndoneIsSaved

\* Leaving the lock with nothing live.
LEMMA LeaveLockQuiet ==
  ASSUME TypeOK, NEW p \in Threads, lockOwner = p, NEW label \in {"idle", "opened"},
         LeaveLock(p, label), \A t \in TxnIds : ~Live(t)'
  PROVE  ControlInv'
<1>1. \A q \in Threads : pc'[q] \in {"idle", "opened"}
  BY OthersOutside DEF TypeOK, LeaveLock, Goto
<1> QED BY <1>1, NobodyInside

-----------------------------------------------------------------------------
(* Opening and recovery *)

LEMMA OpenKeeps ==
  ASSUME IInv, TypeOK', NEW p \in Threads, Open(p)
  PROVE  IInv'
<1>1. DiskInv' /\ \A t \in TxnIds : Live(t)' <=> Live(t)
  BY DiskSame DEF Open
<1>2. pc'[p] = "recovering" /\ op'.root = NoTxn /\ op'.toUndo = {}
  BY DEF Open, Goto, NoOp, IInv, TypeOK
<1>3. \A t \in TxnIds : Live(t)' => t \in op'.toVisit
  BY <1>1 DEF Open, NoOp, Live
<1>4. \A q \in Threads : q # p => pc'[q] \in {"idle", "opened"}
  BY OthersOutsideNext DEF Open
<1>5. \A q \in Threads : pc'[q] = "opened" => \A t \in TxnIds : ~Live(t)'
  <2> SUFFICES ASSUME NEW q \in Threads, pc'[q] = "opened" PROVE \A t \in TxnIds : ~Live(t)
    BY <1>1
  <2>1. pc[q] = "opened" /\ lockOwner = NoThread
    BY DEF Open, Goto, IInv, TypeOK
  <2> QED BY <2>1, NothingLive
<1>6. LiveIsInHand'
  BY <1>2, <1>3, <1>4, <1>5 DEF LiveIsInHand
<1>7. (LoadedIsCurrent /\ WorkIsCovered /\ RecordsAgree /\ SavedIsDone /\ UndoneIsSaved)'
  BY <1>2, <1>4 DEF LoadedIsCurrent, WorkIsCovered, RecordsAgree, SavedIsDone, UndoneIsSaved
<1> QED BY <1>1, <1>6, <1>7 DEF IInv, ControlInv

\* Steps of a recovery that stay in it.
LEMMA RecoveryStays ==
  ASSUME TypeOK', NEW p \in Threads, lockOwner' = p, pc'[p] = "recovering",
         \A q \in Threads : pc'[q] = "opened" => \A t \in TxnIds : ~Live(t)',
         \A t \in TxnIds : Live(t)' => t \in op'.toVisit \/ t = op'.root,
         op'.root = NoTxn => op'.toUndo = {},
         op'.root # NoTxn =>
           /\ Live(op.root)'
           /\ op'.toUndo \subseteq roots'[op'.root].captured
           /\ \A f \in roots'[op'.root].captured \ op'.toUndo : workspace'[f] = image'[f]
  PROVE  ControlInv'
<1>1. \A q \in Threads : q # p => pc'[q] \in {"idle", "opened"}
  BY OthersOutsideNext
<1>2. LiveIsInHand'
  BY <1>1 DEF LiveIsInHand
<1>3. (LoadedIsCurrent /\ WorkIsCovered /\ RecordsAgree /\ SavedIsDone)'
  BY <1>1 DEF LoadedIsCurrent, WorkIsCovered, RecordsAgree, SavedIsDone
<1>4. UndoneIsSaved'
  BY <1>1 DEF UndoneIsSaved
<1> QED BY <1>2, <1>3, <1>4 DEF ControlInv

\* While somebody recovers, nobody holds an opened service over a live journal.
LEMMA RecoveryIsQuiet ==
  ASSUME IInv, NEW p \in Threads, Holds(p, "recovering"),
         NEW q \in Threads, pc[q] = "opened", NEW t \in TxnIds
  PROVE  ~Live(t)
BY Sentinels DEF Holds, IInv, ControlInv, LiveIsInHand, InHand, InTransaction

LEMMA VisitKeeps ==
  ASSUME IInv, TypeOK', NEW p \in Threads, NEW t \in TxnIds,
         RetainUnreadable(p, t) \/ StartUndo(p, t)
  PROVE  IInv'
<1>1. DiskInv' /\ \A u \in TxnIds : Live(u)' <=> Live(u)
  BY DiskSame DEF RetainUnreadable, StartUndo
<1>2. Holds(p, "recovering") /\ op.root = NoTxn
  BY DEF RetainUnreadable, StartUndo, Visiting
<1>3. lockOwner' = p /\ pc' = pc /\ pc'[p] = "recovering"
  BY <1>2 DEF RetainUnreadable, StartUndo, Holds
<1>4. \A q \in Threads : pc'[q] = "opened" => \A u \in TxnIds : ~Live(u)'
  BY <1>1, <1>2, <1>3, RecoveryIsQuiet
<1>5. \A u \in TxnIds : Live(u) => u \in op.toVisit
  BY <1>2, Sentinels DEF Holds, IInv, ControlInv, LiveIsInHand
<1>6. CASE RetainUnreadable(p, t)
  <2>1. op'.root = NoTxn /\ op'.toUndo = {} /\ op'.toVisit = op.toVisit \ {t}
    BY <1>2, <1>6 DEF RetainUnreadable, Holds, IInv, TypeOK, Ops, ControlInv, UndoneIsSaved
  <2>2. ~Live(t)
    BY <1>6 DEF RetainUnreadable, Live
  <2>3. \A u \in TxnIds : Live(u)' => u \in op'.toVisit
    BY <1>1, <1>5, <2>1, <2>2
  <2> QED BY <1>1, <1>3, <1>4, <2>1, <2>3, RecoveryStays DEF IInv
<1>7. CASE StartUndo(p, t)
  <2>1. /\ op'.root = t /\ op'.toUndo = roots[t].captured
        /\ op'.toVisit = op.toVisit \ {t} /\ roots' = roots
    BY <1>7 DEF StartUndo, IInv, TypeOK, Ops
  <2>2. Live(op.root)'
    BY <1>7, <2>1 DEF StartUndo, Live, Superseded
  <2>3. t # NoTxn
    BY Sentinels
  <2>4. \A u \in TxnIds : Live(u)' => u \in op'.toVisit \/ u = op'.root
    BY <1>1, <1>5, <2>1
  <2> QED BY <1>1, <1>3, <1>4, <2>1, <2>2, <2>3, <2>4, RecoveryStays DEF IInv
<1> QED BY <1>6, <1>7

\* A removal that ends removes one directory and nothing else.
LEMMA RemoveWhole ==
  ASSUME SafeSetting, TypeOK, NEW t \in TxnIds, Remove(t), UNCHANGED revision
  PROVE  /\ roots' = [roots EXCEPT ![t] = NoRoot]
         /\ ~Live(t)'
         /\ \A u \in TxnIds : u # t => roots'[u] = roots[u] /\ (Live(u)' <=> Live(u))
<1>1. roots' = [roots EXCEPT ![t] = NoRoot]
  BY DEF Remove, CanFault, SafeSetting
<1>2. roots'[t].journal = "none"
  BY <1>1 DEF TypeOK, NoRoot
<1>3. \A u \in TxnIds : u # t => roots'[u] = roots[u]
  BY <1>1 DEF TypeOK
<1> QED BY <1>1, <1>2, <1>3 DEF Live, Superseded

LEMMA RemoveDead ==
  ASSUME SafeSetting, IInv, NEW t \in TxnIds, ~Live(t), Remove(t),
         UNCHANGED <<workspace, image, revision>>
  PROVE  DiskInv' /\ \A u \in TxnIds : Live(u)' <=> Live(u)
<1>1. \A u \in TxnIds : Live(u)' <=> Live(u)
  BY RemoveWhole DEF IInv
<1>2. \A u \in TxnIds : Live(u) => roots'[u] = roots[u]
  BY RemoveWhole DEF IInv
<1> QED BY <1>1, <1>2 DEF IInv, DiskInv, OneIsLive, LiveRestores, QuietIsSaved

LEMMA RemoveUndone ==
  ASSUME SafeSetting, IInv, NEW t \in TxnIds, Live(t), workspace = image, Remove(t),
         UNCHANGED <<workspace, image, revision>>
  PROVE  DiskInv' /\ \A u \in TxnIds : ~Live(u)'
<1>1. \A u \in TxnIds : ~Live(u)'
  BY RemoveWhole DEF IInv, DiskInv, OneIsLive
<1> QED BY <1>1 DEF DiskInv, OneIsLive, LiveRestores, QuietIsSaved

LEMMA CleanKeeps ==
  ASSUME SafeSetting, IInv, TypeOK', NEW p \in Threads, NEW t \in TxnIds, CleanCommitted(p, t)
  PROVE  IInv'
<1>1. ~Live(t)
  BY DEF CleanCommitted, Live
<1>2. DiskInv' /\ \A u \in TxnIds : Live(u)' <=> Live(u)
  BY <1>1, RemoveDead DEF CleanCommitted
<1>3. Holds(p, "recovering") /\ op.root = NoTxn
  BY DEF CleanCommitted, Visiting
<1>4. lockOwner' = p /\ pc' = pc /\ pc'[p] = "recovering"
  BY <1>3 DEF CleanCommitted, Holds
<1>5. \A q \in Threads : pc'[q] = "opened" => \A u \in TxnIds : ~Live(u)'
  BY <1>2, <1>3, <1>4, RecoveryIsQuiet
<1>6. op'.root = NoTxn /\ op'.toUndo = {} /\ op'.toVisit = op.toVisit \ {t}
  BY <1>3 DEF CleanCommitted, Holds, IInv, TypeOK, Ops, ControlInv, UndoneIsSaved
<1>7. \A u \in TxnIds : Live(u) => u \in op.toVisit
  BY <1>3, Sentinels DEF Holds, IInv, ControlInv, LiveIsInHand
<1>8. \A u \in TxnIds : Live(u)' => u \in op'.toVisit
  BY <1>1, <1>2, <1>6, <1>7
<1> QED BY <1>2, <1>4, <1>5, <1>6, <1>8, RecoveryStays DEF IInv

\* When the last record is undone the workspace is the saved tree.
LEMMA AllUndone ==
  ASSUME IInv, NEW p \in Threads,
         pc[p] = "rollingBack" \/ (pc[p] = "recovering" /\ op.root # NoTxn),
         op.toUndo = {}
  PROVE  op.root \in TxnIds /\ Live(op.root) /\ workspace = image
<1>1. op.root \in TxnIds
  BY DEF IInv, TypeOK, Ops, TransactionInHand, InTransaction
<1>2. Live(op.root) /\ \A f \in roots[op.root].captured : workspace[f] = image[f]
  BY DEF IInv, ControlInv, UndoneIsSaved
<1>3. \A f \in Paths : workspace[f] = image[f]
  BY <1>1, <1>2 DEF IInv, DiskInv, LiveRestores
<1>4. workspace = image
  BY <1>3 DEF IInv, TypeOK, Trees
<1> QED BY <1>1, <1>2, <1>4

LEMMA FinishUndoKeeps ==
  ASSUME SafeSetting, IInv, TypeOK', NEW p \in Threads, FinishUndo(p)
  PROVE  IInv'
<1>1. Holds(p, "recovering") /\ op.root # NoTxn /\ op.toUndo = {}
  BY DEF FinishUndo
<1>2. op.root \in TxnIds /\ Live(op.root) /\ workspace = image
  BY <1>1, AllUndone DEF Holds
<1>3. DiskInv' /\ \A u \in TxnIds : ~Live(u)'
  BY <1>2, RemoveUndone DEF FinishUndo
<1>4. lockOwner' = p /\ pc'[p] = "recovering"
  BY <1>1 DEF FinishUndo, Holds
<1>5. op'.root = NoTxn /\ op'.toUndo = {}
  BY <1>1 DEF FinishUndo, IInv, TypeOK, Ops
<1> QED BY <1>3, <1>4, <1>5, RecoveryStays DEF IInv

LEMMA OpenedKeeps ==
  ASSUME IInv, TypeOK', NEW p \in Threads, Opened(p) \/ Close(p)
  PROVE  IInv'
<1>1. DiskInv' /\ \A t \in TxnIds : Live(t)' <=> Live(t)
  BY DiskSame DEF Opened, Close
<1>2. CASE Opened(p)
  <2>1. \A t \in TxnIds : ~Live(t)
    BY <1>2, Sentinels DEF Opened, Holds, IInv, ControlInv, LiveIsInHand
  <2> QED BY <1>1, <1>2, <2>1, LeaveLockQuiet DEF Opened, Holds, IInv
<1>3. CASE Close(p)
  <2>1. /\ lockOwner' = lockOwner /\ op' = op /\ roots' = roots /\ workspace' = workspace
        /\ image' = image /\ revision' = revision
        /\ \A q \in Threads : pc'[q] = pc[q] \/ pc'[q] = "idle"
        /\ lockOwner # p
        /\ \A q \in Threads : q # p => pc'[q] = pc[q]
    BY <1>3 DEF Close, Goto, IInv, TypeOK, LockDiscipline, InsideLock
  <2>2. \A t \in TxnIds : InHand(t) => InHand(t)'
    BY <2>1 DEF InHand
  <2>3. LiveIsInHand'
    BY <1>1, <2>1, <2>2 DEF LiveIsInHand, IInv, ControlInv
  <2>4. (LoadedIsCurrent /\ WorkIsCovered /\ RecordsAgree /\ SavedIsDone /\ UndoneIsSaved)'
    BY <1>1, <2>1 DEF IInv, ControlInv, LoadedIsCurrent, WorkIsCovered, CoveredWork,
       RecordsAgree, AgreedRecords, SavedIsDone, UndoneIsSaved, Live, Superseded
  <2> QED BY <1>1, <2>3, <2>4 DEF IInv, ControlInv
<1> QED BY <1>2, <1>3

-----------------------------------------------------------------------------
(* The start of a mutation *)

\* The owner of the lock at a label where nothing is live and no transaction is
\* in hand.
LEMMA QuietOwner ==
  ASSUME TypeOK', NEW p \in Threads, lockOwner' = p, pc'[p] \in {"locked", "protected"},
         op'.loaded = revision', op'.captured = {}, op'.existed = {},
         \A t \in TxnIds : ~Live(t)'
  PROVE  ControlInv'
<1>1. \A q \in Threads : q # p => pc'[q] \in {"idle", "opened"}
  BY OthersOutsideNext
<1> QED BY <1>1 DEF ControlInv, LiveIsInHand, LoadedIsCurrent, WorkIsCovered, RecordsAgree,
           SavedIsDone, UndoneIsSaved

\* With nothing live and the workspace as saved, a new revision changes nothing.
LEMMA NothingLiveStays ==
  ASSUME TypeOK, \A t \in TxnIds : ~Live(t), workspace = image,
         UNCHANGED <<workspace, image, roots>>,
         revision' = revision \/ revision' = revision + 1
  PROVE  DiskInv' /\ \A t \in TxnIds : ~Live(t)'
<1>1. \A t \in TxnIds : ~Live(t)'
  BY DEF Live, Superseded, TypeOK, Roots
<1> QED BY <1>1 DEF DiskInv, OneIsLive, LiveRestores, QuietIsSaved

LEMMA LockKeeps ==
  ASSUME IInv, TypeOK', NEW p \in Threads, Lock(p)
  PROVE  IInv'
<1>1. \A t \in TxnIds : ~Live(t)
  BY NothingLive DEF Lock
<1>2. DiskInv' /\ \A t \in TxnIds : ~Live(t)'
  BY <1>1, DiskSame DEF Lock
<1>3. /\ lockOwner' = p /\ pc'[p] = "locked" /\ op'.loaded = revision'
      /\ op'.captured = {} /\ op'.existed = {}
  BY DEF Lock, Goto, NoOp, IInv, TypeOK
<1> QED BY <1>2, <1>3, QuietOwner DEF IInv

\* What the owner knows before its mutation begins.
LEMMA BeforeBegin ==
  ASSUME IInv, NEW p \in Threads, Holds(p, "locked") \/ Holds(p, "protected")
  PROVE  /\ lockOwner = p
         /\ \A t \in TxnIds : ~Live(t)
         /\ workspace = image
         /\ op.loaded = revision /\ op.captured = {} /\ op.existed = {}
<1>1. lockOwner = p /\ pc[p] \in {"locked", "protected"}
  BY DEF Holds
<1>2. (\A t \in TxnIds : ~Live(t)) /\ workspace = image
  BY <1>1, NothingLive DEF InTransaction
<1> QED BY <1>1, <1>2 DEF IInv, ControlInv, LoadedIsCurrent

LEMMA RefuseKeeps ==
  ASSUME IInv, TypeOK', NEW p \in Threads, Refuse(p)
  PROVE  IInv'
<1>1. lockOwner = p /\ \A t \in TxnIds : ~Live(t)
  BY BeforeBegin DEF Refuse
<1>2. DiskInv' /\ \A t \in TxnIds : ~Live(t)'
  BY <1>1, DiskSame DEF Refuse
<1> QED BY <1>1, <1>2, LeaveLockQuiet DEF Refuse, IInv

LEMMA SnapshotKeeps ==
  ASSUME IInv, TypeOK', NEW p \in Threads, Snapshot(p) \/ SafetySnapshot(p)
  PROVE  IInv'
<1>1. /\ lockOwner = p /\ (\A t \in TxnIds : ~Live(t)) /\ workspace = image
      /\ op.captured = {} /\ op.existed = {}
  BY BeforeBegin DEF Snapshot, SafetySnapshot
<1>2. DiskInv' /\ \A t \in TxnIds : ~Live(t)'
  BY <1>1, NothingLiveStays DEF Snapshot, SafetySnapshot, AppendSnapshot, IInv
<1>3. CASE Snapshot(p)
  BY <1>1, <1>2, <1>3, LeaveLockQuiet DEF Snapshot, IInv
<1>4. CASE SafetySnapshot(p)
  <2>1. /\ lockOwner' = p /\ pc'[p] = "protected" /\ op'.loaded = revision'
        /\ op'.captured = {} /\ op'.existed = {}
    BY <1>1, <1>4 DEF SafetySnapshot, Goto, IInv, TypeOK, Ops
  <2> QED BY <1>2, <2>1, QuietOwner DEF IInv
<1> QED BY <1>3, <1>4

LEMMA BeginFailsKeeps ==
  ASSUME IInv, TypeOK', NEW p \in Threads, BeginFails(p)
  PROVE  IInv'
<1>1. lockOwner = p /\ (\A t \in TxnIds : ~Live(t)) /\ workspace = image
  BY BeforeBegin DEF BeginFails
<1>2. \A t \in TxnIds : ~Live(t)'
  <2> SUFFICES ASSUME NEW t \in TxnIds PROVE ~Live(t)'
    OBVIOUS
  <2>1. roots'[t] = roots[t] \/ roots'[t] = UnreadableRoot
    BY DEF BeginFails, IInv, TypeOK
  <2> QED BY <1>1, <2>1 DEF BeginFails, Live, Superseded, UnreadableRoot
<1>3. DiskInv'
  BY <1>1, <1>2 DEF BeginFails, DiskInv, OneIsLive, LiveRestores, QuietIsSaved
<1> QED BY <1>1, <1>2, <1>3, LeaveLockQuiet DEF BeginFails, IInv

\* A plan that captures whatever it changes, and changes nothing else.
CoveringPlan(plan) ==
  /\ plan.kind # "restore"
  /\ plan.toClear \cup plan.toPut \subseteq plan.toCapture
  /\ plan.toClear \cap plan.toPut = {}
  /\ \A f \in plan.toClear : plan.target[f] = Absent
  /\ \A f \in Paths : f \notin plan.toClear \cup plan.toPut => workspace[f] = plan.target[f]

\* The fields of the work in hand after its start.
LEMMA BeginFields ==
  ASSUME IInv, NEW p \in Threads, Holds(p, "locked") \/ Holds(p, "protected"),
         NEW plan, Begin(p, plan)
  PROVE  /\ op'.captured = op.captured /\ op'.existed = op.existed /\ op'.loaded = op.loaded
         /\ op'.toUndo = op.toUndo
         /\ op'.kind = plan.kind /\ op'.toCapture = plan.toCapture
         /\ op'.toClear = plan.toClear /\ op'.toPut = plan.toPut /\ op'.target = plan.target
         /\ op'.root \in TxnIds
         /\ roots' = [roots EXCEPT ![op'.root] =
                        [journal |-> "pending", before |-> op.loaded, captured |-> {},
                         backups |-> EmptyTree]]
BY DEF Begin, IInv, TypeOK, Ops

LEMMA BeginKeeps ==
  ASSUME IInv, TypeOK', NEW p \in Threads, Holds(p, "locked") \/ Holds(p, "protected"),
         NEW plan, CoveringPlan(plan), Begin(p, plan)
  PROVE  IInv'
<1>1. /\ lockOwner = p /\ (\A t \in TxnIds : ~Live(t)) /\ workspace = image
      /\ op.loaded = revision /\ op.captured = {} /\ op.existed = {}
  BY BeforeBegin
<1>2. PICK t \in TxnIds :
        /\ op'.root = t
        /\ roots'[t] = [journal |-> "pending", before |-> revision, captured |-> {},
                        backups |-> EmptyTree]
        /\ \A u \in TxnIds : u # t => roots'[u] = roots[u]
  BY <1>1, BeginFields DEF IInv, TypeOK
<1>3. UNCHANGED <<workspace, image, revision, lockOwner>> /\ revision \in Nat
  BY DEF Begin, IInv, TypeOK
<1>4. Live(t)'
  BY <1>2, <1>3 DEF Live, Superseded
<1>5. \A u \in TxnIds : u # t => ~Live(u)'
  BY <1>1, <1>2, <1>3 DEF Live, Superseded
<1>6. DiskInv'
  BY <1>1, <1>2, <1>3, <1>4, <1>5 DEF DiskInv, OneIsLive, LiveRestores, QuietIsSaved
<1>7. pc'[p] = "working" /\ lockOwner' = p
  BY <1>1 DEF Begin, Goto, IInv, TypeOK
<1>8. \A q \in Threads : q # p => pc'[q] \in {"idle", "opened"}
  BY <1>7, OthersOutsideNext
<1>9. LiveIsInHand'
  BY <1>2, <1>5, <1>7, <1>8 DEF LiveIsInHand, InHand, InTransaction
<1>10. LoadedIsCurrent'
  BY <1>1, <1>3, <1>7, <1>8, BeginFields DEF LoadedIsCurrent
<1>11. WorkIsCovered'
  <2>1. Live(op.root)'
    BY <1>2, <1>4 DEF Live, Superseded
  <2>2. roots'[op'.root].before = op'.loaded
    BY <1>1, <1>2, BeginFields
  <2>3. /\ op'.kind # "restore" /\ op'.captured = {}
        /\ op'.toClear \cup op'.toPut \subseteq op'.toCapture
        /\ op'.toClear \cap op'.toPut = {}
        /\ \A f \in op'.toClear : op'.target[f] = Absent
        /\ \A f \in Paths : f \notin op'.toClear \cup op'.toPut => workspace'[f] = op'.target[f]
    BY <1>1, <1>3, BeginFields DEF CoveringPlan
  <2> QED BY <1>7, <1>8, <2>1, <2>2, <2>3 DEF WorkIsCovered, CoveredWork
<1>12. RecordsAgree'
  BY <1>1, <1>2, <1>7, <1>8, BeginFields DEF RecordsAgree, AgreedRecords
<1>13. (SavedIsDone /\ UndoneIsSaved)'
  BY <1>7, <1>8 DEF SavedIsDone, UndoneIsSaved
<1> QED BY <1>6, <1>9, <1>10, <1>11, <1>12, <1>13 DEF IInv, ControlInv

LEMMA BeginMutationKeeps ==
  ASSUME SafeSetting, IInv, TypeOK', NEW p \in Threads, BeginMutation(p)
  PROVE  IInv'
<1>1. CASE BeginWrite(p)
  <2>1. PICK f \in Paths, c \in Contents :
          Begin(p, [kind |-> "write", toCapture |-> {f}, toClear |-> {}, toPut |-> {f},
                    target |-> [workspace EXCEPT ![f] = c]])
    BY <1>1 DEF BeginWrite
  <2>2. CoveringPlan([kind |-> "write", toCapture |-> {f}, toClear |-> {}, toPut |-> {f},
                      target |-> [workspace EXCEPT ![f] = c]])
    BY DEF CoveringPlan, IInv, TypeOK, Trees
  <2> QED BY <1>1, <2>1, <2>2, BeginKeeps DEF BeginWrite
<1>2. CASE BeginRename(p)
  <2>1. PICK f \in Existing(workspace), g \in Paths \ Existing(workspace) :
          Begin(p, [kind |-> "rename", toCapture |-> {f, g}, toClear |-> {}, toPut |-> {f, g},
                    target |-> [workspace EXCEPT ![f] = Absent, ![g] = workspace[f]]])
    BY <1>2 DEF BeginRename
  <2>2. CoveringPlan([kind |-> "rename", toCapture |-> {f, g}, toClear |-> {},
                      toPut |-> {f, g},
                      target |-> [workspace EXCEPT ![f] = Absent, ![g] = workspace[f]]])
    BY DEF CoveringPlan, IInv, TypeOK, Trees
  <2> QED BY <1>2, <2>1, <2>2, BeginKeeps DEF BeginRename
<1>3. CASE BeginDelete(p)
  <2>1. PICK f \in Existing(workspace) :
          Begin(p, [kind |-> "delete", toCapture |-> {f}, toClear |-> {f}, toPut |-> {},
                    target |-> [workspace EXCEPT ![f] = Absent]])
    BY <1>3 DEF BeginDelete
  <2>2. CoveringPlan([kind |-> "delete", toCapture |-> {f}, toClear |-> {f}, toPut |-> {},
                      target |-> [workspace EXCEPT ![f] = Absent]])
    BY DEF CoveringPlan, IInv, TypeOK, Trees, Existing
  <2> QED BY <1>3, <2>1, <2>2, BeginKeeps DEF BeginDelete
<1>4. CASE BeginMerge(p)
  <2>1. PICK S \in (SUBSET Paths) \ {{}} : \E new \in [S -> Contents \cup {Absent}] :
          Begin(p, [kind |-> "merge", toCapture |-> S, toClear |-> {}, toPut |-> S,
                    target |-> [f \in Paths |-> IF f \in S THEN new[f] ELSE workspace[f]]])
    BY <1>4 DEF BeginMerge
  <2>2. PICK new \in [S -> Contents \cup {Absent}] :
          Begin(p, [kind |-> "merge", toCapture |-> S, toClear |-> {}, toPut |-> S,
                    target |-> [f \in Paths |-> IF f \in S THEN new[f] ELSE workspace[f]]])
    BY <2>1
  <2>3. CoveringPlan([kind |-> "merge", toCapture |-> S, toClear |-> {}, toPut |-> S,
                      target |-> [f \in Paths |-> IF f \in S THEN new[f] ELSE workspace[f]]])
    BY DEF CoveringPlan
  <2> QED BY <1>4, <2>2, <2>3, BeginKeeps DEF BeginMerge
<1>5. CASE BeginImport(p)
  <2>1. PICK new \in [imports[p].paths -> Contents] :
          Begin(p, [kind |-> "import", toCapture |-> imports[p].paths, toClear |-> {},
                    toPut |-> imports[p].paths,
                    target |-> [f \in Paths |-> IF f \in imports[p].paths THEN new[f]
                                                                      ELSE workspace[f]]])
    BY <1>5 DEF BeginImport
  <2>2. CoveringPlan([kind |-> "import", toCapture |-> imports[p].paths, toClear |-> {},
                      toPut |-> imports[p].paths,
                      target |-> [f \in Paths |-> IF f \in imports[p].paths THEN new[f]
                                                                        ELSE workspace[f]]])
    BY DEF CoveringPlan
  <2>3. Holds(p, "locked") \/ Holds(p, "protected")
    BY <1>5 DEF BeginImport, Holds
  <2> QED BY <2>1, <2>2, <2>3, BeginKeeps
<1>6. CASE BeginRestore(p)
  BY <1>6 DEF BeginRestore, Begin, SafeSetting
<1> QED BY <1>1, <1>2, <1>3, <1>4, <1>5, <1>6 DEF BeginMutation

-----------------------------------------------------------------------------
(* The body of a mutation *)

\* What the owner knows while its mutation works.
LEMMA AtWork ==
  ASSUME IInv, NEW p \in Threads, Holds(p, "working")
  PROVE  /\ lockOwner = p /\ op.root \in TxnIds /\ op.loaded = revision
         /\ CoveredWork /\ AgreedRecords
BY DEF Holds, IInv, TypeOK, TransactionInHand, InTransaction, Ops, ControlInv, LoadedIsCurrent,
   WorkIsCovered, RecordsAgree

\* Steps of a mutation that goes on.
LEMMA WorkingStays ==
  ASSUME TypeOK', NEW p \in Threads, lockOwner' = p, pc'[p] = "working",
         op'.loaded = revision', CoveredWork', AgreedRecords', OneIsLive'
  PROVE  ControlInv'
<1>1. \A q \in Threads : q # p => pc'[q] \in {"idle", "opened"}
  BY OthersOutsideNext
<1>2. op'.root \in TxnIds
  BY DEF TypeOK, TransactionInHand, InTransaction
<1>3. Live(op.root)'
  BY DEF CoveredWork
<1>4. \A t \in TxnIds : Live(t)' => t = op'.root
  BY <1>2, <1>3 DEF OneIsLive, Live
<1>5. LiveIsInHand'
  BY <1>1, <1>4 DEF LiveIsInHand, InHand, InTransaction
<1>6. (LoadedIsCurrent /\ WorkIsCovered /\ RecordsAgree /\ SavedIsDone /\ UndoneIsSaved)'
  BY <1>1 DEF LoadedIsCurrent, WorkIsCovered, RecordsAgree, SavedIsDone, UndoneIsSaved
<1> QED BY <1>5, <1>6 DEF ControlInv

LEMMA CaptureKeeps ==
  ASSUME IInv, TypeOK', NEW p \in Threads, NEW f \in Paths, Capture(p, f)
  PROVE  IInv'
<1>1. /\ lockOwner = p /\ op.root \in TxnIds /\ op.loaded = revision
      /\ CoveredWork /\ AgreedRecords
  BY AtWork DEF Capture
<1>2. PICK t \in TxnIds :
        /\ op.root = t /\ op'.root = t
        /\ roots'[t].captured = roots[t].captured \cup {f}
        /\ roots'[t].backups = [roots[t].backups EXCEPT ![f] = workspace[f]]
        /\ roots'[t].journal = roots[t].journal /\ roots'[t].before = roots[t].before
        /\ \A u \in TxnIds : u # t => roots'[u] = roots[u]
  BY <1>1 DEF Capture, IInv, TypeOK, Roots, Ops
<1>3. /\ op'.captured = op.captured \cup {f} /\ op'.toCapture = op.toCapture \ {f}
      /\ op'.existed = IF workspace[f] = Absent THEN op.existed ELSE op.existed \cup {f}
      /\ op'.loaded = op.loaded /\ op'.kind = op.kind
      /\ op'.toClear = op.toClear /\ op'.toPut = op.toPut /\ op'.target = op.target
  BY DEF Capture, IInv, TypeOK, Ops
<1>4. UNCHANGED <<workspace, image, revision, lockOwner, pc>>
  BY DEF Capture
<1>5. /\ roots'[t].backups[f] = workspace[f]
      /\ \A g \in Paths : g # f => roots'[t].backups[g] = roots[t].backups[g]
  BY <1>2 DEF IInv, TypeOK, Roots, Trees
<1>6. \A u \in TxnIds : Live(u)' <=> Live(u)
  BY <1>2, <1>4 DEF Live, Superseded
<1>7. Live(t) /\ f \notin roots[t].captured
  BY <1>1, <1>2 DEF CoveredWork, AgreedRecords, Capture
<1>8. OneIsLive'
  BY <1>6 DEF OneIsLive, IInv, DiskInv
<1>9. \A u \in TxnIds : Live(u) => u = t
  BY <1>7 DEF IInv, DiskInv, OneIsLive
<1>10. LiveRestores'
  <2> SUFFICES ASSUME NEW g \in Paths
               PROVE  IF g \in roots'[t].captured THEN roots'[t].backups[g] = image'[g]
                                                  ELSE workspace'[g] = image'[g]
    BY <1>6, <1>9 DEF LiveRestores
  <2>1. IF g \in roots[t].captured THEN roots[t].backups[g] = image[g]
                                   ELSE workspace[g] = image[g]
    BY <1>7 DEF IInv, DiskInv, LiveRestores
  <2> QED BY <1>2, <1>4, <1>5, <1>7, <2>1
<1>11. QuietIsSaved'
  BY <1>6, <1>7 DEF QuietIsSaved
<1>12. CoveredWork'
  <2>1. Live(op.root)'
    BY <1>2, <1>6, <1>7 DEF Live, Superseded
  <2> QED BY <1>1, <1>2, <1>3, <1>4, <2>1, ZenonT(60) DEF CoveredWork, Capture
<1>13. AgreedRecords'
  <2>1. roots'[op'.root].captured = op'.captured
    BY <1>1, <1>2, <1>3 DEF AgreedRecords
  <2>2. ASSUME NEW g \in op'.existed PROVE roots'[t].backups[g] # Absent
    <3>1. g \in Paths
      BY DEF TypeOK, Ops
    <3>2. CASE g = f
      BY <1>3, <1>5, <1>7, <1>1, <1>2, <3>2, <2>2 DEF AgreedRecords
    <3>3. CASE g # f
      <4>1. g \in op.existed
        BY <1>3, <3>3
      <4> QED BY <1>1, <1>2, <1>5, <3>1, <3>3, <4>1 DEF AgreedRecords
    <3> QED BY <3>2, <3>3
  <2>3. op'.existed \subseteq op'.captured
    BY <1>1, <1>3 DEF AgreedRecords
  <2> QED BY <1>2, <2>1, <2>2, <2>3 DEF AgreedRecords
<1>14. ControlInv'
  BY <1>1, <1>3, <1>4, <1>8, <1>12, <1>13, WorkingStays DEF Capture, Holds
<1> QED BY <1>8, <1>10, <1>11, <1>14 DEF IInv, DiskInv

\* Changing captured paths of the live journal leaves it as good as it was.
LEMMA DiskCovered ==
  ASSUME IInv, NEW t \in TxnIds, Live(t), UNCHANGED <<image, revision, roots>>,
         \A f \in Paths : f \notin roots[t].captured => workspace'[f] = workspace[f]
  PROVE  DiskInv' /\ \A u \in TxnIds : Live(u)' <=> Live(u)
<1>1. \A u \in TxnIds : Live(u)' <=> Live(u)
  BY DEF Live, Superseded
<1>2. \A u \in TxnIds : Live(u) => u = t
  BY DEF IInv, DiskInv, OneIsLive
<1>3. OneIsLive' /\ QuietIsSaved'
  BY <1>1, <1>2 DEF OneIsLive, QuietIsSaved
<1>4. LiveRestores'
  BY <1>1, <1>2 DEF IInv, DiskInv, LiveRestores
<1> QED BY <1>1, <1>3, <1>4 DEF DiskInv

\* Steps of a mutation that change a captured path.
LEMMA ChangeKeeps ==
  ASSUME IInv, TypeOK', NEW p \in Threads, Holds(p, "working"),
         UNCHANGED <<image, revision, roots, lockOwner, pc>>,
         \A f \in Paths : f \notin op.captured => workspace'[f] = workspace[f],
         op'.root = op.root, op'.loaded = op.loaded, op'.kind = op.kind,
         op'.captured = op.captured, op'.existed = op.existed,
         op'.toCapture = op.toCapture, op'.target = op.target,
         op'.toClear \subseteq op.toClear, op'.toPut \subseteq op.toPut,
         \A f \in Paths : f \notin op'.toClear \cup op'.toPut => workspace'[f] = op'.target[f]
  PROVE  IInv'
<1>1. /\ lockOwner = p /\ op.root \in TxnIds /\ op.loaded = revision
      /\ CoveredWork /\ AgreedRecords
  BY AtWork
<1>2. Live(op.root)
  BY <1>1 DEF CoveredWork
<1>3. DiskInv' /\ \A u \in TxnIds : Live(u)' <=> Live(u)
  BY <1>1, <1>2, DiskCovered DEF AgreedRecords
<1>4. Live(op.root)'
  BY <1>2 DEF Live, Superseded
<1>5. CoveredWork'
  BY <1>1, <1>4 DEF CoveredWork
<1>6. AgreedRecords'
  BY <1>1 DEF AgreedRecords
<1>7. ControlInv'
  BY <1>1, <1>3, <1>5, <1>6, WorkingStays DEF Holds, DiskInv
<1> QED BY <1>3, <1>7 DEF IInv

LEMMA ClearOrPutKeeps ==
  ASSUME IInv, TypeOK', NEW p \in Threads, NEW f \in Paths, Clear(p, f) \/ Put(p, f)
  PROVE  IInv'
<1>1. Holds(p, "working") /\ UNCHANGED <<image, revision, roots, lockOwner, pc>>
  BY DEF Clear, Put
<1>2. CoveredWork
  BY <1>1, AtWork
<1>3. /\ op'.root = op.root /\ op'.loaded = op.loaded /\ op'.kind = op.kind
      /\ op'.captured = op.captured /\ op'.existed = op.existed
      /\ op'.toCapture = op.toCapture /\ op'.target = op.target
      /\ op'.toClear \subseteq op.toClear /\ op'.toPut \subseteq op.toPut
  BY DEF Clear, Put, IInv, TypeOK, Ops
<1>4. /\ f \in op.captured
      /\ \A g \in Paths : g # f => workspace'[g] = workspace[g]
      /\ workspace'[f] = op.target[f]
      /\ op'.toClear \cup op'.toPut = (op.toClear \cup op.toPut) \ {f}
  <2>1. CASE Clear(p, f)
    BY <1>2, <2>1 DEF Clear, CoveredWork, IInv, TypeOK, Ops, Trees
  <2>2. CASE Put(p, f)
    BY <1>2, <2>2 DEF Put, MayPut, CoveredWork, IInv, TypeOK, Ops, Trees
  <2> QED BY <2>1, <2>2
<1>5. \A g \in Paths : g \notin op.captured => workspace'[g] = workspace[g]
  BY <1>4
<1>6. \A g \in Paths : g \notin op'.toClear \cup op'.toPut => workspace'[g] = op'.target[g]
  BY <1>2, <1>3, <1>4 DEF CoveredWork
<1> QED BY <1>1, <1>3, <1>5, <1>6, ChangeKeeps

LEMMA MoveKeeps ==
  ASSUME IInv, TypeOK', NEW p \in Threads, Move(p)
  PROVE  IInv'
<1>1. Holds(p, "working") /\ UNCHANGED <<image, revision, roots, lockOwner, pc>>
  BY DEF Move
<1>2. CoveredWork
  BY <1>1, AtWork
<1>3. /\ op'.root = op.root /\ op'.loaded = op.loaded /\ op'.kind = op.kind
      /\ op'.captured = op.captured /\ op'.existed = op.existed
      /\ op'.toCapture = op.toCapture /\ op'.target = op.target
      /\ op'.toClear \subseteq op.toClear /\ op'.toPut \subseteq op.toPut
      /\ workspace' = op.target
  BY DEF Move, IInv, TypeOK, Ops
<1>4. \A g \in Paths : g \notin op.captured => workspace'[g] = workspace[g]
  BY <1>2, <1>3 DEF Move, CoveredWork
<1> QED BY <1>1, <1>3, <1>4, ChangeKeeps

\* Steps after the save.
LEMMA DoneStays ==
  ASSUME TypeOK', NEW p \in Threads, lockOwner' = p,
         pc'[p] \in {"saved", "committed", "returning"}, \A t \in TxnIds : ~Live(t)'
  PROVE  ControlInv'
<1>1. \A q \in Threads : q # p => pc'[q] \in {"idle", "opened"}
  BY OthersOutsideNext
<1>2. op'.root \in TxnIds
  BY DEF TypeOK, TransactionInHand, InTransaction
<1>3. ~Live(op.root)'
  BY <1>2 DEF Live, Superseded
<1> QED BY <1>1, <1>3 DEF ControlInv, LiveIsInHand, LoadedIsCurrent, WorkIsCovered, RecordsAgree,
           SavedIsDone, UndoneIsSaved

LEMMA AfterSave ==
  ASSUME IInv, NEW p \in Threads,
         Holds(p, "saved") \/ Holds(p, "committed") \/ Holds(p, "returning")
  PROVE  /\ lockOwner = p /\ op.root \in TxnIds
         /\ \A t \in TxnIds : ~Live(t)
         /\ workspace = image
<1>1. lockOwner = p /\ pc[p] \in {"saved", "committed", "returning"}
  BY DEF Holds
<1>2. op.root \in TxnIds
  BY <1>1 DEF IInv, TypeOK, TransactionInHand, InTransaction
<1>3. ~Live(op.root)
  BY <1>1 DEF IInv, ControlInv, SavedIsDone
<1>4. \A t \in TxnIds : ~Live(t)
  BY <1>1, <1>3 DEF IInv, ControlInv, LiveIsInHand, InHand
<1>5. workspace = image
  BY <1>4 DEF IInv, DiskInv, QuietIsSaved
<1> QED BY <1>1, <1>2, <1>4, <1>5

LEMMA SaveKeeps ==
  ASSUME IInv, TypeOK', NEW p \in Threads, Save(p)
  PROVE  IInv'
<1>1. /\ lockOwner = p /\ op.root \in TxnIds /\ op.loaded = revision
      /\ CoveredWork
  BY AtWork DEF Save
<1>2. roots[op.root].before = revision /\ revision \in Nat
  BY <1>1 DEF CoveredWork, IInv, TypeOK
<1>3. \A t \in TxnIds : t # op.root => ~Live(t)
  BY <1>1 DEF IInv, DiskInv, OneIsLive, CoveredWork
<1>4. revision' = revision + 1 /\ UNCHANGED <<workspace, roots, lockOwner>>
  BY DEF Save
<1>5. \A t \in TxnIds : roots[t].before \in Nat
  BY DEF IInv, TypeOK, Roots
<1>6. \A t \in TxnIds : ~Live(t)'
  <2> SUFFICES ASSUME NEW t \in TxnIds PROVE ~Live(t)'
    OBVIOUS
  <2>1. CASE t = op.root
    BY <1>2, <1>4, <2>1 DEF Live, Superseded
  <2>2. CASE t # op.root
    BY <1>2, <1>3, <1>4, <1>5, <2>2 DEF Live, Superseded
  <2> QED BY <2>1, <2>2
<1>7. workspace' = image'
  <2>1. \A f \in Paths : workspace[f] = op.target[f]
    BY <1>1 DEF CoveredWork, Save
  <2>2. workspace = op.target
    BY <2>1 DEF IInv, TypeOK, Ops, Trees
  <2> QED BY <2>2 DEF Save
<1>8. DiskInv'
  BY <1>6, <1>7 DEF DiskInv, OneIsLive, LiveRestores, QuietIsSaved
<1>9. pc'[p] = "saved" /\ lockOwner' = p
  BY <1>1 DEF Save, Goto, IInv, TypeOK
<1>10. ControlInv'
  BY <1>6, <1>9, DoneStays
<1> QED BY <1>8, <1>10 DEF IInv

LEMMA CommitKeeps ==
  ASSUME SafeSetting, IInv, TypeOK', NEW p \in Threads, Commit(p) \/ Cleanup(p)
  PROVE  IInv'
<1>1. /\ lockOwner = p /\ op.root \in TxnIds /\ workspace = image
      /\ \A t \in TxnIds : ~Live(t)
  BY AfterSave DEF Commit, Cleanup
<1>2. pc'[p] \in {"committed", "returning"} /\ lockOwner' = p
  BY <1>1 DEF Commit, Cleanup, Goto, IInv, TypeOK
<1>3. DiskInv' /\ \A t \in TxnIds : ~Live(t)'
  <2>1. CASE Commit(p)
    <3>1. \A t \in TxnIds : roots'[t] = roots[t] \/ roots'[t].journal = "committed"
      BY <1>1, <2>1 DEF Commit, IInv, TypeOK, Roots
    <3>2. \A t \in TxnIds : ~Live(t)'
      BY <1>1, <2>1, <3>1 DEF Commit, Live, Superseded
    <3> QED BY <1>1, <2>1, <3>2 DEF Commit, DiskInv, OneIsLive, LiveRestores, QuietIsSaved
  <2>2. CASE Cleanup(p)
    BY <1>1, <2>2, RemoveDead DEF Cleanup
  <2> QED BY <2>1, <2>2
<1>4. ControlInv'
  BY <1>2, <1>3, DoneStays
<1> QED BY <1>3, <1>4 DEF IInv

LEMMA ReturnKeeps ==
  ASSUME IInv, TypeOK', NEW p \in Threads, Return(p)
  PROVE  IInv'
<1>1. lockOwner = p /\ \A t \in TxnIds : ~Live(t)
  BY AfterSave DEF Return
<1>2. DiskInv' /\ \A t \in TxnIds : ~Live(t)'
  BY <1>1, DiskSame DEF Return
<1> QED BY <1>1, <1>2, LeaveLockQuiet DEF Return, IInv

-----------------------------------------------------------------------------
(* Failures, rollback and crashes *)

\* Steps of a rollback that has records to undo, or has just undone the last.
LEMMA UndoingStays ==
  ASSUME TypeOK', NEW p \in Threads, lockOwner' = p, pc'[p] = "rollingBack",
         OneIsLive', Live(op.root)', AgreedRecords',
         op'.toUndo \subseteq roots'[op'.root].captured,
         \A f \in roots'[op'.root].captured \ op'.toUndo : workspace'[f] = image'[f]
  PROVE  ControlInv'
<1>1. \A q \in Threads : q # p => pc'[q] \in {"idle", "opened"}
  BY OthersOutsideNext
<1>2. op'.root \in TxnIds
  BY DEF TypeOK, TransactionInHand, InTransaction
<1>3. \A t \in TxnIds : Live(t)' => t = op'.root
  BY <1>2 DEF OneIsLive, Live
<1>4. LiveIsInHand'
  BY <1>1, <1>3 DEF LiveIsInHand, InHand, InTransaction
<1>5. (LoadedIsCurrent /\ WorkIsCovered /\ RecordsAgree /\ SavedIsDone)'
  BY <1>1 DEF LoadedIsCurrent, WorkIsCovered, RecordsAgree, SavedIsDone
<1>6. UndoneIsSaved'
  BY <1>1 DEF UndoneIsSaved
<1> QED BY <1>4, <1>5, <1>6 DEF ControlInv

LEMMA FailKeeps ==
  ASSUME SafeSetting, IInv, TypeOK', NEW p \in Threads, Fail(p)
  PROVE  IInv'
<1>1. Holds(p, "working")
  BY DEF Fail, CanFault, SafeSetting
<1>2. lockOwner = p /\ op.root \in TxnIds /\ CoveredWork /\ AgreedRecords
  BY <1>1, AtWork
<1>3. /\ op'.root = op.root /\ op'.captured = op.captured /\ op'.existed = op.existed
      /\ op'.toUndo = op.captured
  BY DEF Fail, IInv, TypeOK, Ops
<1>4. UNCHANGED <<workspace, image, revision, roots, lockOwner>>
  BY DEF Fail
<1>5. DiskInv' /\ Live(op.root)'
  <2>1. DiskInv'
    BY <1>4, DiskSame
  <2>2. Live(op.root)'
    BY <1>2, <1>3, <1>4 DEF CoveredWork, Live, Superseded
  <2> QED BY <2>1, <2>2
<1>6. AgreedRecords'
  BY <1>2, <1>3, <1>4 DEF AgreedRecords
<1>7. op'.toUndo = roots'[op'.root].captured
  BY <1>2, <1>3, <1>4 DEF AgreedRecords
<1>8. pc'[p] = "rollingBack" /\ lockOwner' = p
  BY <1>2 DEF Fail, Goto, IInv, TypeOK
<1>9. ControlInv'
  BY <1>5, <1>6, <1>7, <1>8, UndoingStays DEF DiskInv
<1> QED BY <1>5, <1>9 DEF IInv

\* What is known of the journal being undone.
LEMMA AtUndo ==
  ASSUME IInv, NEW p \in Threads,
         \/ Holds(p, "recovering") /\ op.toUndo # {}
         \/ Holds(p, "rollingBack")
  PROVE  /\ lockOwner = p /\ op.root \in TxnIds /\ op.root # NoTxn
         /\ Live(op.root)
         /\ op.toUndo \subseteq roots[op.root].captured
         /\ \A f \in roots[op.root].captured \ op.toUndo : workspace[f] = image[f]
         /\ pc[p] = "rollingBack" => AgreedRecords
<1>1. lockOwner = p /\ (pc[p] = "rollingBack" \/ (pc[p] = "recovering" /\ op.toUndo # {}))
  BY DEF Holds
<1>2. op.root \in TxnIds /\ op.root # NoTxn
  BY <1>1, Sentinels DEF IInv, TypeOK, TransactionInHand, InTransaction
<1> QED BY <1>1, <1>2 DEF IInv, ControlInv, UndoneIsSaved, RecordsAgree

\* Steps of an undo that change the workspace at a record still to be undone,
\* and may have undone it.
LEMMA UndoStepKeeps ==
  ASSUME IInv, TypeOK', NEW p \in Threads,
         \/ Holds(p, "recovering") /\ op.toUndo # {}
         \/ Holds(p, "rollingBack"),
         NEW f \in op.toUndo,
         UNCHANGED <<image, revision, roots, lockOwner, pc>>,
         \A g \in Paths : g # f => workspace'[g] = workspace[g],
         op'.root = op.root, op'.captured = op.captured, op'.existed = op.existed,
         op'.toVisit = op.toVisit,
         \/ op'.toUndo = op.toUndo
         \/ op'.toUndo = op.toUndo \ {f} /\ workspace'[f] = roots[op.root].backups[f]
  PROVE  IInv'
<1>1. /\ lockOwner = p /\ op.root \in TxnIds /\ op.root # NoTxn
      /\ Live(op.root)
      /\ op.toUndo \subseteq roots[op.root].captured
      /\ \A g \in roots[op.root].captured \ op.toUndo : workspace[g] = image[g]
      /\ pc[p] = "rollingBack" => AgreedRecords
  BY AtUndo
<1>2. DiskInv' /\ \A u \in TxnIds : Live(u)' <=> Live(u)
  BY <1>1, DiskCovered
<1>3. Live(op.root)'
  BY <1>1 DEF Live, Superseded
<1>4. f \in Paths /\ roots[op.root].captured \subseteq Paths
  BY DEF IInv, TypeOK, Ops, Roots, TransactionInHand
<1>5. roots[op.root].backups[f] = image[f]
  BY <1>1, <1>4 DEF IInv, DiskInv, LiveRestores
<1>6. /\ op'.toUndo \subseteq roots'[op'.root].captured
      /\ \A g \in roots'[op'.root].captured \ op'.toUndo : workspace'[g] = image'[g]
  BY <1>1, <1>4, <1>5
<1>7. CASE Holds(p, "rollingBack")
  <2>1. AgreedRecords'
    BY <1>1, <1>7 DEF AgreedRecords, Holds
  <2>2. pc'[p] = "rollingBack" /\ lockOwner' = p
    BY <1>7 DEF Holds
  <2>3. ControlInv'
    BY <1>2, <1>3, <1>6, <2>1, <2>2, UndoingStays DEF DiskInv
  <2> QED BY <1>2, <2>3 DEF IInv
<1>8. CASE Holds(p, "recovering")
  <2>1. pc'[p] = "recovering" /\ lockOwner' = p /\ pc' = pc
    BY <1>8 DEF Holds
  <2>2. \A q \in Threads : pc'[q] = "opened" => \A t \in TxnIds : ~Live(t)'
    BY <1>2, <1>8, <2>1, RecoveryIsQuiet
  <2>3. \A t \in TxnIds : Live(t)' => t = op'.root
    BY <1>1, <1>2 DEF IInv, DiskInv, OneIsLive
  <2>4. op'.root # NoTxn
    BY <1>1
  <2>5. ControlInv'
    BY <1>3, <1>6, <2>1, <2>2, <2>3, <2>4, RecoveryStays
  <2> QED BY <1>2, <2>5 DEF IInv
<1> QED BY <1>7, <1>8

LEMMA UndoRecordKeeps ==
  ASSUME IInv, TypeOK', NEW p \in Threads, NEW f \in Paths, UndoRecord(p, f)
  PROVE  IInv'
<1>1. \/ Holds(p, "recovering") /\ op.toUndo # {}
      \/ Holds(p, "rollingBack")
  BY DEF UndoRecord
<1>2. /\ f \in op.toUndo
      /\ UNCHANGED <<image, revision, roots, lockOwner, pc>>
      /\ \A g \in Paths : g # f => workspace'[g] = workspace[g]
      /\ workspace'[f] = roots[op.root].backups[f]
  BY DEF UndoRecord, IInv, TypeOK, Trees
<1>3. /\ op'.root = op.root /\ op'.captured = op.captured /\ op'.existed = op.existed
      /\ op'.toVisit = op.toVisit /\ op'.toUndo = op.toUndo \ {f}
  BY DEF UndoRecord, IInv, TypeOK, Ops
<1> QED BY <1>1, <1>2, <1>3, UndoStepKeeps

\* No invariant of the disk or of the lock's owner looks at what imports intend.
LEMMA PlanKeeps ==
  ASSUME IInv, TypeOK', NEW p \in Threads, NEW f \in Paths, PlanImport(p, f)
  PROVE  IInv'
BY DEF PlanImport, IInv, DiskInv, OneIsLive, LiveRestores, QuietIsSaved, ControlInv,
   LiveIsInHand, InHand, LoadedIsCurrent, WorkIsCovered, CoveredWork, RecordsAgree,
   AgreedRecords, SavedIsDone, UndoneIsSaved, Live, Superseded

LEMMA TearKeeps ==
  ASSUME IInv, TypeOK', NEW p \in Threads, NEW f \in Paths, Tear(p, f)
  PROVE  IInv'
<1>1. /\ UNCHANGED <<image, revision, roots, lockOwner, pc, op>>
      /\ \A g \in Paths : g # f => workspace'[g] = workspace[g]
  BY DEF Tear, IInv, TypeOK, Trees
<1>2. CASE Holds(p, "working")
  <2>1. CoveredWork
    BY <1>2, AtWork
  <2>2. f \in op.toClear \cap op.captured
    BY <1>2, <2>1 DEF Tear, Holds, CoveredWork
  <2>3. \A g \in Paths : g \notin op.captured => workspace'[g] = workspace[g]
    BY <1>1, <2>2
  <2>4. \A g \in Paths : g \notin op'.toClear \cup op'.toPut => workspace'[g] = op'.target[g]
    BY <1>1, <2>1, <2>2 DEF CoveredWork
  <2> QED BY <1>1, <1>2, <2>3, <2>4, ChangeKeeps
<1>3. CASE ~Holds(p, "working")
  <2>1. \/ Holds(p, "recovering") /\ op.toUndo # {}
        \/ Holds(p, "rollingBack")
    BY <1>3 DEF Tear
  <2>2. f \in op.toUndo
    BY <1>3 DEF Tear
  <2> QED BY <1>1, <2>1, <2>2, UndoStepKeeps
<1> QED BY <1>2, <1>3

LEMMA MarkRolledBackKeeps ==
  ASSUME IInv, TypeOK', NEW p \in Threads, MarkRolledBack(p)
  PROVE  IInv'
<1>1. Holds(p, "rollingBack") /\ op.toUndo = {} /\ lockOwner = p /\ pc[p] = "rollingBack"
  BY DEF MarkRolledBack, Holds
<1>2. op.root \in TxnIds /\ Live(op.root) /\ workspace = image
  BY <1>1, AllUndone
<1>3. AgreedRecords
  BY <1>1, AtUndo
<1>4. UNCHANGED <<workspace, image, revision, lockOwner, op>>
  BY DEF MarkRolledBack
<1>5. PICK t \in TxnIds :
        /\ op.root = t /\ op'.root = t
        /\ roots'[t].journal = "rolled_back" /\ roots'[t].captured = roots[t].captured
        /\ roots'[t].backups = roots[t].backups /\ roots'[t].before = roots[t].before
        /\ \A u \in TxnIds : u # t => roots'[u] = roots[u]
  BY <1>2, <1>3 DEF MarkRolledBack, AgreedRecords, IInv, TypeOK, Roots
<1>6. \A u \in TxnIds : Live(u)' <=> Live(u)
  BY <1>2, <1>4, <1>5 DEF Live, Superseded
<1>7. DiskInv'
  <2>1. \A u \in TxnIds : roots'[u].captured = roots[u].captured
                          /\ roots'[u].backups = roots[u].backups
    BY <1>5
  <2> QED BY <1>4, <1>6, <2>1 DEF IInv, DiskInv, OneIsLive, LiveRestores, QuietIsSaved
<1>8. pc'[p] = "rolledBack" /\ lockOwner' = p
  BY <1>1 DEF MarkRolledBack, Goto, IInv, TypeOK
<1>9. \A q \in Threads : q # p => pc'[q] \in {"idle", "opened"}
  BY <1>8, OthersOutsideNext
<1>10. \A u \in TxnIds : Live(u)' => u = op'.root
  BY <1>2, <1>5, <1>6 DEF IInv, DiskInv, OneIsLive
<1>11. LiveIsInHand'
  BY <1>8, <1>9, <1>10 DEF LiveIsInHand, InHand, InTransaction
<1>12. Live(op.root)' /\ workspace' = image'
  BY <1>2, <1>4, <1>5 DEF Live, Superseded
<1>13. (LoadedIsCurrent /\ WorkIsCovered /\ RecordsAgree /\ SavedIsDone /\ UndoneIsSaved)'
  BY <1>8, <1>9, <1>12 DEF LoadedIsCurrent, WorkIsCovered, RecordsAgree, SavedIsDone,
     UndoneIsSaved
<1> QED BY <1>7, <1>11, <1>13 DEF IInv, ControlInv

LEMMA FinishRollbackKeeps ==
  ASSUME SafeSetting, IInv, TypeOK', NEW p \in Threads, FinishRollback(p)
  PROVE  IInv'
<1>1. lockOwner = p /\ pc[p] = "rolledBack"
  BY DEF FinishRollback, Holds
<1>2. op.root \in TxnIds /\ Live(op.root) /\ workspace = image
  BY <1>1 DEF IInv, TypeOK, TransactionInHand, InTransaction, ControlInv, UndoneIsSaved
<1>3. UNCHANGED <<workspace, image, revision>>
  BY DEF FinishRollback
<1>4. DiskInv' /\ \A u \in TxnIds : ~Live(u)'
  BY <1>2, <1>3, RemoveUndone DEF FinishRollback
<1> QED BY <1>1, <1>4, LeaveLockQuiet DEF FinishRollback, IInv

\* A rollback always finds its directory: nothing fails after the removal.
LEMMA RollbackHasRoot ==
  ASSUME IInv, NEW p \in Threads
  PROVE  ~RollbackWithoutRoot(p)
<1> SUFFICES ASSUME RollbackWithoutRoot(p) PROVE FALSE
  OBVIOUS
<1>1. Holds(p, "rollingBack")
  BY DEF RollbackWithoutRoot
<1>2. Live(op.root) /\ AgreedRecords
  BY <1>1, AtUndo DEF Holds
<1> QED BY <1>2 DEF RollbackWithoutRoot, BackupMissing, Live, AgreedRecords

\* An undo that fails, or a crash, leaves every thread idle.
LEMMA EverybodyIdle ==
  ASSUME IInv, TypeOK', UNCHANGED <<workspace, image, revision, roots>>,
         \A q \in Threads : pc'[q] = "idle"
  PROVE  IInv'
<1>1. DiskInv'
  BY DiskSame
<1>2. ControlInv'
  BY NobodyInside
<1> QED BY <1>1, <1>2 DEF IInv

LEMMA UndoFailsKeeps ==
  ASSUME SafeSetting, IInv, TypeOK', NEW p \in Threads, UndoFails(p)
  PROVE  IInv'
<1>1. \A q \in Threads : q = p
  BY DEF UndoFails, CanFault, SafeSetting
<1>2. \A q \in Threads : pc'[q] = "idle"
  BY <1>1 DEF UndoFails, LeaveLock, Goto, IInv, TypeOK
<1> QED BY <1>2, EverybodyIdle DEF UndoFails

LEMMA CrashKeeps ==
  ASSUME SafeSetting, IInv, TypeOK', NEW h \in Processes, Crash(h)
  PROVE  IInv'
<1>1. PICK p \in Threads : Host[p] = h
  BY DEF Crash
<1>2. \A q \in Threads : Host[q] = h
  BY <1>1 DEF Crash, CanFault, SafeSetting
<1>3. \A q \in Threads : pc'[q] = "idle"
  BY <1>2 DEF Crash
<1> QED BY <1>3, EverybodyIdle DEF Crash

-----------------------------------------------------------------------------
(* The theorems *)

LEMMA InvInit == Init => IInv
<1> SUFFICES ASSUME Init PROVE IInv
  OBVIOUS
<1>1. TypeOK
  BY TypeInit
<1>2. \A t \in TxnIds : ~Live(t)
  BY DEF Init, Live, NoRoot
<1>3. DiskInv
  BY <1>2 DEF Init, DiskInv, OneIsLive, LiveRestores, QuietIsSaved
<1>4. \A p \in Threads : pc[p] = "idle"
  BY DEF Init
<1>5. ControlInv
  BY <1>4, <1>2 DEF ControlInv, LiveIsInHand, LoadedIsCurrent, WorkIsCovered, RecordsAgree,
     SavedIsDone, UndoneIsSaved
<1> QED BY <1>1, <1>3, <1>5 DEF IInv

LEMMA InvStep ==
  ASSUME SafeSetting, IInv, [Next]_vars
  PROVE  IInv'
<1>1. TypeOK'
  BY TypeStep DEF IInv
<1>2. ASSUME NEW p \in Threads, Open(p) \/ Close(p) \/ Lock(p)
      PROVE  IInv'
  BY <1>1, <1>2, OpenKeeps, OpenedKeeps, LockKeeps
<1>3. ASSUME NEW p \in Threads, Recover(p)
      PROVE  IInv'
  BY <1>1, <1>3, VisitKeeps, CleanKeeps, FinishUndoKeeps, OpenedKeeps DEF Recover
<1>4. ASSUME NEW p \in Threads, Refuse(p) \/ Snapshot(p) \/ SafetySnapshot(p) \/ BeginMutation(p)
      PROVE  IInv'
  BY <1>1, <1>4, RefuseKeeps, SnapshotKeeps, BeginMutationKeeps
<1>5. ASSUME NEW p \in Threads, Mutate(p)
      PROVE  IInv'
  BY <1>1, <1>5, CaptureKeeps, ClearOrPutKeeps, MoveKeeps, SaveKeeps, CommitKeeps, ReturnKeeps
     DEF Mutate
<1>6. ASSUME NEW p \in Threads, Undo(p)
      PROVE  IInv'
  BY <1>1, <1>6, UndoRecordKeeps, MarkRolledBackKeeps, FinishRollbackKeeps, RollbackHasRoot
     DEF Undo
<1>7. ASSUME NEW p \in Threads, Failure(p)
      PROVE  IInv'
  BY <1>1, <1>7, BeginFailsKeeps, FailKeeps, UndoFailsKeeps DEF Failure
<1>8. ASSUME NEW p \in Threads, NEW f \in Paths, PlanImport(p, f) \/ Tear(p, f)
      PROVE  IInv'
  BY <1>1, <1>8, PlanKeeps, TearKeeps
<1>9. ASSUME NEW h \in Processes, Crash(h)
      PROVE  IInv'
  BY <1>1, <1>9, CrashKeeps
<1>10. CASE UNCHANGED vars
  BY <1>1, <1>10 DEF vars, IInv, DiskInv, OneIsLive, LiveRestores, QuietIsSaved, ControlInv,
     LiveIsInHand, InHand, LoadedIsCurrent, WorkIsCovered, CoveredWork, RecordsAgree,
     AgreedRecords, SavedIsDone, UndoneIsSaved, Live, Superseded
<1> QED BY <1>2, <1>3, <1>4, <1>5, <1>6, <1>7, <1>8, <1>9, <1>10 DEF Next, Progress

\* In a safe setting every reachable state satisfies the inductive invariant.
THEOREM InvariantHolds ==
  ASSUME SafeSetting
  PROVE  Spec => []IInv
<1>1. Init => IInv
  BY InvInit
<1>2. IInv /\ [Next]_vars => IInv'
  BY InvStep
<1> QED BY <1>1, <1>2, PTL DEF Spec

\* If everything stopped at any instant, the next open would give back the tree
\* that state.json describes (transactions.py and the mutations of repository.py).
THEOREM CrashConsistency ==
  ASSUME SafeSetting
  PROVE  Spec => []CrashConsistent
<1>1. IInv => CrashConsistent
  <2> SUFFICES ASSUME IInv, NEW f \in Paths
               PROVE  LET Undoers == {t \in TxnIds : Live(t) /\ f \in roots[t].captured}
                      IN  IF Undoers = {} THEN workspace[f] = image[f]
                          ELSE \A t \in Undoers : roots[t].backups[f] = image[f]
    BY DEF CrashConsistent
  <2>1. CASE \A t \in TxnIds : ~Live(t)
    BY <2>1 DEF IInv, DiskInv, QuietIsSaved
  <2>2. CASE \E t \in TxnIds : Live(t)
    BY <2>2 DEF IInv, DiskInv, LiveRestores
  <2> QED BY <2>1, <2>2
<1> QED BY <1>1, InvariantHolds, PTL

\* A mutation that has just taken the lock finds the saved tree, although the
\* recovery that made sure of it ran earlier, when the service was opened.
THEOREM StartFromSavedTree ==
  ASSUME SafeSetting
  PROVE  Spec => []MutationsStartFromSavedTree
<1>1. IInv => MutationsStartFromSavedTree
  <2> SUFFICES ASSUME IInv, NEW p \in Threads, pc[p] \in {"locked", "protected"}
               PROVE  workspace = image
    BY DEF MutationsStartFromSavedTree
  <2>1. lockOwner = p
    BY DEF IInv, TypeOK, LockDiscipline, InsideLock, Labels
  <2> QED BY <2>1, BeforeBegin DEF Holds
<1> QED BY <1>1, InvariantHolds, PTL

\* What a snapshot records is the saved tree of its own revision, never the half
\* applied tree of an operation that did not finish.
THEOREM SnapshotsAreSavedTrees ==
  ASSUME SafeSetting
  PROVE  Spec => SnapshotsRecordSavedTrees
<1> DEFINE Recorded == Len(commits') > Len(commits) => commits'[Len(commits')] = image'
<1>1. ASSUME IInv, TypeOK', [Next]_vars
      PROVE  [Recorded]_vars
  <2> SUFFICES ASSUME Next PROVE Recorded
    BY <1>1
  <2>1. commits \in Seq(Trees) /\ workspace \in Trees
    BY <1>1 DEF IInv, TypeOK
  <2>2. commits' = Append(commits, workspace) => commits'[Len(commits')] = workspace
    BY <2>1
  <2>3. ASSUME NEW p \in Threads, Snapshot(p) \/ SafetySnapshot(p)
        PROVE  Recorded
    <3>1. workspace = image /\ image' = image
      BY <1>1, <2>3, BeforeBegin DEF Snapshot, SafetySnapshot
    <3>2. commits' = commits \/ commits' = Append(commits, workspace)
      BY <2>3 DEF Snapshot, SafetySnapshot, AppendSnapshot
    <3> QED BY <2>1, <2>2, <3>1, <3>2
  <2>4. ASSUME NEW p \in Threads, Save(p)
        PROVE  Recorded
    <3>1. CoveredWork
      BY <1>1, <2>4, AtWork DEF Save
    <3>2. \A f \in Paths : workspace[f] = op.target[f]
      BY <2>4, <3>1 DEF CoveredWork, Save
    <3>3. workspace = op.target
      BY <1>1, <3>2 DEF IInv, TypeOK, Ops, Trees
    <3>4. commits' = commits \/ commits' = Append(commits, workspace)
      BY <2>4 DEF Save
    <3> QED BY <2>1, <2>2, <2>4, <3>3, <3>4 DEF Save
  <2>5. CASE commits' = commits
    BY <2>1, <2>5
  <2>6. \/ commits' = commits
        \/ \E p \in Threads : Snapshot(p) \/ SafetySnapshot(p) \/ Save(p)
    <3>1. ASSUME NEW p \in Threads, Open(p) \/ Close(p) \/ Lock(p) \/ Refuse(p)
          PROVE  commits' = commits
      BY <3>1 DEF Open, Close, Lock, Refuse
    <3>2. ASSUME NEW p \in Threads, Recover(p)
          PROVE  commits' = commits
      BY <3>2 DEF Recover, RetainUnreadable, CleanCommitted, StartUndo, FinishUndo, Opened
    <3>3. ASSUME NEW p \in Threads, BeginMutation(p)
          PROVE  commits' = commits
      BY <3>3 DEF BeginMutation, BeginWrite, BeginRename, BeginDelete, BeginMerge, BeginImport,
         BeginRestore, Begin
    <3>4. ASSUME NEW p \in Threads, Mutate(p), ~Save(p)
          PROVE  commits' = commits
      BY <3>4 DEF Mutate, Capture, Clear, Put, Move, Commit, Cleanup, Return
    <3>5. ASSUME NEW p \in Threads, Undo(p) \/ Failure(p)
          PROVE  commits' = commits
      BY <3>5 DEF Undo, UndoRecord, MarkRolledBack, FinishRollback, RollbackWithoutRoot,
         Failure, BeginFails, Fail, UndoFails
    <3>6. ASSUME NEW p \in Threads, NEW f \in Paths, PlanImport(p, f) \/ Tear(p, f)
          PROVE  commits' = commits
      BY <3>6 DEF PlanImport, Tear
    <3>7. ASSUME NEW h \in Processes, Crash(h)
          PROVE  commits' = commits
      BY <3>7 DEF Crash
    <3> QED BY <3>1, <3>2, <3>3, <3>4, <3>5, <3>6, <3>7 DEF Next, Progress
  <2> QED BY <2>3, <2>4, <2>5, <2>6
<1>2. IInv => TypeOK
  BY DEF IInv
<1> QED BY <1>1, <1>2, InvariantHolds, PTL DEF Spec, SnapshotsRecordSavedTrees

-----------------------------------------------------------------------------
(* The refinement: each mutation is one step of AtomicRepository, taken at   *)
(* its save, and nothing else is a step of it                                *)

Clean == [Paths -> Contents \cup {Absent}]

InHistory(tree) == \E i \in DOMAIN commits : commits[i] = tree

\* What an operation of each kind makes of the saved tree.
Plans(kind, tree) ==
  \/ kind = "write" /\ \E f \in Paths, c \in Contents : tree = [image EXCEPT ![f] = c]
  \/ kind = "rename" /\ \E f \in Existing(image), g \in Paths \ Existing(image) :
       tree = [image EXCEPT ![f] = Absent, ![g] = image[f]]
  \/ kind = "delete" /\ \E f \in Existing(image) : tree = [image EXCEPT ![f] = Absent]
  \/ kind = "merge" /\ InHistory(image)
  \/ kind = "import" /\ \E S \in SUBSET Paths : \E new \in [S -> Contents] :
       tree = [f \in Paths |-> IF f \in S THEN new[f] ELSE image[f]]

\* The saved tree is one that an operation meant, a protected mutation has it in
\* the history, and so has an import at work that was planned to overwrite; the
\* mutation at work is about to replace it by its plan.
SavedIsClean == image \in Clean

ProtectedIsRecorded == \A p \in Threads : pc[p] = "protected" => InHistory(image)

WorkIsPlanned ==
  \A p \in Threads : pc[p] = "working" => op.target \in Clean /\ Plans(op.kind, op.target)

OverwriteIsRecorded ==
  \A p \in Threads :
    pc[p] = "working" /\ op.kind = "import" /\ imports[p].overwrites => InHistory(image)

PlanInv == SavedIsClean /\ ProtectedIsRecorded /\ WorkIsPlanned /\ OverwriteIsRecorded

\* A plan depends on what is saved, not on who is at work.
LEMMA PlansStay ==
  ASSUME UNCHANGED <<image, commits>>, NEW kind, NEW tree, Plans(kind, tree)
  PROVE  Plans(kind, tree)'
BY DEF Plans, InHistory, Existing

\* Steps that save nothing and plan nothing.
LEMMA PlanStays ==
  ASSUME PlanInv, UNCHANGED <<image, commits>>,
         \A q \in Threads : pc'[q] = "protected" => pc[q] = "protected",
         \A q \in Threads : pc'[q] = "working" =>
           /\ pc[q] = "working" /\ op'.kind = op.kind /\ op'.target = op.target
           /\ imports'[q] = imports[q]
  PROVE  PlanInv'
<1>1. SavedIsClean' /\ ProtectedIsRecorded'
  BY DEF PlanInv, SavedIsClean, ProtectedIsRecorded, InHistory, Clean
<1>2. ASSUME NEW q \in Threads, pc'[q] = "working"
      PROVE  op'.target \in Clean /\ Plans(op.kind, op.target)'
  <2>1. PICK kind, tree : kind = op.kind /\ tree = op.target
    OBVIOUS
  <2>2. tree \in Clean /\ Plans(kind, tree)
    BY <1>2, <2>1 DEF PlanInv, WorkIsPlanned
  <2>3. Plans(kind, tree)'
    BY <2>2, PlansStay
  <2>4. kind = op'.kind /\ tree = op'.target
    BY <1>2, <2>1
  <2> QED BY <2>2, <2>3, <2>4
<1>3. OverwriteIsRecorded'
  BY DEF PlanInv, OverwriteIsRecorded, InHistory
<1> QED BY <1>1, <1>2, <1>3 DEF PlanInv, WorkIsPlanned, Clean

\* A thread that leaves the lock, or stays in it at another label.
LEMMA LeavingPlans ==
  ASSUME TypeOK, TypeOK', PlanInv, UNCHANGED <<image, commits>>, NEW p \in Threads,
         NEW label \in Labels \ {"protected", "working"}, Goto(p, label),
         lockOwner = p \/ op' = op \/ lockOwner = NoThread,
         \A q \in Threads : q # p => imports'[q] = imports[q]
  PROVE  PlanInv'
<1>1. \A q \in Threads : pc'[q] \in {"protected", "working"} => pc[q] = pc'[q] /\ q # p
  BY DEF Goto, TypeOK
<1>2. \A q \in Threads : pc'[q] \in {"protected", "working"} => lockOwner = q
  BY <1>1 DEF TypeOK, LockDiscipline, InsideLock, Labels
<1>3. \A q \in Threads : pc'[q] \in {"protected", "working"} => op' = op
  BY <1>1, <1>2, Sentinels
<1> QED BY <1>1, <1>3, PlanStays

\* An operation is planned on the saved tree.
LEMMA BeginPlans ==
  ASSUME SafeSetting, IInv, TypeOK', PlanInv, NEW p \in Threads, BeginMutation(p)
  PROVE  PlanInv'
<1>1. (Holds(p, "locked") \/ Holds(p, "protected")) /\ ~BeginRestore(p)
  BY DEF Holds, BeginMutation, BeginWrite, BeginRename, BeginDelete, BeginMerge, BeginImport,
     BeginRestore, Begin, SafeSetting
<1>2. lockOwner = p /\ workspace = image
  BY <1>1, BeforeBegin
<1>3. Holds(p, "protected") => InHistory(image)
  BY DEF Holds, PlanInv, ProtectedIsRecorded
<1>4. image \in Clean
  BY DEF PlanInv, SavedIsClean
<1>5. \E plan : /\ Begin(p, plan) /\ plan.target \in Clean /\ Plans(plan.kind, plan.target)
                /\ plan.kind = "import" => BeginImport(p)
  <2>1. CASE BeginWrite(p)
    <3>1. PICK f \in Paths, c \in Contents :
            Begin(p, [kind |-> "write", toCapture |-> {f}, toClear |-> {}, toPut |-> {f},
                      target |-> [workspace EXCEPT ![f] = c]])
      BY <2>1 DEF BeginWrite
    <3>2. [image EXCEPT ![f] = c] \in Clean
      BY <1>4 DEF Clean
    <3> QED BY <1>2, <3>1, <3>2 DEF Plans
  <2>2. CASE BeginRename(p)
    <3>1. PICK f \in Existing(workspace), g \in Paths \ Existing(workspace) :
            Begin(p, [kind |-> "rename", toCapture |-> {f, g}, toClear |-> {},
                      toPut |-> {f, g},
                      target |-> [workspace EXCEPT ![f] = Absent, ![g] = workspace[f]]])
      BY <2>2 DEF BeginRename
    <3>2. [image EXCEPT ![f] = Absent, ![g] = image[f]] \in Clean
      BY <1>2, <1>4 DEF Clean, Existing
    <3>3. Plans("rename", [image EXCEPT ![f] = Absent, ![g] = image[f]])
      BY <1>2 DEF Plans
    <3> QED BY <1>2, <3>1, <3>2, <3>3
  <2>3. CASE BeginDelete(p)
    <3>1. PICK f \in Existing(workspace) :
            Begin(p, [kind |-> "delete", toCapture |-> {f}, toClear |-> {f}, toPut |-> {},
                      target |-> [workspace EXCEPT ![f] = Absent]])
      BY <2>3 DEF BeginDelete
    <3>2. [image EXCEPT ![f] = Absent] \in Clean
      BY <1>4 DEF Clean
    <3>3. Plans("delete", [image EXCEPT ![f] = Absent])
      BY <1>2 DEF Plans
    <3> QED BY <1>2, <3>1, <3>2, <3>3
  <2>4. CASE BeginMerge(p)
    <3>0. PICK S \in (SUBSET Paths) \ {{}} : \E new \in [S -> Contents \cup {Absent}] :
            Begin(p, [kind |-> "merge", toCapture |-> S, toClear |-> {}, toPut |-> S,
                      target |-> [f \in Paths |-> IF f \in S THEN new[f] ELSE workspace[f]]])
      BY <2>4 DEF BeginMerge
    <3>1. PICK new \in [S -> Contents \cup {Absent}] :
            Begin(p, [kind |-> "merge", toCapture |-> S, toClear |-> {}, toPut |-> S,
                      target |-> [f \in Paths |-> IF f \in S THEN new[f] ELSE workspace[f]]])
      BY <3>0
    <3>2. [f \in Paths |-> IF f \in S THEN new[f] ELSE image[f]] \in Clean
      BY <1>4 DEF Clean
    <3> QED BY <1>2, <1>3, <2>4, <3>1, <3>2 DEF Plans, BeginMerge
  <2>5. CASE BeginImport(p)
    <3>1. PICK new \in [imports[p].paths -> Contents] :
            Begin(p, [kind |-> "import", toCapture |-> imports[p].paths, toClear |-> {},
                      toPut |-> imports[p].paths,
                      target |-> [f \in Paths |-> IF f \in imports[p].paths THEN new[f]
                                                                        ELSE workspace[f]]])
      BY <2>5 DEF BeginImport
    <3>2. imports[p].paths \in SUBSET Paths
      BY DEF IInv, TypeOK, Imports
    <3>3. [f \in Paths |-> IF f \in imports[p].paths THEN new[f] ELSE image[f]] \in Clean
      BY <1>4 DEF Clean
    <3>4. Plans("import",
                [f \in Paths |-> IF f \in imports[p].paths THEN new[f] ELSE image[f]])
      BY <3>2 DEF Plans
    <3> QED BY <1>2, <2>5, <3>1, <3>3, <3>4
  <2> QED BY <1>1, <2>1, <2>2, <2>3, <2>4, <2>5 DEF BeginMutation
<1>6. PICK plan : /\ Begin(p, plan) /\ plan.target \in Clean /\ Plans(plan.kind, plan.target)
                  /\ plan.kind = "import" => BeginImport(p)
  BY <1>5
<1>7. op'.kind = plan.kind /\ op'.target = plan.target
  BY <1>1, <1>6, BeginFields
<1>8. UNCHANGED <<image, commits, lockOwner, imports>> /\ pc'[p] = "working"
  BY <1>6 DEF Begin, Goto, IInv, TypeOK
<1>9. \A q \in Threads : q # p => pc'[q] \in {"idle", "opened"}
  BY <1>2, <1>8, OthersOutsideNext
<1>10. PICK kind, tree : kind = plan.kind /\ tree = plan.target
  OBVIOUS
<1>11. tree \in Clean /\ Plans(kind, tree)'
  BY <1>6, <1>8, <1>10, PlansStay
<1>12. \A q \in Threads : pc'[q] = "working" => op'.target \in Clean /\ Plans(op.kind, op.target)'
  BY <1>7, <1>10, <1>11
<1>13. ASSUME op'.kind = "import", imports[p].overwrites
       PROVE  InHistory(image)'
  <2>1. BeginImport(p)
    BY <1>6, <1>7, <1>13
  <2>2. Holds(p, "protected")
    BY <1>13, <2>1 DEF BeginImport
  <2> QED BY <1>3, <1>8, <2>2 DEF InHistory
<1>14. OverwriteIsRecorded'
  BY <1>8, <1>9, <1>13 DEF OverwriteIsRecorded
<1> QED BY <1>4, <1>8, <1>9, <1>12, <1>14 DEF PlanInv, SavedIsClean, ProtectedIsRecorded,
          WorkIsPlanned, Clean

\* A snapshot records the saved tree, and a safety snapshot makes sure of it.
LEMMA SnapshotPlans ==
  ASSUME IInv, TypeOK', PlanInv, NEW p \in Threads, Snapshot(p) \/ SafetySnapshot(p)
  PROVE  PlanInv'
<1>1. lockOwner = p /\ workspace = image
  BY BeforeBegin DEF Snapshot, SafetySnapshot
<1>2. commits \in Seq(Trees) /\ image \in Trees /\ image' = image
  BY DEF IInv, TypeOK, Snapshot, SafetySnapshot
<1>3. \A q \in Threads : pc'[q] # "working" /\ (pc'[q] = "protected" => q = p)
  BY <1>1, OthersOutside DEF IInv, TypeOK, Snapshot, SafetySnapshot, LeaveLock, Goto
<1>4. CASE Snapshot(p)
  <2>1. pc'[p] # "protected"
    BY <1>4 DEF Snapshot, LeaveLock, Goto, IInv, TypeOK
  <2> QED BY <1>2, <1>3, <2>1 DEF PlanInv, SavedIsClean, ProtectedIsRecorded, WorkIsPlanned,
         OverwriteIsRecorded, Clean
<1>5. CASE SafetySnapshot(p)
  <2>1. InHistory(image)'
    <3>1. CASE AppendSnapshot
      <4>1. commits' = Append(commits, image)
        BY <1>1, <3>1 DEF AppendSnapshot
      <4>2. Len(commits') \in DOMAIN commits' /\ commits'[Len(commits')] = image
        BY <1>2, <4>1
      <4> QED BY <1>2, <4>2 DEF InHistory
    <3>2. CASE ~Dirty /\ UNCHANGED <<commits, revision>>
      <4>1. commits # << >> /\ commits[Len(commits)] = image
        BY <1>1, <3>2 DEF Dirty
      <4>2. Len(commits) \in DOMAIN commits
        BY <1>2, <4>1
      <4> QED BY <1>2, <3>2, <4>1, <4>2 DEF InHistory
    <3> QED BY <1>5, <3>1, <3>2 DEF SafetySnapshot
  <2> QED BY <1>2, <1>3, <2>1 DEF PlanInv, SavedIsClean, ProtectedIsRecorded, WorkIsPlanned,
         OverwriteIsRecorded, Clean
<1> QED BY <1>4, <1>5

\* The save makes the plan the saved tree.
LEMMA SavePlans ==
  ASSUME IInv, TypeOK', PlanInv, NEW p \in Threads, Save(p)
  PROVE  PlanInv'
<1>1. lockOwner = p /\ pc[p] = "working" /\ pc'[p] = "saved" /\ image' = op.target
  BY DEF Save, Holds, Goto, IInv, TypeOK
<1>2. \A q \in Threads : pc'[q] \notin {"protected", "working"}
  BY <1>1, OthersOutside DEF IInv, TypeOK, Save, Goto
<1> QED BY <1>1, <1>2 DEF PlanInv, SavedIsClean, ProtectedIsRecorded, WorkIsPlanned,
       OverwriteIsRecorded, Clean

LEMMA PlanStep ==
  ASSUME SafeSetting, IInv, TypeOK', PlanInv, [Next]_vars
  PROVE  PlanInv'
<1> USE DEF IInv, Labels
<1>1. ASSUME NEW p \in Threads, Open(p) \/ Close(p) \/ Lock(p)
      PROVE  PlanInv'
  BY <1>1, LeavingPlans DEF Open, Close, Lock, TypeOK
<1>2. ASSUME NEW p \in Threads, Recover(p)
      PROVE  PlanInv'
  <2>1. CASE Opened(p)
    BY <2>1, LeavingPlans DEF Opened, LeaveLock, Holds
  <2>2. CASE ~Opened(p)
    <3>1. lockOwner = p /\ pc[p] = "recovering" /\ UNCHANGED <<image, commits, pc>>
      BY <1>2, <2>2 DEF Recover, RetainUnreadable, CleanCommitted, StartUndo, FinishUndo,
         Visiting, Holds
    <3>2. \A q \in Threads : pc'[q] \notin {"protected", "working"}
      BY <3>1, OthersOutside
    <3> QED BY <3>1, <3>2, PlanStays
  <2> QED BY <2>1, <2>2
<1>3. ASSUME NEW p \in Threads, Refuse(p) \/ BeginFails(p)
      PROVE  PlanInv'
  BY <1>3, LeavingPlans DEF Refuse, BeginFails, LeaveLock, Holds, TypeOK
<1>4. ASSUME NEW p \in Threads,
             (\E f \in Paths : Capture(p, f) \/ Clear(p, f) \/ Put(p, f)) \/ Move(p)
      PROVE  PlanInv'
  <2>1. /\ op'.kind = op.kind /\ op'.target = op.target
        /\ UNCHANGED <<image, commits, pc, imports>>
    BY <1>4 DEF Capture, Clear, Put, Move, TypeOK, Ops
  <2> QED BY <2>1, PlanStays
<1>5. ASSUME NEW p \in Threads, Commit(p) \/ Cleanup(p) \/ Return(p)
      PROVE  PlanInv'
  BY <1>5, LeavingPlans DEF Commit, Cleanup, Return, LeaveLock, Holds, TypeOK
<1>6. ASSUME NEW p \in Threads, NEW f \in Paths, UndoRecord(p, f)
      PROVE  PlanInv'
  <2>1. /\ op'.kind = op.kind /\ op'.target = op.target
        /\ UNCHANGED <<image, commits, pc, imports>>
    BY <1>6 DEF UndoRecord, TypeOK, Ops
  <2> QED BY <2>1, PlanStays
<1>7. ASSUME NEW p \in Threads, MarkRolledBack(p) \/ FinishRollback(p) \/ RollbackWithoutRoot(p)
      PROVE  PlanInv'
  BY <1>7, LeavingPlans
  DEF MarkRolledBack, FinishRollback, RollbackWithoutRoot, LeaveLock, Holds, TypeOK
<1>8. ASSUME NEW p \in Threads, Fail(p) \/ UndoFails(p)
      PROVE  PlanInv'
  BY <1>8, LeavingPlans DEF Fail, UndoFails, LeaveLock, Holds, TypeOK
<1>9. ASSUME NEW p \in Threads, NEW f \in Paths, PlanImport(p, f) \/ Tear(p, f)
      PROVE  PlanInv'
  BY <1>9, PlanStays DEF PlanImport, Tear, TypeOK
<1>10. ASSUME NEW h \in Processes, Crash(h)
       PROVE  PlanInv'
  <2>1. \A q \in Threads : pc'[q] # "idle" => pc'[q] = pc[q] /\ Host[q] # h
    BY <1>10 DEF Crash, TypeOK
  <2>2. \A q \in Threads : pc'[q] \in {"protected", "working"} => lockOwner = q
    BY <2>1 DEF TypeOK, LockDiscipline, InsideLock
  <2>3. \A q \in Threads :
          pc'[q] \in {"protected", "working"} => op' = op /\ imports'[q] = imports[q]
    BY <1>10, <2>1, <2>2 DEF Crash
  <2> QED BY <1>10, <2>1, <2>3, PlanStays DEF Crash
<1>11. CASE UNCHANGED vars
  BY <1>11, PlanStays DEF vars
<1>12. ASSUME NEW p \in Threads, Progress(p)
       PROVE  PlanInv'
  <2>1. CASE Recover(p) \/ Refuse(p)
    BY <1>2, <1>3, <2>1
  <2>2. CASE Snapshot(p) \/ SafetySnapshot(p) \/ BeginMutation(p)
    BY <2>2, BeginPlans, SnapshotPlans
  <2>3. CASE Mutate(p)
    BY <1>4, <1>5, <2>3, SavePlans DEF Mutate
  <2>4. CASE Undo(p)
    BY <1>6, <1>7, <2>4 DEF Undo
  <2> QED BY <1>12, <2>1, <2>2, <2>3, <2>4 DEF Progress
<1> QED BY <1>1, <1>3, <1>8, <1>9, <1>10, <1>11, <1>12 DEF Next, Failure

LEMMA PlanHolds ==
  ASSUME SafeSetting
  PROVE  Spec => [](IInv /\ PlanInv)
<1>1. Init => PlanInv
  <2> SUFFICES ASSUME Init PROVE PlanInv
    OBVIOUS
  <2> QED BY DEF Init, PlanInv, SavedIsClean, ProtectedIsRecorded, WorkIsPlanned,
         OverwriteIsRecorded, Clean
<1>2. IInv /\ IInv' /\ PlanInv /\ [Next]_vars => PlanInv'
  BY PlanStep DEF IInv
<1> QED BY <1>1, <1>2, InvariantHolds, PTL DEF Spec

\* What the next open would find is at every instant the saved tree.
LEMMA DiskIsSaved == IInv => TreeOnDisk = image
<1> SUFFICES ASSUME IInv PROVE TreeOnDisk = image
  OBVIOUS
<1>1. ASSUME NEW f \in Paths
      PROVE  TreeOnDisk[f] = image[f]
  <2> DEFINE Undoers == {t \in TxnIds : Live(t) /\ f \in roots[t].captured}
  <2>1. TreeOnDisk[f] = IF Undoers = {} THEN workspace[f]
                        ELSE roots[CHOOSE t \in Undoers : TRUE].backups[f]
    BY DEF TreeOnDisk
  <2>2. CASE Undoers = {}
    <3>1. workspace[f] = image[f]
      BY <2>2 DEF IInv, DiskInv, LiveRestores, QuietIsSaved
    <3> QED BY <2>1, <2>2, <3>1
  <2>3. CASE Undoers # {}
    <3>1. PICK u \in Undoers : u = CHOOSE t \in Undoers : TRUE
      BY <2>3
    <3>2. roots[u].backups[f] = image[f]
      BY DEF IInv, DiskInv, LiveRestores
    <3> QED BY <2>1, <2>3, <3>1, <3>2
  <2> QED BY <2>2, <2>3
<1>2. image = [f \in Paths |-> image[f]]
  BY DEF IInv, TypeOK, Trees
<1>3. TreeOnDisk = [f \in Paths |-> TreeOnDisk[f]]
  BY DEF TreeOnDisk
<1> QED BY <1>1, <1>2, <1>3

\* So it is after a step.
LEMMA DiskIsSavedNext == IInv' => TreeOnDisk' = image'
<1> SUFFICES ASSUME IInv' PROVE TreeOnDisk' = image'
  OBVIOUS
<1>1. ASSUME NEW f \in Paths
      PROVE  TreeOnDisk'[f] = image'[f]
  <2> DEFINE Undoers == {t \in TxnIds : Live(t)' /\ f \in roots'[t].captured}
  <2>1. TreeOnDisk'[f] = IF Undoers = {} THEN workspace'[f]
                        ELSE roots'[CHOOSE t \in Undoers : TRUE].backups[f]
    BY DEF TreeOnDisk
  <2>2. CASE Undoers = {}
    <3>1. workspace'[f] = image'[f]
      BY <2>2 DEF IInv, DiskInv, LiveRestores, QuietIsSaved
    <3> QED BY <2>1, <2>2, <3>1
  <2>3. CASE Undoers # {}
    <3>1. PICK u \in Undoers : u = CHOOSE t \in Undoers : TRUE
      BY <2>3
    <3>2. roots'[u].backups[f] = image'[f]
      BY DEF IInv, DiskInv, LiveRestores
    <3> QED BY <2>1, <2>3, <3>1, <3>2
  <2> QED BY <2>2, <2>3
<1>2. image' = [f \in Paths |-> image'[f]]
  BY DEF IInv, TypeOK, Trees
<1>3. TreeOnDisk' = [f \in Paths |-> TreeOnDisk'[f]]
  BY DEF TreeOnDisk
<1> QED BY <1>1, <1>2, <1>3

\* The steps that save nothing, of whatever request, failure or death.
LEMMA OnlySavesSave ==
  ASSUME [Next]_vars
  PROVE  \/ UNCHANGED <<image, revision, commits>>
         \/ \E p \in Threads : Snapshot(p) \/ SafetySnapshot(p) \/ Save(p)
<1>1. ASSUME NEW p \in Threads, Open(p) \/ Close(p) \/ Lock(p) \/ Refuse(p)
      PROVE  UNCHANGED <<image, revision, commits>>
  BY <1>1 DEF Open, Close, Lock, Refuse
<1>2. ASSUME NEW p \in Threads, Recover(p)
      PROVE  UNCHANGED <<image, revision, commits>>
  BY <1>2 DEF Recover, RetainUnreadable, CleanCommitted, StartUndo, FinishUndo, Opened
<1>3. ASSUME NEW p \in Threads, BeginMutation(p)
      PROVE  UNCHANGED <<image, revision, commits>>
  BY <1>3 DEF BeginMutation, BeginWrite, BeginRename, BeginDelete, BeginMerge, BeginImport,
     BeginRestore, Begin
<1>4. ASSUME NEW p \in Threads, Mutate(p), ~Save(p)
      PROVE  UNCHANGED <<image, revision, commits>>
  BY <1>4 DEF Mutate, Capture, Clear, Put, Move, Commit, Cleanup, Return
<1>5. ASSUME NEW p \in Threads, Undo(p) \/ Failure(p)
      PROVE  UNCHANGED <<image, revision, commits>>
  BY <1>5 DEF Undo, UndoRecord, MarkRolledBack, FinishRollback, RollbackWithoutRoot,
     Failure, BeginFails, Fail, UndoFails
<1>6. ASSUME NEW p \in Threads, NEW f \in Paths, PlanImport(p, f) \/ Tear(p, f)
      PROVE  UNCHANGED <<image, revision, commits>>
  BY <1>6 DEF PlanImport, Tear
<1>7. ASSUME NEW h \in Processes, Crash(h)
      PROVE  UNCHANGED <<image, revision, commits>>
  BY <1>7 DEF Crash
<1>8. CASE UNCHANGED vars
  BY <1>8 DEF vars
<1> QED BY <1>1, <1>2, <1>3, <1>4, <1>5, <1>6, <1>7, <1>8 DEF Next, Progress

\* A save is the abstract operation that its mutation planned.
LEMMA SaveMaps ==
  ASSUME IInv, IInv', PlanInv, NEW p \in Threads, Save(p)
  PROVE  Atomic!Next
<1>1. TreeOnDisk = image /\ TreeOnDisk' = image'
  BY DiskIsSaved, DiskIsSavedNext
<1>2. image' = op.target /\ revision' = revision + 1
  BY DEF Save
<1>3. op.target \in Clean /\ Plans(op.kind, op.target)
  BY DEF PlanInv, WorkIsPlanned, Save, Holds
<1>4. workspace = op.target
  <2>1. \A f \in Paths : workspace[f] = op.target[f]
    BY AtWork DEF CoveredWork, Save
  <2> QED BY <2>1 DEF IInv, TypeOK, Ops, Trees
<1>5. op.kind = "merge" => commits' = Append(commits, image')
  BY <1>2, <1>4 DEF Save
<1>6. op.kind # "merge" => commits' = commits
  BY DEF Save
<1>7. CASE op.kind = "write"
  <2>1. Atomic!Write
    BY <1>1, <1>2, <1>3, <1>6, <1>7 DEF Plans, Atomic!Write
  <2> QED BY <1>2, <2>1 DEF Atomic!Next
<1>8. CASE op.kind = "rename"
  <2>1. Atomic!Rename
    BY <1>1, <1>2, <1>3, <1>6, <1>8 DEF Plans, Atomic!Rename, Atomic!Present, Existing
  <2> QED BY <1>2, <2>1 DEF Atomic!Next
<1>9. CASE op.kind = "delete"
  <2>1. Atomic!Delete
    BY <1>1, <1>2, <1>3, <1>6, <1>9 DEF Plans, Atomic!Delete, Atomic!Present, Existing
  <2> QED BY <1>2, <2>1 DEF Atomic!Next
<1>10. CASE op.kind = "merge"
  <2>1. Atomic!Merge
    BY <1>1, <1>2, <1>3, <1>5, <1>10 DEF Plans, Atomic!Merge, Atomic!Recorded, InHistory, Clean
  <2> QED BY <1>2, <2>1 DEF Atomic!Next
<1>11. CASE op.kind = "import"
  <2>1. PICK S \in SUBSET Paths : \E new \in [S -> Contents] :
          op.target = [f \in Paths |-> IF f \in S THEN new[f] ELSE image[f]]
    BY <1>3, <1>11 DEF Plans
  <2>2. PICK new \in [S -> Contents] :
          op.target = [f \in Paths |-> IF f \in S THEN new[f] ELSE image[f]]
    BY <2>1
  <2>3. TreeOnDisk' = [f \in Paths |-> IF f \in S THEN new[f] ELSE TreeOnDisk[f]]
    BY <1>1, <1>2, <2>2
  <2>4. Atomic!Import
    BY <1>6, <1>11, <2>3 DEF Atomic!Import
  <2> QED BY <1>2, <2>4 DEF Atomic!Next
<1> QED BY <1>3, <1>7, <1>8, <1>9, <1>10, <1>11 DEF Plans

\* A snapshot, also the one that makes a mutation safe, records the saved tree.
LEMMA SnapshotMaps ==
  ASSUME IInv, IInv', NEW p \in Threads, Snapshot(p) \/ SafetySnapshot(p)
  PROVE  Atomic!Next \/ UNCHANGED <<TreeOnDisk, revision, commits>>
<1>1. TreeOnDisk = image /\ TreeOnDisk' = image' /\ workspace = image /\ image' = image
  BY DiskIsSaved, DiskIsSavedNext, BeforeBegin DEF Snapshot, SafetySnapshot
<1>2. CASE AppendSnapshot
  <2>1. Atomic!Snapshot /\ revision' = revision + 1
    BY <1>1, <1>2 DEF AppendSnapshot, Atomic!Snapshot
  <2> QED BY <2>1 DEF Atomic!Next
<1>3. CASE UNCHANGED <<commits, revision>>
  BY <1>1, <1>3
<1> QED BY <1>2, <1>3 DEF Snapshot, SafetySnapshot

\* Journals, rollback and recovery make a mutation atomic: whatever fails, dies or
\* is undone in between, each step of the repository is, on the tree that the next
\* open would find, a whole operation or none (transactions.py and the mutations of
\* repository.py).
THEOREM MutationsAreAtomic ==
  ASSUME SafeSetting
  PROVE  Spec => ImplementsAtomicRepository
<1>1. Init => Atomic!Init
  <2> SUFFICES ASSUME Init PROVE Atomic!Init
    OBVIOUS
  <2>1. TreeOnDisk = image
    BY InvInit, DiskIsSaved
  <2> QED BY <2>1 DEF Init, Atomic!Init
<1>2. ASSUME IInv, IInv', PlanInv, [Next]_vars
      PROVE  [Atomic!Next]_<<TreeOnDisk, revision, commits>>
  <2>1. CASE UNCHANGED <<image, revision, commits>>
    <3>1. TreeOnDisk = image /\ TreeOnDisk' = image'
      BY <1>2, DiskIsSaved, DiskIsSavedNext
    <3> QED BY <2>1, <3>1
  <2>2. CASE \E p \in Threads : Snapshot(p) \/ SafetySnapshot(p)
    BY <1>2, <2>2, SnapshotMaps
  <2>3. CASE \E p \in Threads : Save(p)
    BY <1>2, <2>3, SaveMaps
  <2> QED BY <1>2, <2>1, <2>2, <2>3, OnlySavesSave
<1> QED BY <1>1, <1>2, PlanHolds, PTL DEF Spec, ImplementsAtomicRepository, Atomic!Spec

\* What a merge replaces or deletes of the saved tree is in the history, and so is
\* what an import replaces if it was planned to overwrite: ensure_snapshot runs under
\* the lock before either of them changes a file.
THEOREM OverwritesAreRecorded ==
  ASSUME SafeSetting
  PROVE  Spec => OverwritesAreSnapshotted
<1> DEFINE Foreseen(p) == op.kind = "merge" \/ (op.kind = "import" /\ imports[p].overwrites)
<1> DEFINE Recorded == \A p \in Threads : lockOwner = p /\ Foreseen(p) => ~LosesUnrecorded
<1>1. ASSUME IInv, PlanInv, [Next]_vars
      PROVE  Recorded
  <2> SUFFICES ASSUME NEW p \in Threads, lockOwner = p, Foreseen(p),
                      NEW f \in Paths, image[f] # Absent, image[f] # image'[f]
               PROVE  InHistory(image)
    BY DEF InHistory, LosesUnrecorded
  <2>1. PICK q \in Threads : Save(q)
    BY <1>1, OnlySavesSave DEF Snapshot, SafetySnapshot
  <2>2. q = p /\ pc[p] = "working"
    BY <2>1 DEF Save, Holds
  <2>3. CASE op.kind = "merge"
    BY <1>1, <2>2, <2>3 DEF PlanInv, WorkIsPlanned, Plans
  <2>4. CASE op.kind = "import"
    BY <1>1, <2>2, <2>4 DEF PlanInv, OverwriteIsRecorded
  <2> QED BY <2>3, <2>4
<1>2. IInv /\ PlanInv /\ [Next]_vars => [Recorded]_vars
  BY <1>1
<1> QED BY <1>2, PlanHolds, PTL DEF Spec, OverwritesAreSnapshotted

\* "Captures every path before it is changed": what changes the workspace has the
\* path in the journal that a rollback or the next open would read.
THEOREM ChangesAreCaptured ==
  ASSUME SafeSetting
  PROVE  Spec => CapturesBeforeChanging
<1> DEFINE Captured == \A f \in Paths : workspace'[f] # workspace[f]
                         => op.root # NoTxn /\ f \in roots[op.root].captured
<1>1. ASSUME IInv, [Next]_vars
      PROVE  Captured
  <2> SUFFICES ASSUME NEW g \in Paths, workspace'[g] # workspace[g]
               PROVE  op.root # NoTxn /\ g \in roots[op.root].captured
    OBVIOUS
  <2> USE <1>1
  <2>1. ASSUME NEW p \in Threads, Holds(p, "working"), g \in op.captured
        PROVE  op.root # NoTxn /\ g \in roots[op.root].captured
    BY <2>1, AtWork, Sentinels DEF AgreedRecords
  <2>2. ASSUME NEW p \in Threads, g \in op.toUndo,
               Holds(p, "recovering") \/ Holds(p, "rollingBack")
        PROVE  op.root # NoTxn /\ g \in roots[op.root].captured
    BY <2>2, AtUndo
  <2>3. ASSUME NEW p \in Threads, Mutate(p)
        PROVE  op.root # NoTxn /\ g \in roots[op.root].captured
    <3>1. Holds(p, "working")
      BY <2>3 DEF Mutate, Capture, Clear, Put, Move, Save, Commit, Cleanup, Return
    <3>2. CoveredWork
      BY <3>1, AtWork
    <3>3. workspace \in Trees /\ op.target \in Trees
      BY DEF IInv, TypeOK, Ops
    <3>4. ASSUME NEW f \in Paths, Capture(p, f) \/ Clear(p, f) \/ Put(p, f)
          PROVE  g \in op.captured
      BY <3>2, <3>3, <3>4 DEF Capture, Clear, Put, MayPut, CoveredWork, Trees
    <3>5. CASE Move(p)
      <4>1. workspace' = op.target /\ op.toCapture = {}
        BY <3>5 DEF Move
      <4>2. g \in op.toClear \cup op.toPut
        BY <3>2, <4>1 DEF CoveredWork
      <4>3. g \in op.captured
        BY <3>2, <4>1, <4>2 DEF CoveredWork
      <4> QED BY <2>1, <3>1, <4>3
    <3> QED BY <2>1, <2>3, <3>1, <3>4, <3>5 DEF Mutate, Save, Commit, Cleanup, Return
  <2>4. ASSUME NEW p \in Threads, Undo(p)
        PROVE  op.root # NoTxn /\ g \in roots[op.root].captured
    <3>1. ASSUME NEW f \in Paths, UndoRecord(p, f)
          PROVE  g \in op.toUndo /\ (Holds(p, "recovering") \/ Holds(p, "rollingBack"))
      BY <3>1 DEF UndoRecord, IInv, TypeOK, Trees
    <3> QED BY <2>2, <2>4, <3>1, RollbackHasRoot DEF Undo, MarkRolledBack, FinishRollback
  <2>5. ASSUME NEW p \in Threads, NEW f \in Paths, Tear(p, f)
        PROVE  op.root # NoTxn /\ g \in roots[op.root].captured
    <3>1. g = f
      BY <2>5 DEF Tear, IInv, TypeOK, Trees
    <3>2. CASE Holds(p, "working")
      <4>1. CoveredWork
        BY <3>2, AtWork
      <4>2. g \in op.captured
        BY <2>5, <3>1, <3>2, <4>1 DEF Tear, Holds, CoveredWork
      <4> QED BY <2>1, <3>2, <4>2
    <3>3. CASE ~Holds(p, "working")
      BY <2>2, <2>5, <3>1, <3>3 DEF Tear
    <3> QED BY <3>2, <3>3
  <2>6. ASSUME NEW p \in Threads,
               Open(p) \/ Close(p) \/ Lock(p) \/ Recover(p) \/ Refuse(p) \/ Snapshot(p)
                 \/ SafetySnapshot(p) \/ BeginMutation(p) \/ Failure(p)
        PROVE  FALSE
    BY <2>6 DEF Open, Close, Lock, Recover, RetainUnreadable, CleanCommitted, StartUndo,
       FinishUndo, Opened, Refuse, Snapshot, SafetySnapshot, BeginMutation, BeginWrite,
       BeginRename, BeginDelete, BeginMerge, BeginImport, BeginRestore, Begin, Failure,
       BeginFails, Fail, UndoFails
  <2>7. ~ \E h \in Processes : Crash(h)
    BY DEF Crash
  <2>8. ASSUME NEW p \in Threads, NEW f \in Paths, PlanImport(p, f)
        PROVE  FALSE
    BY <2>8 DEF PlanImport
  <2> QED BY <2>3, <2>4, <2>5, <2>6, <2>7, <2>8 DEF Next, Progress, vars
<1>2. IInv /\ [Next]_vars => [Captured]_vars
  BY <1>1
<1> QED BY <1>2, InvariantHolds, PTL DEF Spec, CapturesBeforeChanging

=============================================================================
