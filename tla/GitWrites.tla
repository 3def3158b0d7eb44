------------------------------- MODULE GitWrites -------------------------------
(***************************************************************************)
(* The transactional Git writes of git_writes.py: a write is bound to a    *)
(* preview of the whole Git state, captures the administrative files it    *)
(* will change, changes them with Git plumbing, and ends with an audit     *)
(* event, a terminal journal and a receipt; whatever is interrupted is     *)
(* put back, at once or at the next start.                                 *)
(*                                                                         *)
(* A file is known by its version.  The tree of the index names the commit *)
(* made from it, so a branch is at the version of an index; HEAD and the   *)
(* reflogs go with the branch.  The repository's lock and the Git-write    *)
(* lock admit one operation at a time; the owner's own Git takes neither.  *)
(***************************************************************************)
EXTENDS Naturals

CONSTANTS
    Faults,       \* the calls that may raise, see AllFaults
    MaxTxns,      \* bound: transactions
    MaxVersions,  \* bound: versions of the index
    MaxNative,    \* bound: acts of the owner's own Git
    MaxFaults,    \* bound: calls that raise
    MaxCrashes    \* bound: deaths of the process

\* Before the try block; inside it; the writes that end a commit; a rollback.
AllFaults == {"capture", "apply", "report", "undo"}

ASSUME Parameters ==
  /\ {MaxTxns, MaxVersions, MaxNative, MaxFaults, MaxCrashes} \subseteq Nat
  /\ MaxVersions > 0 /\ Faults \subseteq AllFaults

Txns       == 1..MaxTxns
Versions   == 0..MaxVersions   \* 0: the file is missing
Files      == {"index", "branch", "name"}   \* name: the new branch or tag
Operations == {"stage", "commit", "create"}
Outside    == 0                \* the author of what no transaction wrote

\* _transaction_captures
Captures(op) ==
  CASE op = "stage"  -> {"index"}
    [] op = "commit" -> {"index", "branch"}
    [] op = "create" -> {"name"}

VARIABLES
    git,      \* the version of each file
    latest,   \* the newest version of the index there has been
    native,   \* a native lock, or the state of a merge or rebase, is there
    previews, \* the previews on disk: the operation, and the state it was shown for
    journal,  \* the journal of each transaction
    receipt,  \* the outcome that the receipt of each transaction tells
    audit,    \* the outcomes that the security ledger tells of each transaction
    started,  \* the number of transactions begun
    pc,       \* where the operation in progress is
    current,  \* its transaction
    doing,    \* its preview, none in a recovery
    todo,     \* the files it has still to capture or to put back
    memory,   \* the status of the transaction object
    queue,    \* the journals that the recovery has still to look at
    acts, faults, crashes,
    author,   \* history: who wrote each file, a transaction or Outside
    undone,   \* history: the transactions of which a file was put back
    slipped,  \* history: the transactions whose terminal writes raised
    left      \* history: a journal stayed unfinished while the process went on

evidence == <<journal, receipt, audit, started>>
locals   == <<current, doing, todo, memory, queue>>
bounds   == <<acts, faults, crashes>>
history  == <<undone, slipped, left>>
vars == <<git, latest, native, previews, evidence, pc, locals, bounds, author, history>>

-----------------------------------------------------------------------------
NoJournal == [status |-> "none", captured |-> {}, before |-> [f \in Files |-> 0]]
NoPreview == [op |-> "none", seen |-> [f \in Files |-> 0]]

Terminal   == {"committed", "rolled_back"}
Unfinished == {"prepared", "applying", "rollback_failed"}

recovering == doing.op = "none"

Init ==
  /\ git = [f \in Files |-> IF f = "name" THEN 0 ELSE 1] /\ latest = 1 /\ native = FALSE
  /\ previews = {}
  /\ journal = [t \in Txns |-> NoJournal] /\ receipt = [t \in Txns |-> "none"]
  /\ audit = [t \in Txns |-> {}] /\ started = 0
  /\ pc = "idle" /\ current = 0 /\ doing = NoPreview /\ todo = {} /\ memory = "none"
  /\ queue = {}
  /\ acts = 0 /\ faults = 0 /\ crashes = 0
  /\ author = [f \in Files |-> Outside] /\ undone = {} /\ slipped = {} /\ left = FALSE

SetStatus(t, status) == journal' = [journal EXCEPT ![t].status = status]

Raise(kind) ==
  /\ kind \in Faults
  /\ faults < MaxFaults /\ faults' = faults + 1
  /\ UNCHANGED <<acts, crashes>>

\* The operation ends; a recovery goes on with the next journal.
Leave(to) ==
  /\ pc' = to /\ current' = 0 /\ doing' = NoPreview /\ todo' = {} /\ memory' = "none"

\* rmtree of the transaction's root is best effort.
RemoveRoot(t) == journal' = [journal EXCEPT ![t] = NoJournal] \/ UNCHANGED journal

-----------------------------------------------------------------------------
(* The owner's own Git *)

Act == acts < MaxNative /\ acts' = acts + 1 /\ UNCHANGED <<faults, crashes>>

\* A command takes a lock, or a merge begins; and ends.
NativeState ==
  /\ IF native THEN UNCHANGED bounds ELSE Act
  /\ native' = ~native
  /\ UNCHANGED <<git, latest, previews, evidence, pc, locals, author, history>>

\* It stages, commits what is staged, and makes or removes the name.
NativeWrite ==
  /\ Act
  /\ \/ /\ latest < MaxVersions /\ latest' = latest + 1
        /\ git' = [git EXCEPT !["index"] = latest + 1]
        /\ author' = [author EXCEPT !["index"] = Outside]
     \/ /\ git["branch"] # git["index"]
        /\ git' = [git EXCEPT !["branch"] = git["index"]]
        /\ author' = [author EXCEPT !["branch"] = Outside]
        /\ UNCHANGED latest
     \/ /\ git' = [git EXCEPT !["name"] = IF @ = 0 THEN git["branch"] ELSE 0]
        /\ author' = [author EXCEPT !["name"] = Outside]
        /\ UNCHANGED latest
  /\ UNCHANGED <<native, previews, evidence, pc, locals, history>>

-----------------------------------------------------------------------------
(* preview *)

\* There is something to stage, to commit, or no such name yet.
Allowed(op) ==
  CASE op = "stage"  -> latest < MaxVersions
    [] op = "commit" -> git["index"] # git["branch"]
    [] op = "create" -> git["name"] = 0

Preview ==
  /\ pc = "idle" /\ ~native
  /\ \E op \in Operations :
       Allowed(op) /\ previews' = {[op |-> op, seen |-> git]}
  /\ UNCHANGED <<git, latest, native, evidence, pc, locals, bounds, author, history>>

\* It expired, or the Git state is another: it is removed.
DropPreview ==
  /\ pc = "idle" /\ previews # {} /\ previews' = {}
  /\ UNCHANGED <<git, latest, native, evidence, pc, locals, bounds, author, history>>

-----------------------------------------------------------------------------
(* execute *)

\* Under the locks: the state is the one of the preview, the ledger takes the
\* authorization, and the journal is made.
Authorize ==
  /\ pc = "idle" /\ ~native /\ started < MaxTxns
  /\ \E p \in previews :
       /\ p.seen = git
       /\ doing' = p /\ todo' = Captures(p.op)
  /\ started' = started + 1 /\ current' = started + 1
  /\ SetStatus(started + 1, "prepared") /\ memory' = "prepared"
  /\ pc' = "capture"
  /\ UNCHANGED <<git, latest, native, previews, receipt, audit, queue, bounds, author, history>>

Capture ==
  /\ pc = "capture"
  /\ \E f \in todo :
       /\ "index" \in todo => f = "index"
       /\ journal' = [journal EXCEPT
            ![current].captured = @ \cup {f}, ![current].before[f] = git[f]]
       /\ todo' = todo \ {f}
  /\ UNCHANGED <<git, latest, native, previews, receipt, audit, started>>
  /\ UNCHANGED <<pc, current, doing, memory, queue, bounds, author, history>>

Seal ==
  /\ pc = "capture" /\ todo = {}
  /\ SetStatus(current, "applying") /\ memory' = "applying"
  /\ pc' = "apply"
  /\ UNCHANGED <<git, latest, native, previews, receipt, audit, started>>
  /\ UNCHANGED <<current, doing, todo, queue, bounds, author, history>>

\* A capture is refused or fails, outside the try block: nothing rolls back.
CaptureFails ==
  /\ pc = "capture" /\ Raise("capture")
  /\ Leave("idle")
  /\ left' = TRUE
  /\ UNCHANGED <<git, latest, native, previews, evidence, queue, author, undone, slipped>>

Wrote(f) == author' = [author EXCEPT ![f] = current] /\ pc' = "installed"

\* git add; write-tree, commit-tree and update-ref from the old commit; update-ref
\* from no commit.
Apply ==
  /\ pc = "apply"
  /\ \/ /\ doing.op = "stage" /\ latest < MaxVersions
        /\ latest' = latest + 1
        /\ git' = [git EXCEPT !["index"] = latest + 1] /\ Wrote("index")
     \/ /\ doing.op = "commit" /\ git["branch"] = doing.seen["branch"]
        /\ git' = [git EXCEPT !["branch"] = git["index"]] /\ Wrote("branch")
        /\ UNCHANGED latest
     \/ /\ doing.op = "create" /\ git["name"] = 0
        /\ git' = [git EXCEPT !["name"] = doing.seen["branch"]] /\ Wrote("name")
        /\ UNCHANGED latest
  /\ UNCHANGED <<native, previews, evidence, locals, bounds, history>>

\* The verification after the write.
Verified ==
  CASE doing.op = "stage"  -> git["index"] # git["branch"]
    [] doing.op = "commit" -> git["branch"] = git["index"]
    [] doing.op = "create" -> git["name"] = doing.seen["branch"]

AuditSuccess ==
  /\ pc = "installed" /\ Verified
  /\ audit' = [audit EXCEPT ![current] = @ \cup {"success"}]
  /\ pc' = "seal"
  /\ UNCHANGED <<git, latest, native, previews, journal, receipt, started>>
  /\ UNCHANGED <<locals, bounds, author, history>>

\* Git refuses, or the verification does, because the owner's Git came between.
Refused ==
  \/ pc = "apply" /\ (doing.seen # git \/ latest = MaxVersions)
  \/ pc = "installed" /\ ~Verified

\* Or anything in the block raises.
ApplyFails ==
  /\ pc \in {"apply", "installed"}
  /\ (Refused /\ UNCHANGED bounds) \/ Raise("apply")
  /\ pc' = "undo" /\ todo' = journal[current].captured
  /\ UNCHANGED <<git, latest, native, previews, evidence>>
  /\ UNCHANGED <<current, doing, memory, queue, author, history>>

\* Variant: the journal on disk is not written.
WriteCommittedLate ==
  /\ pc = "seal"
  /\ memory' = "committed"
  /\ pc' = "receipt"
  /\ UNCHANGED <<git, latest, native, previews, evidence>>
  /\ UNCHANGED <<current, doing, todo, queue, bounds, author, history>>

\* commit: the journal, then the receipt, then the root and the preview go.
WriteCommitted ==
  /\ pc = "seal"
  /\ SetStatus(current, "committed") /\ memory' = "committed"
  /\ pc' = "receipt"
  /\ UNCHANGED <<git, latest, native, previews, receipt, audit, started>>
  /\ UNCHANGED <<current, doing, todo, queue, bounds, author, history>>

WriteReceipt ==
  /\ pc = "receipt"
  /\ receipt' = [receipt EXCEPT ![current] = "committed"]
  /\ pc' = "finish"
  /\ UNCHANGED <<git, latest, native, previews, journal, audit, started>>
  /\ UNCHANGED <<locals, bounds, author, history>>

Finish ==
  /\ pc = "finish"
  /\ RemoveRoot(current)
  /\ previews' = previews \ {doing}
  /\ Leave("idle")
  /\ UNCHANGED <<git, latest, native, receipt, audit, started, queue, bounds, author, history>>

\* A terminal write raises: the object says committed, and the rollback begins.
ReportFails ==
  /\ pc \in {"seal", "receipt"} /\ Raise("report")
  /\ memory' = "committed"
  /\ pc' = "undo" /\ todo' = journal[current].captured
  /\ slipped' = slipped \cup {current}
  /\ UNCHANGED <<git, latest, native, previews, evidence>>
  /\ UNCHANGED <<current, doing, queue, author, undone, left>>

-----------------------------------------------------------------------------
(* rollback *)

\* Variant: what was missing before is left as it is.
PutBackFiles ==
  /\ pc = "undo"
  /\ \E f \in todo :
       /\ "branch" \in todo => f = "branch"
       /\ git' = [git EXCEPT ![f] = IF journal[current].before[f] = 0 THEN @ ELSE journal[current].before[f]]
       /\ author' = [author EXCEPT ![f] = IF journal[current].before[f] = 0 THEN @ ELSE Outside]
       /\ todo' = todo \ {f}
  /\ undone' = undone \cup {current}
  /\ UNCHANGED <<latest, native, previews, evidence, pc, current, doing, memory, queue>>
  /\ UNCHANGED <<bounds, slipped, left>>

\* _restore_record, in reverse: the captured bytes, or no file.
PutBack ==
  /\ pc = "undo"
  /\ \E f \in todo :
       /\ "branch" \in todo => f = "branch"
       /\ git' = [git EXCEPT ![f] = journal[current].before[f]]
       /\ author' = [author EXCEPT ![f] = IF git'[f] = git[f] /\ @ # current THEN @ ELSE Outside]
       /\ todo' = todo \ {f}
  /\ undone' = undone \cup {current}
  /\ UNCHANGED <<latest, native, previews, evidence, pc, current, doing, memory, queue>>
  /\ UNCHANGED <<bounds, slipped, left>>

\* The checkpoint writes the status that the object has.
CheckpointRestored ==
  /\ pc = "undo" /\ todo = {}
  /\ SetStatus(current, memory)
  /\ pc' = "restored"
  /\ UNCHANGED <<git, latest, native, previews, receipt, audit, started>>
  /\ UNCHANGED <<locals, bounds, author, history>>

WriteRolledBack ==
  /\ pc = "restored"
  /\ SetStatus(current, "rolled_back") /\ memory' = "rolled_back"
  /\ pc' = "told"
  /\ UNCHANGED <<git, latest, native, previews, receipt, audit, started>>
  /\ UNCHANGED <<current, doing, todo, queue, bounds, author, history>>

WriteRollbackReceipt ==
  /\ pc = "told"
  /\ receipt' = [receipt EXCEPT ![current] = "rolled_back"]
  /\ pc' = "clear"
  /\ UNCHANGED <<git, latest, native, previews, journal, audit, started>>
  /\ UNCHANGED <<locals, bounds, author, history>>

\* The root goes, the ledger is told, and the preview of an execution goes.
EndRollback ==
  /\ pc = "clear"
  /\ RemoveRoot(current)
  /\ audit' = [audit EXCEPT ![current] = @ \cup {"rolled_back"}]
  /\ previews' = previews \ {doing}
  /\ queue' = queue \ {current}
  /\ Leave(IF recovering THEN "recover" ELSE "idle")
  /\ UNCHANGED <<git, latest, native, receipt, started, bounds, author, history>>

\* It raises: the journal says so, unless that write raises too.
RollbackFails ==
  /\ pc \in {"undo", "restored", "told"} /\ Raise("undo")
  /\ SetStatus(current, "rollback_failed") \/ UNCHANGED journal
  /\ audit' = IF recovering THEN audit ELSE [audit EXCEPT ![current] = @ \cup {"failure"}]
  /\ queue' = queue \ {current}
  /\ Leave(IF recovering THEN "recover" ELSE "idle")
  /\ left' = TRUE
  /\ UNCHANGED <<git, latest, native, previews, receipt, started, author, undone, slipped>>

-----------------------------------------------------------------------------
(* recover_pending_transactions, when the service is built *)

Start ==
  /\ pc = "down"
  /\ queue' = {t \in Txns : journal[t].status # "none"}
  /\ Leave("recover")
  /\ UNCHANGED <<git, latest, native, previews, evidence, bounds, author, history>>

\* A terminal journal: its receipt is made if it is missing, and its root goes.
FinishTerminal ==
  /\ pc = "recover"
  /\ \E t \in queue :
       /\ journal[t].status \in Terminal
       /\ receipt' = [receipt EXCEPT ![t] = IF @ = "none" THEN journal[t].status ELSE @]
       /\ RemoveRoot(t)
       /\ queue' = queue \ {t}
  /\ UNCHANGED <<git, latest, native, previews, audit, started, pc, current, doing, todo, memory>>
  /\ UNCHANGED <<bounds, author, history>>

\* Variant: a journal that was only being prepared is passed over.
BeginApplied ==
  /\ pc = "recover" /\ ~native
  /\ \E t \in queue :
       /\ journal[t].status = "applying"
       /\ current' = t /\ todo' = journal[t].captured /\ memory' = journal[t].status
  /\ pc' = "undo"
  /\ UNCHANGED <<git, latest, native, previews, evidence, doing, queue, bounds, author, history>>

\* An unfinished one is rolled back, whatever has happened to the files since.
BeginRecovery ==
  /\ pc = "recover" /\ ~native
  /\ \E t \in queue :
       /\ journal[t].status \in Unfinished
       /\ current' = t /\ todo' = journal[t].captured /\ memory' = journal[t].status
  /\ pc' = "undo"
  /\ UNCHANGED <<git, latest, native, previews, evidence, doing, queue, bounds, author, history>>

\* Native state defers it to a later start.
Defer ==
  /\ pc = "recover" /\ native
  /\ \E t \in queue :
       /\ journal[t].status \in Unfinished
       /\ queue' = queue \ {t}
  /\ left' = TRUE
  /\ UNCHANGED <<git, latest, native, previews, evidence, pc, current, doing, todo, memory>>
  /\ UNCHANGED <<bounds, author, undone, slipped>>

Started ==
  /\ pc = "recover" /\ queue = {}
  /\ pc' = "idle"
  /\ UNCHANGED <<git, latest, native, previews, evidence, locals, bounds, author, history>>

-----------------------------------------------------------------------------
\* The process dies at any step; its locks are free.
Crash ==
  /\ pc # "down" /\ crashes < MaxCrashes
  /\ crashes' = crashes + 1 /\ UNCHANGED <<acts, faults>>
  /\ queue' = {}
  /\ Leave("down")
  /\ UNCHANGED <<git, latest, native, previews, evidence, author, history>>

Execute ==
  \/ Capture \/ Seal \/ CaptureFails \/ Apply \/ ApplyFails \/ AuditSuccess
  \/ WriteCommitted \/ WriteReceipt \/ Finish \/ ReportFails

Rollback ==
  \/ PutBack \/ CheckpointRestored \/ WriteRolledBack \/ WriteRollbackReceipt
  \/ EndRollback \/ RollbackFails

Recover == Start \/ FinishTerminal \/ BeginRecovery \/ Defer \/ Started

Next ==
  \/ NativeState \/ NativeWrite \/ Preview \/ DropPreview \/ Authorize
  \/ Execute \/ Rollback \/ Recover \/ Crash

Spec == Init /\ [][Next]_vars

\* A running process goes on, and one that died is started again.
FairSpec == Spec /\ WF_vars(Execute \/ Rollback \/ Recover)

-----------------------------------------------------------------------------
(* Properties *)

\* Every variable holds a value of its kind, an operation in progress has a
\* transaction that is not told to be over, and what it puts back was captured.
TypeOK ==
  /\ git \in [Files -> Versions] /\ latest \in 1..MaxVersions /\ native \in BOOLEAN
  /\ previews \in SUBSET [op : Operations, seen : [Files -> Versions]]
  /\ journal \in [Txns -> [status : {"none"} \cup Unfinished \cup Terminal,
                           captured : SUBSET Files, before : [Files -> Versions]]]
  /\ receipt \in [Txns -> {"none"} \cup Terminal]
  /\ audit \in [Txns -> SUBSET {"success", "rolled_back", "failure"}]
  /\ started \in 0..MaxTxns
  /\ pc \in {"idle", "down", "recover", "capture", "apply", "installed", "seal", "receipt",
             "finish", "undo", "restored", "told", "clear"}
  /\ current \in 0..started /\ queue \in SUBSET (1..started)
  /\ doing \in [op : Operations \cup {"none"}, seen : [Files -> Versions]]
  /\ todo \in SUBSET Files /\ memory \in {"none"} \cup Unfinished \cup Terminal
  /\ current # 0 <=> pc \notin {"idle", "down", "recover"}
  /\ current # 0 => journal[current].status # "none"
  /\ pc = "undo" => todo \subseteq journal[current].captured
  /\ pc \in {"capture", "apply", "installed", "seal", "receipt", "finish"} =>
       receipt[current] = IF pc = "finish" THEN "committed" ELSE "none"
  /\ acts \in 0..MaxNative /\ faults \in 0..MaxFaults /\ crashes \in 0..MaxCrashes
  /\ author \in [Files -> 0..started] /\ undone \in SUBSET Txns /\ slipped \in SUBSET Txns
  /\ left \in BOOLEAN

\* "Exact rollback" and "verified receipts": of a write whose receipt says rolled
\* back nothing is left in Git, and one whose receipt says committed was never put
\* back, not even in part.
ReceiptsTell ==
  \A t \in Txns :
    /\ receipt[t] = "rolled_back" => \A f \in Files : author[f] # t
    /\ receipt[t] = "committed" /\ t \notin slipped => t \notin undone

\* A rollback puts back a file over what a write with a committed receipt made of it.
Reverts ==
  \E f \in Files :
    /\ author[f] \in Txns /\ git'[f] # git[f]
    /\ receipt[author[f]] = "committed"
    /\ pc = "undo" /\ todo' # todo

\* "Without reverting committed refs": no rollback or recovery undoes a later write that
\* has its receipt, if every journal was finished before the next write.
CommittedWritesStand == [][~left => ~Reverts]_vars

\* "Recovers incomplete work at startup": no journal stays unfinished, unless its
\* rollback failed or the start put it off.
JournalsEnd ==
  \A t \in Txns : journal[t].status \in Unfinished ~> journal[t].status \notin Unfinished \/ left

\* The scenario of a journal that the running process leaves behind.
CommittedWritesAlwaysStand == [][~Reverts]_vars

\* The scenario of a terminal write that raises: a committed receipt for a write that
\* was put back.
ReceiptsAlwaysTell ==
  \A t \in Txns : receipt[t] = "committed" => t \notin undone

\* The scenario of the audit that comes first: the ledger tells success of a write
\* whose receipt says rolled back.
LedgerAgrees ==
  \A t \in Txns : receipt[t] = "rolled_back" => "success" \notin audit[t]

\* The scenario of a recovery over the owner's own later Git work.
NativeWorkStands ==
  [][\A f \in Files : pc = "undo" /\ todo' # todo /\ git'[f] # git[f] => author[f] # Outside]_vars
=============================================================================
