----------------------------- MODULE SecurityLedger -----------------------------
(***************************************************************************)
(* The security history of security_events.py: a chain of events in an     *)
(* active database, sealed segments before it and a retention root for     *)
(* what was deleted; protected operations that append before and after     *)
(* they change a file; and the journaled rotation, which replaces one      *)
(* file after another, with its rollback and its recovery at the start.    *)
(*                                                                         *)
(* Events are numbers.  A hash is what it stands for: the hash of an event *)
(* is the chain up to it, that of a segment its number, that of a root the *)
(* root.  The ledger's lock admits one operation at a time.                *)
(***************************************************************************)
EXTENDS Naturals, FiniteSets, Sequences

CONSTANTS
    Faults,        \* the calls that may raise, see AllFaults
    Policies,      \* the numbers of events that a policy may retain
    DefaultPolicy, \* the one of a new installation
    MinProtected,  \* the events that no policy deletes
    MaxEvents,     \* bound: events
    MaxRotations,  \* bound: rotations
    MaxAnchors,    \* bound: anchor requests
    MaxFaults,     \* bound: calls that raise
    MaxCrashes     \* bound: deaths of the process

\* An append; a step of a rotation; the removal of its backups, in part; its
\* rollback; the journal that tells of the rollback.
AllFaults == {"append", "step", "remove", "undo", "report"}

ASSUME Parameters ==
  /\ {MinProtected, MaxEvents, MaxRotations, MaxAnchors, MaxFaults, MaxCrashes} \subseteq Nat
  /\ Policies \subseteq Nat /\ DefaultPolicy \in Policies
  /\ Faults \subseteq AllFaults

Events    == 1..MaxEvents
Rotations == 1..MaxRotations
Chains    == Seq(Events)

VARIABLES
    active,      \* the active database: what it is bound to, and its rows
    segments,    \* the sealed segments
    root,        \* the retention root: the end of what was deleted
    policy,      \* the retention policy
    anchors,     \* the heads of the chain that anchor requests hold
    receipts,    \* the anchors that have an external receipt
    journal,     \* the journal of each rotation, with what its files hold
    backups,     \* the parts of its directory that are still there
    pc,          \* where the operation in progress is
    doing,       \* which protected operation it is
    current,     \* which rotation it is
    queue,       \* the journals that the start has still to roll back
    compromised, \* the flag that blocks appends
    made,        \* the number of events ever made
    faults, crashes,
    told,        \* history: the events that the program was told are recorded
    left         \* history: a rollback failed, and its journal was left

chain    == <<active, segments, root>>
files    == <<policy, anchors, receipts>>
rotation == <<journal, backups>>
locals   == <<pc, doing, current, queue>>
bounds   == <<faults, crashes>>
vars == <<chain, files, rotation, locals, compromised, made, bounds, told, left>>

-----------------------------------------------------------------------------
Elements(s) == {s[i] : i \in DOMAIN s}

Genesis == [end |-> <<>>, segment |-> 0]   \* no retention root
NoRows  == [prev |-> <<>>, segment |-> 0, root |-> Genesis, rows |-> <<>>]
NoSegment == [id |-> 0, before |-> 0, prev |-> <<>>, rows |-> <<>>]
NoJournal == [state |-> "none", segment |-> NoSegment, pruned |-> {},
              active |-> NoRows, root |-> Genesis, newActive |-> NoRows, newRoot |-> Genesis]

Parts == {"active", "pruned", "root"}

Finished   == {"completed", "rolled_back"}
Incomplete == {r \in Rotations : journal[r].state \notin Finished \cup {"none"}}

\* The whole chain of hashes, whether its events are still kept or not.
Tip == active.prev \o active.rows

End(s) == s.prev \o s.rows

\* verify_integrity: root, segments and database are bound to one another.
Healthy ==
  /\ active.root = root
  /\ \A s \in segments :
       \/ s.before = root.segment /\ s.prev = root.end
       \/ \E t \in segments : s.before = t.id /\ s.prev = End(t)
  /\ \A s, t \in segments : s.before = t.before => s = t
  /\ \A s \in segments : s.id = active.segment \/ \E t \in segments : t.before = s.id
  /\ \/ segments = {} /\ active.segment = root.segment /\ active.prev = root.end
     \/ \E s \in segments : active.segment = s.id /\ active.prev = End(s)

Init ==
  /\ active = NoRows /\ segments = {} /\ root = Genesis
  /\ policy = DefaultPolicy /\ anchors = {} /\ receipts = {}
  /\ journal = [r \in Rotations |-> NoJournal] /\ backups = [r \in Rotations |-> {}]
  /\ pc = "idle" /\ doing = "none" /\ current = 0 /\ queue = {}
  /\ compromised = FALSE /\ made = 0
  /\ faults = 0 /\ crashes = 0 /\ told = {} /\ left = FALSE

Raise(kind) ==
  /\ kind \in Faults
  /\ faults < MaxFaults /\ faults' = faults + 1
  /\ UNCHANGED crashes

\* append: a committed transaction, unless the chain is known to be broken.
Append1 ==
  /\ ~compromised /\ made < MaxEvents
  /\ made' = made + 1
  /\ active' = [active EXCEPT !.rows = Append(@, made + 1)]
  /\ UNCHANGED <<segments, root>>

Leave == pc' = "idle" /\ doing' = "none" /\ current' = 0 /\ UNCHANGED queue

-----------------------------------------------------------------------------
(* Events and protected operations *)

Record ==
  /\ pc = "idle" /\ Append1
  /\ told' = told \cup {made + 1}
  /\ UNCHANGED <<files, rotation, locals, compromised, bounds, left>>

\* It raises, before or after the commit.
RecordFails ==
  /\ pc = "idle" /\ Raise("append") /\ Append1
  /\ UNCHANGED <<files, rotation, locals, compromised, told, left>>

\* Any request that verifies the chain sets the flag.
Verify ==
  /\ pc = "idle" /\ compromised' = ~Healthy
  /\ UNCHANGED <<chain, files, rotation, locals, made, bounds, told, left>>

\* update_retention_policy, create_anchor_request, record_anchor_receipt:
\* assert_writable, and the event that authorizes it.
Authorize ==
  /\ pc = "idle" /\ Healthy /\ Append1
  /\ \/ doing' = "policy"
     \/ doing' = "anchor" /\ Cardinality(anchors) < MaxAnchors
     \/ doing' = "receipt" /\ anchors # receipts
  /\ pc' = "write"
  /\ UNCHANGED <<files, rotation, current, queue, compromised, bounds, told, left>>

WriteFile ==
  /\ pc = "write"
  /\ \/ doing = "policy" /\ policy' \in Policies \ {policy} /\ UNCHANGED <<anchors, receipts>>
     \/ doing = "anchor" /\ anchors' = anchors \cup {Tip} /\ UNCHANGED <<policy, receipts>>
     \/ /\ doing = "receipt" /\ UNCHANGED <<policy, anchors>>
        /\ \E a \in anchors \ receipts : receipts' = receipts \cup {a}
  /\ pc' = "confirm"
  /\ UNCHANGED <<chain, rotation, doing, current, queue, compromised, made, bounds, told, left>>

Confirm ==
  /\ pc = "confirm" /\ Append1
  /\ told' = told \cup {made, made + 1}
  /\ Leave
  /\ UNCHANGED <<files, rotation, compromised, bounds, left>>

\* What raises leaves the authorization without its outcome, or the file without its event.
ProtectedFails ==
  /\ pc \in {"write", "confirm", "prepare"}
  /\ IF made = MaxEvents THEN UNCHANGED bounds ELSE Raise("append")
  /\ Leave
  /\ UNCHANGED <<chain, files, rotation, compromised, made, told, left>>

-----------------------------------------------------------------------------
(* Rotation *)

\* The preview is made again, under the lock, and is the one that the owner was shown:
\* the chain verifies, no journal is incomplete, and there are rows to rotate beside
\* one that stays.  The ledger takes the authorization.
AuthorizeRotation ==
  /\ pc = "idle" /\ Healthy /\ Incomplete = {}
  /\ Len(active.rows) > 1
  /\ \E r \in Rotations :
       /\ journal[r].state = "none" /\ \A q \in 1..(r - 1) : journal[q].state # "none"
       /\ current' = r
  /\ Append1
  /\ pc' = "prepare"
  /\ UNCHANGED <<files, rotation, doing, queue, compromised, bounds, told, left>>

\* The oldest segments, as long as the policy retains less and enough stays protected.
Prunable(total) ==
  {s \in segments : /\ total - (Len(s.prev) - Len(root.end)) > policy
                    /\ total - (Len(End(s)) - Len(root.end)) >= MinProtected}

LastOf(S) == CHOOSE s \in S : \A t \in S : Len(t.prev) <= Len(s.prev)

\* What the rotation will install, and what it keeps to go back.
Plan(count) ==
  LET pruned  == Prunable(Len(Tip) - 1 - Len(root.end))
      segment == [id |-> current, before |-> active.segment, prev |-> active.prev,
                  rows |-> SubSeq(active.rows, 1, count)]
      newRoot == IF pruned = {} THEN root
                 ELSE [end |-> End(LastOf(pruned)), segment |-> LastOf(pruned).id]
  IN [state |-> "prepared", segment |-> segment, pruned |-> pruned,
      active |-> active, root |-> root, newRoot |-> newRoot,
      newActive |-> [prev |-> End(segment), segment |-> current, root |-> newRoot,
                     rows |-> SubSeq(active.rows, count + 1, Len(active.rows))]]

Prepare ==
  /\ pc = "prepare"
  /\ \E count \in 1..(Len(active.rows) - 2) :
       journal' = [journal EXCEPT ![current] = Plan(count)]
  /\ backups' = [backups EXCEPT ![current] = IF root = Genesis THEN Parts \ {"root"} ELSE Parts]
  /\ pc' = "prepared"
  /\ UNCHANGED <<chain, files, doing, current, queue, compromised, made, bounds, told, left>>

SetState(state) == journal' = [journal EXCEPT ![current].state = state]

WriteInstalling ==
  /\ pc = "prepared" /\ SetState("installing") /\ pc' = "segment"
  /\ UNCHANGED <<chain, files, backups, doing, current, queue, compromised, made, bounds, told, left>>

InstallSegment ==
  /\ pc = "segment" /\ pc' = "prune"
  /\ segments' = segments \cup {journal[current].segment}
  /\ UNCHANGED <<active, root, files, rotation, doing, current, queue>>
  /\ UNCHANGED <<compromised, made, bounds, told, left>>

PruneSegment ==
  /\ pc = "prune"
  /\ \E s \in journal[current].pruned \cap segments : segments' = segments \ {s}
  /\ UNCHANGED <<active, root, files, rotation, locals, compromised, made, bounds, told, left>>

InstallRoot ==
  /\ pc = "prune" /\ journal[current].pruned \cap segments = {}
  /\ root' = journal[current].newRoot /\ pc' = "active"
  /\ UNCHANGED <<active, segments, files, rotation, doing, current, queue>>
  /\ UNCHANGED <<compromised, made, bounds, told, left>>

InstallActive ==
  /\ pc = "active" /\ pc' = "installed"
  /\ active' = journal[current].newActive
  /\ UNCHANGED <<segments, root, files, rotation, doing, current, queue>>
  /\ UNCHANGED <<compromised, made, bounds, told, left>>

WriteInstalled ==
  /\ pc = "installed" /\ SetState("installed") /\ pc' = "verify"
  /\ UNCHANGED <<chain, files, backups, doing, current, queue, compromised, made, bounds, told, left>>

WriteCompleted ==
  /\ pc = "verify" /\ Healthy
  /\ SetState("completed") /\ pc' = "remove"
  /\ UNCHANGED <<chain, files, backups, doing, current, queue, compromised, made, bounds, told, left>>

\* rmtree ignores its errors: any part may stay.
RemoveBackups ==
  /\ pc = "remove" /\ pc' = "tell"
  /\ \/ backups' = [backups EXCEPT ![current] = {}] /\ UNCHANGED bounds
     \/ /\ Raise("remove")
        /\ \E part \in backups[current] : backups' = [backups EXCEPT ![current] = {part}]
  /\ compromised' = FALSE
  /\ UNCHANGED <<chain, files, journal, doing, current, queue, made, told, left>>

TellCompleted ==
  /\ pc = "tell" /\ Append1
  /\ told' = told \cup {made, made + 1}
  /\ Leave
  /\ UNCHANGED <<files, rotation, compromised, bounds, left>>

Installing == {"prepared", "segment", "prune", "active", "installed", "verify"}

\* Any step raises, the append that tells of it too: the handler rolls back.
StepFails ==
  /\ \/ /\ pc \in Installing
        /\ IF pc = "verify" /\ ~Healthy THEN UNCHANGED bounds ELSE Raise("step")
     \/ /\ pc = "tell"
        /\ IF made = MaxEvents THEN UNCHANGED bounds ELSE Raise("append")
  /\ pc' = "undo"
  /\ left' = (left \/ journal[current].state = "completed")
  /\ UNCHANGED <<chain, files, rotation, doing, current, queue, compromised, made, told>>

-----------------------------------------------------------------------------
(* _rollback_rotation_locked, by the handler or at the start *)

\* A backup that the next step takes is not there.
Missing ==
  \/ pc = "undo" /\ "active" \notin backups[current]
  \/ pc = "undo root" /\ journal[current].root # Genesis /\ "root" \notin backups[current]

RestoreActive ==
  /\ pc = "undo" /\ ~Missing
  /\ active' = journal[current].active /\ pc' = "undo segment"
  /\ UNCHANGED <<segments, root, files, rotation, doing, current, queue>>
  /\ UNCHANGED <<compromised, made, bounds, told, left>>

RemoveSegment ==
  /\ pc = "undo segment" /\ pc' = "undo pruned"
  /\ segments' = segments \ {journal[current].segment}
  /\ UNCHANGED <<active, root, files, rotation, doing, current, queue>>
  /\ UNCHANGED <<compromised, made, bounds, told, left>>

\* Variant: the segments that were deleted stay deleted.
RestoreNone ==
  /\ pc = "undo pruned" /\ pc' = "undo root"
  /\ UNCHANGED <<chain, files, rotation, doing, current, queue>>
  /\ UNCHANGED <<compromised, made, bounds, told, left>>

\* One copy after the other; a directory that is not there is passed over.
RestorePruned ==
  /\ pc = "undo pruned"
  /\ IF "pruned" \in backups[current] /\ ~(journal[current].pruned \subseteq segments)
     THEN /\ \E s \in journal[current].pruned \ segments : segments' = segments \cup {s}
          /\ UNCHANGED pc
     ELSE UNCHANGED segments /\ pc' = "undo root"
  /\ UNCHANGED <<active, root, files, rotation, doing, current, queue>>
  /\ UNCHANGED <<compromised, made, bounds, told, left>>

\* Variant: the root that the rotation installed stays.
RestoreNoRoot ==
  /\ pc = "undo root" /\ pc' = "report"
  /\ UNCHANGED <<chain, files, rotation, doing, current, queue>>
  /\ UNCHANGED <<compromised, made, bounds, told, left>>

RestoreRoot ==
  /\ pc = "undo root" /\ ~Missing
  /\ root' = journal[current].root /\ pc' = "report"
  /\ UNCHANGED <<active, segments, files, rotation, doing, current, queue>>
  /\ UNCHANGED <<compromised, made, bounds, told, left>>

recovering == current \in queue

\* The start goes on with the next journal; the handler verifies and raises.
EndUndo ==
  /\ doing' = "none" /\ current' = 0 /\ queue' = queue \ {current}
  /\ IF recovering THEN pc' = "recover" /\ UNCHANGED compromised
     ELSE pc' = "idle" /\ compromised' = ~Healthy

WriteRolledBack ==
  /\ pc = "report" /\ SetState("rolled_back") /\ EndUndo
  /\ UNCHANGED <<chain, files, backups, made, bounds, told, left>>

\* A backup is not there, or a copy fails.  The start leaves the journal as it is.
UndoFails ==
  /\ pc \in {"undo", "undo segment", "undo pruned", "undo root"}
  /\ IF Missing THEN UNCHANGED bounds ELSE Raise("undo")
  /\ IF recovering THEN EndUndo
     ELSE pc' = "failed" /\ UNCHANGED <<doing, current, queue, compromised>>
  /\ left' = TRUE
  /\ UNCHANGED <<chain, files, rotation, made, told>>

WriteFailed ==
  /\ pc = "failed" /\ SetState("recovery_failed") /\ EndUndo
  /\ UNCHANGED <<chain, files, backups, made, bounds, told, left>>

\* The journal cannot be written: the handler raises before it verifies.
ReportFails ==
  /\ pc \in {"report", "failed"} /\ Raise("report")
  /\ doing' = "none" /\ current' = 0 /\ queue' = queue \ {current}
  /\ pc' = IF recovering THEN "recover" ELSE "idle"
  /\ left' = TRUE
  /\ UNCHANGED <<chain, files, rotation, compromised, made, told>>

-----------------------------------------------------------------------------
(* The start *)

\* Variant: a rotation that completed is rolled back too, while its backups are there.
StartEvery ==
  /\ pc = "down" /\ pc' = "recover"
  /\ queue' = {r \in Rotations : journal[r].state \notin {"none", "rolled_back"} /\ backups[r] # {}}
  /\ UNCHANGED <<chain, files, rotation, doing, current, compromised, made, bounds, told, left>>

\* Variant: only what was being installed is rolled back.
StartInstalling ==
  /\ pc = "down" /\ pc' = "recover"
  /\ queue' = {r \in Rotations : journal[r].state = "installing"}
  /\ UNCHANGED <<chain, files, rotation, doing, current, compromised, made, bounds, told, left>>

Start ==
  /\ pc = "down" /\ pc' = "recover" /\ queue' = Incomplete
  /\ UNCHANGED <<chain, files, rotation, doing, current, compromised, made, bounds, told, left>>

Recover ==
  /\ pc = "recover" /\ pc' = "undo"
  /\ current' \in queue
  /\ UNCHANGED <<chain, files, rotation, doing, queue, compromised, made, bounds, told, left>>

Started ==
  /\ pc = "recover" /\ queue = {}
  /\ pc' = "idle" /\ compromised' = ~Healthy
  /\ UNCHANGED <<chain, files, rotation, doing, current, queue, made, bounds, told, left>>

Crash ==
  /\ pc # "down" /\ crashes < MaxCrashes /\ crashes' = crashes + 1 /\ UNCHANGED faults
  /\ pc' = "down" /\ doing' = "none" /\ current' = 0 /\ queue' = {}
  /\ compromised' = FALSE
  /\ UNCHANGED <<chain, files, rotation, made, told, left>>

Rotate ==
  \/ Prepare \/ WriteInstalling \/ InstallSegment \/ PruneSegment \/ InstallRoot
  \/ InstallActive \/ WriteInstalled \/ WriteCompleted \/ RemoveBackups \/ TellCompleted
  \/ StepFails

Rollback ==
  \/ RestoreActive \/ RemoveSegment \/ RestorePruned \/ RestoreRoot \/ WriteRolledBack
  \/ UndoFails \/ WriteFailed \/ ReportFails

Next ==
  \/ Record \/ RecordFails \/ Verify \/ Authorize \/ WriteFile \/ Confirm \/ ProtectedFails
  \/ AuthorizeRotation \/ Rotate \/ Rollback
  \/ Start \/ Recover \/ Started \/ Crash

Spec == Init /\ [][Next]_vars

\* A running process goes on, and one that died is started again.
FairSpec == Spec /\ WF_vars(Rotate \/ Rollback \/ Start \/ Recover \/ Started)

-----------------------------------------------------------------------------
(* Properties *)

\* Every variable holds a value of its kind; a rotation that is not finished has what
\* its rollback needs, and the rows it seals were the oldest of the database.
TypeOK ==
  /\ active \in [prev : Chains, segment : 0..MaxRotations,
                 root : [end : Chains, segment : 0..MaxRotations], rows : Chains]
  /\ \A s \in segments : s.id \in Rotations /\ s.before \in 0..MaxRotations
  /\ root \in [end : Chains, segment : 0..MaxRotations]
  /\ policy \in Policies /\ anchors \subseteq Chains /\ receipts \subseteq anchors
  /\ \A r \in Rotations :
       journal[r].state \in Finished \cup {"none", "prepared", "installing", "installed", "recovery_failed"}
  /\ backups \in [Rotations -> SUBSET Parts]
  /\ pc \in Installing \cup {"remove", "idle", "down", "recover", "write", "confirm", "prepare", "tell",
       "undo", "undo segment", "undo pruned", "undo root", "report", "failed"}
  /\ doing \in {"none", "policy", "anchor", "receipt"}
  /\ current \in 0..MaxRotations /\ queue \subseteq Rotations /\ compromised \in BOOLEAN
  /\ made \in 0..MaxEvents /\ faults \in 0..MaxFaults /\ crashes \in 0..MaxCrashes
  /\ told \subseteq 1..made /\ left \in BOOLEAN
  /\ \A r \in Incomplete : journal[r].state # "recovery_failed" => {"active", "pruned"} \subseteq backups[r]

\* Whatever rotations did, failed at or died in, the chain verifies and appends are
\* open when no operation is in progress, unless a rollback failed.
ChainVerifies == pc = "idle" /\ ~left => Healthy /\ ~compromised

Kept == Elements(active.rows) \cup UNION {Elements(s.rows) : s \in segments}

\* "Append-only": an event the program was told is recorded is in the chain for good,
\* and can be read unless retention deleted it with the oldest; unless a rollback failed.
EventsStay ==
  pc = "idle" /\ ~left =>
    \A e \in told : e \in Elements(Tip) /\ (e \in Kept \/ e \in Elements(root.end))

\* The head that an anchor request holds, and may have been published with, stays on
\* the chain; unless a rollback failed.
AnchorsHold ==
  pc = "idle" /\ ~left =>
    \A a \in anchors : Len(a) <= Len(Tip) /\ a = SubSeq(Tip, 1, Len(a))

\* "Startup rolls an incomplete installation back": no journal stays incomplete, and
\* blocks every further rotation, unless its rollback failed.
RotationsEnd == \A r \in Rotations : r \in Incomplete ~> r \notin Incomplete \/ left

\* The scenario of a rollback that fails and is tried again at a later start, over the
\* events recorded since.
EventsAlwaysStay == pc = "idle" => \A e \in told : e \in Elements(Tip)

\* The scenario of a step that fails after the backups of a completed rotation went:
\* its journal is never recovered.
RotationsAlwaysEnd == \A r \in Rotations : r \in Incomplete ~> r \notin Incomplete

\* The scenario of a completed rotation that is rolled back in part: its journal says
\* completed, and no start goes on with the rollback.
ChainAlwaysVerifies == pc = "idle" => Healthy
=============================================================================
