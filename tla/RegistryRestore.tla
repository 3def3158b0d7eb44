---------------------------- MODULE RegistryRestore ----------------------------
(***************************************************************************)
(* Backups of the registry, their retention, and their journaled restore,  *)
(* rollback and startup recovery (registry_restore.py, registry.py).  A    *)
(* registry is known by its logical digest, here a version; a backup by    *)
(* its name, here the order in which it was made.                          *)
(*                                                                         *)
(* Every operation holds the registry's lock and the operation lock from   *)
(* its first step to its last, so one runs at a time, of whatever process; *)
(* only the death of its process cuts it short, and then whoever opens the *)
(* registry next recovers first.                                           *)
(***************************************************************************)
EXTENDS FiniteSets, Naturals

CONSTANTS
    Keep,        \* unprotected backups that retention leaves, 20 in the code
    Faults,      \* the calls that may raise, see AllFaults
    MaxVersions, \* bound: different registries
    MaxBackups,  \* bound: backups made
    MaxRestores, \* bound: restores journaled
    MaxFaults,   \* bound: calls that raise
    MaxCrashes   \* bound: deaths of a process

\* A step of a restore or rollback; the undo of one; the write of its journal in
\* an exception handler; a step of the recovery.
AllFaults == {"step", "undo", "report", "recovery"}

ASSUME Parameters ==
  /\ {Keep, MaxVersions, MaxBackups, MaxRestores, MaxFaults, MaxCrashes} \subseteq Nat
  /\ Keep > 0 /\ MaxVersions > 0
  /\ Faults \subseteq AllFaults

Versions == 1..MaxVersions
Backups  == 1..MaxBackups
Restores == 1..MaxRestores
Modes    == {"merge", "replace"}

Unfinished == {"prepared", "installing", "installed"}
Undone     == {"abandoned", "failed_rolled_back", "recovered", "rolled_back"}

VARIABLES
    live,      \* the version of registry.sqlite3
    latest,    \* the newest version there has been
    made,      \* the number of backups made
    backups,   \* the backups there are
    content,   \* the version that each backup holds
    journal,   \* the journal of each restore
    started,   \* the number of restores journaled
    preview,   \* what the owner saw: a backup, a mode and the live version
    pc,        \* where the operation in progress is
    current,   \* the restore that it works on
    safety,    \* the backup that it has made
    todo,      \* the journals that the recovery has still to look at
    faults, crashes,
    later,     \* history: the owner has changed the registry since the last install
    unreported \* history: an operation ended, and its journal does not say how

store  == <<made, backups, content>>
locals == <<current, safety, todo>>
bounds == <<faults, crashes>>
history == <<later, unreported>>
vars   == <<live, latest, store, journal, started, preview, pc, locals, bounds, history>>

-----------------------------------------------------------------------------
NoJournal ==
  [state |-> "none", before |-> 0, after |-> 0, pre |-> 0, available |-> FALSE,
   rollback |-> "none", preRollback |-> 0]

NoPreview == [source |-> 0, mode |-> "replace", seen |-> 0]

Write(r, entry) == journal' = [journal EXCEPT ![r] = entry]

\* The operation ends and its local variables are gone.  A preview is not kept: the
\* owner may ask for the same one again.
Leave(to) == pc' = to /\ current' = 0 /\ safety' = 0 /\ todo' = {} /\ preview' = NoPreview

Raise(kind) ==
  /\ kind \in Faults
  /\ faults < MaxFaults /\ faults' = faults + 1
  /\ UNCHANGED crashes

\* Variant: only restores in progress protect their backups.
ProtectedUnfinished ==
  {journal[r].pre : r \in {q \in Restores : journal[q].state \in Unfinished}}

\* protected_backup_names
Protected ==
  {journal[r].pre : r \in {q \in Restores : journal[q].available \/ journal[q].state \in Unfinished}}
    \cup {journal[r].preRollback : r \in {q \in Restores : journal[q].rollback = "installing"}}

\* create_backup: the live registry is copied, and then the oldest unprotected
\* backups are pruned.
MakeBackup ==
  /\ made < MaxBackups
  /\ made' = made + 1
  /\ content' = [content EXCEPT ![made'] = live]
  /\ LET all == backups \cup {made'}
     IN  backups' = {b \in all : b \in Protected
                                   \/ Cardinality({c \in all \ Protected : c >= b}) <= Keep}

\* _restore_exact_from_backup: the backup must be there and hold what was recorded.
Exact(b, version) == b \in backups /\ content[b] = version

Init ==
  /\ live = 1 /\ latest = 1
  /\ made = 0 /\ backups = {} /\ content = [b \in Backups |-> 1]
  /\ journal = [r \in Restores |-> NoJournal] /\ started = 0
  /\ preview = NoPreview
  /\ pc = "idle" /\ current = 0 /\ safety = 0 /\ todo = {}
  /\ faults = 0 /\ crashes = 0
  /\ later = FALSE /\ unreported = FALSE

-----------------------------------------------------------------------------
(* The owner *)

\* Any other change of the registry.
Edit ==
  /\ pc = "idle" /\ latest < MaxVersions
  /\ live' = latest + 1 /\ latest' = latest + 1
  /\ later' = TRUE
  /\ UNCHANGED unreported
  /\ UNCHANGED <<store, journal, started, preview, pc, locals, bounds>>

CreateBackup ==
  /\ pc = "idle"
  /\ MakeBackup
  /\ UNCHANGED <<live, latest, journal, started, preview, pc, locals, bounds, history>>

\* preview: its identifier is a digest of the backup, the mode and the live version.
Preview ==
  /\ pc = "idle"
  /\ \E b \in backups, m \in Modes : preview' = [source |-> b, mode |-> m, seen |-> live]
  /\ UNCHANGED <<live, latest, store, journal, started, pc, locals, bounds, history>>

-----------------------------------------------------------------------------
(* restore *)

\* A preview that is no longer current is refused; otherwise a backup is made.
BeginRestore ==
  /\ pc = "idle" /\ started < MaxRestores
  /\ preview.source \in backups /\ preview.seen = live
  /\ MakeBackup
  /\ safety' = made' /\ current' = started + 1 /\ started' = started + 1
  /\ pc' = "prepare"
  /\ UNCHANGED <<live, latest, journal, preview, todo, bounds, history>>

WritePrepared ==
  /\ pc = "prepare"
  /\ Write(current, [NoJournal EXCEPT !.state = "prepared", !.before = live, !.pre = safety])
  /\ pc' = "stage"
  /\ UNCHANGED <<live, latest, store, started, preview, locals, bounds, history>>

\* The chosen backup is copied, migrated and inspected: it must still be there.
Stage ==
  /\ pc = "stage"
  /\ pc' = IF preview.source \in backups THEN "staged" ELSE "failed"
  /\ UNCHANGED <<live, latest, store, journal, started, preview, locals, bounds, history>>

WriteInstalling ==
  /\ pc = "staged"
  /\ Write(current, [journal[current] EXCEPT !.state = "installing"])
  /\ pc' = "install"
  /\ UNCHANGED <<live, latest, store, started, preview, locals, bounds, history>>

\* os.replace of the database, or one transaction that adds what is missing.
Install ==
  /\ pc = "install"
  /\ \/ preview.mode = "replace" /\ live' = content[preview.source] /\ UNCHANGED latest
     \/ preview.mode = "merge" /\ UNCHANGED <<live, latest>>
     \/ /\ preview.mode = "merge" /\ latest < MaxVersions
        /\ live' = latest + 1 /\ latest' = latest + 1
  /\ later' = FALSE
  /\ UNCHANGED unreported
  /\ pc' = "verify"
  /\ UNCHANGED <<store, journal, started, preview, locals, bounds>>

WriteInstalled ==
  /\ pc = "verify"
  /\ Write(current, [journal[current] EXCEPT !.state = "installed", !.after = live])
  /\ pc' = "complete"
  /\ UNCHANGED <<live, latest, store, started, preview, locals, bounds, history>>

WriteCompleted ==
  /\ pc = "complete"
  /\ Write(current, [journal[current] EXCEPT !.state = "completed", !.available = TRUE])
  /\ pc' = "prune"
  /\ UNCHANGED <<live, latest, store, started, preview, locals, bounds, history>>

\* Old journals are pruned, none that may be rolled back, and the owner is told.
Completed ==
  /\ pc = "prune"
  /\ Leave("idle")
  /\ UNCHANGED <<live, latest, store, journal, started, bounds, history>>

\* A step raises: once the mutation has started, it is undone.
StepFails ==
  /\ pc \in {"prepare", "stage", "staged", "install", "verify", "complete", "prune"}
  /\ Raise("step")
  /\ \/ pc = "prepare" /\ Leave("idle")
     \/ pc \in {"stage", "staged"} /\ pc' = "failed" /\ UNCHANGED <<preview, locals>>
     \/ pc \notin {"prepare", "stage", "staged"} /\ pc' = "undo" /\ UNCHANGED <<preview, locals>>
  /\ UNCHANGED <<live, latest, store, journal, started, history>>

\* Variant: the undo takes the backup for the one that was chosen.
UndoToSource ==
  /\ pc = "undo" /\ preview.source \in backups
  /\ live' = content[preview.source]
  /\ pc' = "undone"
  /\ UNCHANGED <<latest, store, journal, started, preview, locals, bounds, history>>

Undo ==
  /\ pc = "undo" /\ Exact(safety, journal[current].before)
  /\ live' = content[safety]
  /\ pc' = "undone"
  /\ UNCHANGED <<latest, store, journal, started, preview, locals, bounds, history>>

\* It raises, before or after the replacement, or the backup is not what was recorded.
UndoFails ==
  /\ pc = "undo"
  /\ IF Exact(safety, journal[current].before)
       THEN Raise("undo") /\ live' \in {live, content[safety]}
       ELSE UNCHANGED <<bounds, live>>
  /\ pc' = "failed"
  /\ UNCHANGED <<latest, store, journal, started, preview, locals, history>>

WriteFailed ==
  /\ pc \in {"undone", "failed"}
  /\ Write(current, [journal[current] EXCEPT
       !.state = IF pc = "undone" THEN "failed_rolled_back" ELSE "failed",
       !.available = FALSE])
  /\ Leave("idle")
  /\ UNCHANGED <<live, latest, store, started, bounds, history>>

\* The handler's own write raises: the journal on disk stays as it was.
WriteFailedFails ==
  /\ pc \in {"undone", "failed"}
  /\ Raise("report")
  /\ Leave("idle")
  /\ unreported' = TRUE
  /\ UNCHANGED <<live, latest, store, journal, started, later>>

-----------------------------------------------------------------------------
(* rollback *)

\* Variant: later work does not keep a rollback from starting.
BeginRollbackStale ==
  /\ pc = "idle"
  /\ \E r \in Restores :
       /\ journal[r].state = "completed" /\ journal[r].available
       /\ current' = r
  /\ MakeBackup
  /\ safety' = made'
  /\ pc' = "rb_write"
  /\ UNCHANGED <<live, latest, journal, started, preview, todo, bounds, history>>

\* Only a completed restore that nothing has changed since may be rolled back.
BeginRollback ==
  /\ pc = "idle"
  /\ \E r \in Restores :
       /\ journal[r].state = "completed" /\ journal[r].available
       /\ journal[r].after = live
       /\ current' = r
  /\ MakeBackup
  /\ safety' = made'
  /\ pc' = "rb_write"
  /\ UNCHANGED <<live, latest, journal, started, preview, todo, bounds, history>>

WriteRollback ==
  /\ pc = "rb_write"
  /\ Write(current, [journal[current] EXCEPT !.rollback = "installing", !.preRollback = safety])
  /\ pc' = "rb_install"
  /\ UNCHANGED <<live, latest, store, started, preview, locals, bounds, history>>

InstallRollback ==
  /\ pc = "rb_install" /\ Exact(journal[current].pre, journal[current].before)
  /\ live' = content[journal[current].pre]
  /\ later' = FALSE
  /\ UNCHANGED unreported
  /\ pc' = "rb_report"
  /\ UNCHANGED <<latest, store, journal, started, preview, locals, bounds>>

WriteRolledBack ==
  /\ pc = "rb_report"
  /\ Write(current, [journal[current] EXCEPT
       !.state = "rolled_back", !.available = FALSE, !.rollback = "completed"])
  /\ Leave("idle")
  /\ UNCHANGED <<live, latest, store, started, bounds, history>>

\* The write that ends the rollback counts as the report of it.
RollbackFails ==
  /\ \/ pc = "rb_write" /\ Raise("step") /\ Leave("idle") /\ UNCHANGED unreported
     \/ /\ pc = "rb_install" /\ pc' = "rb_undo" /\ UNCHANGED <<preview, locals, unreported>>
        /\ IF Exact(journal[current].pre, journal[current].before)
             THEN Raise("step") /\ live' \in {live, content[journal[current].pre]}
             ELSE UNCHANGED <<bounds, live>>
     \/ /\ pc = "rb_report" /\ Raise("report") /\ pc' = "rb_undo_told"
        /\ unreported' = TRUE /\ UNCHANGED <<preview, locals>>
     \/ /\ pc \in {"rb_failed", "rb_failed_told"} /\ Raise("report") /\ Leave("idle")
        /\ unreported' = TRUE
  /\ pc # "rb_install" => UNCHANGED live
  /\ UNCHANGED <<latest, store, journal, started, later>>

UndoRollback ==
  /\ pc \in {"rb_undo", "rb_undo_told"} /\ Exact(safety, journal[current].after)
  /\ live' = content[safety]
  /\ pc' = IF pc = "rb_undo" THEN "rb_failed" ELSE "rb_failed_told"
  /\ UNCHANGED <<latest, store, journal, started, preview, locals, bounds, history>>

UndoRollbackFails ==
  /\ pc \in {"rb_undo", "rb_undo_told"}
  /\ IF Exact(safety, journal[current].after)
       THEN Raise("undo") /\ live' \in {live, content[safety]}
       ELSE UNCHANGED <<bounds, live>>
  /\ pc' = IF pc = "rb_undo" THEN "rb_failed" ELSE "rb_failed_told"
  /\ UNCHANGED <<latest, store, journal, started, preview, locals, history>>

\* The journal in memory is written: if the write that ends the rollback raised, it
\* says already that the rollback is done.
WriteRollbackFailed ==
  /\ \/ /\ pc = "rb_failed"
        /\ Write(current, [journal[current] EXCEPT !.rollback = "failed"])
     \/ /\ pc = "rb_failed_told"
        /\ Write(current, [journal[current] EXCEPT
             !.state = "rolled_back", !.available = FALSE, !.rollback = "failed"])
  /\ Leave("idle")
  /\ UNCHANGED <<live, latest, store, started, bounds, history>>

-----------------------------------------------------------------------------
(* recover_startup, by whoever opens the registry *)

\* Variant: only installations in progress are looked at.
ListInstalling ==
  /\ todo' = {r \in Restores : journal[r].state = "installing"}
  /\ pc' = "recover"
  /\ UNCHANGED <<live, latest, store, journal, started, preview, current, safety, bounds, history>>

ListUnfinished ==
  /\ todo' = {r \in Restores : journal[r].state \in Unfinished}
  /\ pc' = "recover"
  /\ UNCHANGED <<live, latest, store, journal, started, preview, current, safety, bounds, history>>

Restart == pc = "down" /\ ListUnfinished

\* A command of the CLI opens the registry too.
OpenByCommand == pc = "idle" /\ ListUnfinished

\* The oldest first.
Oldest(r) == r \in todo /\ \A q \in todo : r <= q

Abandonable(r) == journal[r].state = "prepared" \/ journal[r].before = live

Finalizable(r) == journal[r].state = "installed" /\ journal[r].after = live

\* Nothing was installed, or it was undone already.
Abandon ==
  /\ pc = "recover"
  /\ \E r \in Restores :
       /\ Oldest(r) /\ Abandonable(r)
       /\ Write(r, [journal[r] EXCEPT !.state = "abandoned", !.available = FALSE])
       /\ todo' = todo \ {r}
  /\ UNCHANGED <<live, latest, store, started, preview, pc, current, safety, bounds, history>>

Finalize ==
  /\ pc = "recover"
  /\ \E r \in Restores :
       /\ Oldest(r) /\ ~Abandonable(r) /\ Finalizable(r)
       /\ Write(r, [journal[r] EXCEPT !.state = "completed", !.available = TRUE])
       /\ todo' = todo \ {r}
  /\ UNCHANGED <<live, latest, store, started, preview, pc, current, safety, bounds, history>>

RecoverInstall ==
  /\ pc = "recover"
  /\ \E r \in Restores :
       /\ Oldest(r) /\ ~Abandonable(r) /\ ~Finalizable(r)
       /\ Exact(journal[r].pre, journal[r].before)
       /\ live' = content[journal[r].pre]
       /\ current' = r
  /\ pc' = "recovered"
  /\ UNCHANGED <<latest, store, journal, started, preview, safety, todo, bounds, history>>

WriteRecovered ==
  /\ pc = "recovered"
  /\ Write(current, [journal[current] EXCEPT !.state = "recovered", !.available = FALSE])
  /\ todo' = todo \ {current}
  /\ pc' = "recover"
  /\ UNCHANGED <<live, latest, store, started, preview, current, safety, bounds, history>>

\* A failure is reported, and the process goes on without.
RecoveryFails ==
  /\ pc \in {"recover", "recovered"}
  /\ \E r \in Restores :
       /\ Oldest(r) /\ todo' = todo \ {r}
       /\ IF Abandonable(r) \/ Finalizable(r) \/ Exact(journal[r].pre, journal[r].before)
            THEN Raise("recovery") ELSE UNCHANGED bounds
  /\ pc' = "recover"
  /\ unreported' = TRUE
  /\ UNCHANGED <<live, latest, store, journal, started, preview, current, safety, later>>

EndRecovery ==
  /\ pc = "recover" /\ todo = {}
  /\ Leave("idle")
  /\ UNCHANGED <<live, latest, store, journal, started, bounds, history>>

-----------------------------------------------------------------------------
\* The process dies at any step, and the locks are free.
Crash ==
  /\ pc # "down" /\ crashes < MaxCrashes
  /\ crashes' = crashes + 1 /\ UNCHANGED faults
  /\ Leave("down")
  /\ UNCHANGED <<live, latest, store, journal, started, history>>

Restore ==
  \/ WritePrepared \/ Stage \/ WriteInstalling \/ Install \/ WriteInstalled
  \/ WriteCompleted \/ Completed
  \/ StepFails \/ Undo \/ UndoFails \/ WriteFailed \/ WriteFailedFails

Rollback ==
  \/ WriteRollback \/ InstallRollback \/ WriteRolledBack
  \/ RollbackFails \/ UndoRollback \/ UndoRollbackFails \/ WriteRollbackFailed

Recover ==
  \/ Restart \/ Abandon \/ Finalize \/ RecoverInstall \/ WriteRecovered
  \/ RecoveryFails \/ EndRecovery

Next ==
  \/ Edit \/ CreateBackup \/ Preview \/ BeginRestore \/ BeginRollback
  \/ Restore \/ Rollback \/ OpenByCommand \/ Recover \/ Crash

Spec == Init /\ [][Next]_vars

\* A process runs, and one that died is started again.
FairSpec == Spec /\ WF_vars(Restore \/ Rollback \/ Recover)

-----------------------------------------------------------------------------
(* Properties *)

\* The state of the journal while each step of the restore or rollback runs.
StateAt ==
  [stage |-> "prepared", staged |-> "prepared", install |-> "installing",
   verify |-> "installing", complete |-> "installed", prune |-> "completed",
   rb_write |-> "completed", rb_install |-> "completed", rb_report |-> "completed"]

Entries ==
  [state : {"none", "failed", "completed"} \cup Unfinished \cup Undone,
   before : 0..MaxVersions, after : 0..MaxVersions, pre : 0..made, available : BOOLEAN,
   rollback : {"none", "installing", "completed", "failed"}, preRollback : 0..made]

\* Every variable holds a value of its kind, and the journal of the operation in
\* progress is where the operation is.
TypeOK ==
  /\ live \in Versions /\ latest \in Versions /\ live <= latest
  /\ made \in 0..MaxBackups /\ backups \in SUBSET (1..made)
  /\ content \in [Backups -> Versions]
  /\ journal \in [Restores -> Entries]
  /\ started \in 0..MaxRestores /\ \A r \in Restores : r > started => journal[r] = NoJournal
  /\ preview \in [source : 0..made, mode : Modes, seen : 0..MaxVersions]
  /\ pc \in {"idle", "down", "prepare", "stage", "staged", "install", "verify", "complete",
             "prune", "undo", "undone", "failed", "rb_write", "rb_install", "rb_report",
             "rb_undo", "rb_undo_told", "rb_failed", "rb_failed_told", "recover", "recovered"}
  /\ pc \in DOMAIN StateAt => current # 0 /\ journal[current].state = StateAt[pc]
  /\ current \in 0..started /\ safety \in 0..made /\ todo \in SUBSET (1..started)
  /\ faults \in 0..MaxFaults /\ crashes \in 0..MaxCrashes
  /\ later \in BOOLEAN /\ unreported \in BOOLEAN

\* "Exact pre-restore backups": retention never takes the backup that an unfinished
\* restore falls back on, or that the owner is promised a rollback to.
RollbackIsPossible ==
  \A r \in Restores :
    journal[r].available \/ journal[r].state \in Unfinished =>
      Exact(journal[r].pre, journal[r].before)

\* "Explicit rollback that refuses to erase later registry work", and no undo or
\* recovery erases it either: what the owner did since the last install goes only
\* by a restore whose preview saw it.
Erases ==
  /\ later /\ live' # live
  /\ ~(pc = "install" /\ preview.seen = live)
  /\ ~(pc = "idle" /\ latest' # latest)

LaterWorkIsKept == [][~unreported => ~Erases]_vars

\* A journal that becomes final tells which registry is live: the one from before
\* the restore, or the one that was installed.
Misleads ==
  \E r \in Restores :
    /\ journal'[r].state # journal[r].state
    /\ \/ journal'[r].state \in Undone /\ live' # journal'[r].before
       \/ journal'[r].state = "completed" /\ live' # journal'[r].after

JournalsTell == [][~unreported => ~Misleads]_vars

\* "Interrupted prepared/installing/installed journals are conservatively
\* abandoned, finalized, or rolled back": no restore stays unfinished, unless the
\* report of it failed.
RestoresEnd ==
  \A r \in Restores :
    journal[r].state \in Unfinished ~> journal[r].state \notin Unfinished \/ unreported

\* The scenario of a report that fails: later work is erased by the next start.
LaterWorkIsAlwaysKept == [][~Erases]_vars

\* The scenario of a rollback that is told and then undone.
JournalsAlwaysTell == [][~Misleads]_vars

\* The scenario of a backup that its own restore prunes: "a backup cannot disappear
\* after restore validation has begun".
ChosenBackupStays ==
  pc \in {"prepare", "stage"} => preview.source \in backups

\* The scenario of a death during a rollback: no rollback stays unfinished.
RollbacksAreFinished ==
  pc = "idle" => \A r \in Restores : journal[r].rollback # "installing"
=============================================================================
