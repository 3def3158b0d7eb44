------------------------ MODULE RegistryRestore_proofs ------------------------
(***************************************************************************)
(* What the owner relies on when he restores the registry or takes a       *)
(* restore back, for any number of registries, backups, restores, failures *)
(* and deaths, whatever retention keeps beyond one backup.                 *)
(***************************************************************************)
EXTENDS RegistryRestore, TLAPS, FiniteSetTheorems

---------------------------------------------------------------------------
(* The inductive invariant.                                                *)

Restoring == {"prepare", "stage", "staged", "install", "verify", "complete", "prune",
              "undo", "undone", "failed"}
RollingBack == {"rb_write", "rb_install", "rb_report", "rb_undo", "rb_undo_told",
                "rb_failed", "rb_failed_told"}

IsUnfinished(r) == journal[r].state \in Unfinished

\* What is on disk.
Stored ==
  /\ live \in Versions /\ latest \in Versions /\ live <= latest
  /\ made \in 0..MaxBackups /\ backups \in SUBSET (1..made)
  /\ content \in [Backups -> Versions]
  /\ journal \in [Restores -> Entries]
  /\ started \in 0..MaxRestores /\ \A r \in Restores : r > started => journal[r] = NoJournal

\* What is in memory, the bounds and the history.
Working ==
  /\ preview \in [source : 0..made, mode : Modes, seen : 0..MaxVersions]
  /\ pc \in {"idle", "down", "recover", "recovered"} \cup Restoring \cup RollingBack
  /\ current \in 0..started /\ safety \in 0..made /\ todo \in SUBSET (1..started)
  /\ faults \in 0..MaxFaults /\ crashes \in 0..MaxCrashes
  /\ later \in BOOLEAN /\ unreported \in BOOLEAN

\* Nothing that is recorded is newer than the newest registry there has been.
VersionsAreKnown ==
  /\ \A b \in Backups : content[b] <= latest
  /\ \A r \in Restores : journal[r].after <= latest

\* Only a restore that is over offers a rollback.
OfferedWhenCompleted ==
  \A r \in Restores : journal[r].available => journal[r].state = "completed"

\* What the operation in progress has found out or done, as its next steps use it.
RestoreInProgress ==
  /\ pc \in Restoring => current \in Restores /\ current <= started
  /\ pc = "prepare" =>
       journal[current] = NoJournal /\ safety \in backups /\ content[safety] = live
  /\ pc \in {"prepare", "stage", "staged", "install"} => preview.seen = live
  /\ pc \in {"staged", "install"} => preview.source \in backups
  /\ pc \in {"stage", "staged"} => journal[current].state = "prepared"
  /\ pc \in {"install", "verify"} => journal[current].state = "installing"
  /\ pc = "complete" => journal[current].state = "installed"
  /\ pc = "prune" => journal[current].state = "completed" /\ journal[current].available
  /\ pc = "undo" => \/ journal[current].state \in {"installing", "installed"}
                    \/ journal[current].state = "completed" /\ journal[current].available
  /\ pc \in Restoring \ {"prepare", "undone", "failed"} => journal[current].pre = safety
  /\ pc \in {"stage", "staged", "install", "undone"} => journal[current].before = live
  /\ pc \in {"complete", "prune"} => journal[current].after = live

\* A rollback stays inside a completed restore until it writes its last journal.
RollbackInProgress ==
  /\ pc \in RollingBack =>
       /\ current \in Restores /\ current <= started
       /\ journal[current].state = "completed" /\ journal[current].available
       /\ safety \in backups /\ content[safety] = journal[current].after
  /\ pc \in {"rb_write", "rb_install"} => journal[current].after = live
  /\ pc = "rb_report" => journal[current].before = live
  /\ pc \in {"rb_undo_told", "rb_failed_told"} => unreported

\* A recovery has a list of unfinished restores, and undoes the first in full.
RecoveryInProgress ==
  /\ pc \in {"recover", "recovered"} => \A r \in todo : IsUnfinished(r)
  /\ pc = "recovered" =>
       /\ current \in todo /\ current \in Restores /\ current <= started
       /\ journal[current].before = live

InProgress == RestoreInProgress /\ RollbackInProgress /\ RecoveryInProgress

\* As long as every operation could say how it ended: a restore is unfinished only
\* while somebody works on it or will.
UnfinishedInHand ==
  \A r \in Restores : IsUnfinished(r) =>
    /\ \/ pc = "down"
       \/ pc \in {"recover", "recovered"} /\ r \in todo
       \/ pc \in Restoring /\ r = current
    /\ \A q \in Restores : IsUnfinished(q) => q = r

\* And later work is there only as a registry that no restore has installed, and
\* no unfinished restore has replaced.
LaterIsApart ==
  /\ later => \A r \in Restores : journal[r].after # live
  /\ later => \A r \in Restores : IsUnfinished(r) => journal[r].before = live
  /\ \A r \in Restores : journal[r].state = "prepared" => journal[r].before = live
  /\ pc \in {"verify", "complete", "prune"} \cup RollingBack => ~later
  /\ pc = "undo" /\ later => journal[current].before = live

\* The facts about what is on disk, whatever the operation in progress.
Standing == Stored /\ VersionsAreKnown /\ OfferedWhenCompleted /\ RollbackIsPossible

IInv ==
  /\ Standing /\ Working /\ InProgress
  /\ ~unreported => UnfinishedInHand /\ LaterIsApart

\* The invariant has the parts of TypeOK, which names the states in a record.
LEMMA TypesFollow == IInv => TypeOK
<1> SUFFICES ASSUME IInv PROVE TypeOK
  OBVIOUS
<1>1. pc \in DOMAIN StateAt => current # 0 /\ journal[current].state = StateAt[pc]
  BY DEF IInv, InProgress, RestoreInProgress, RollbackInProgress, Restoring, RollingBack,
    StateAt, Restores
<1>2. pc \in {"idle", "down", "prepare", "stage", "staged", "install", "verify", "complete",
             "prune", "undo", "undone", "failed", "rb_write", "rb_install", "rb_report",
             "rb_undo", "rb_undo_told", "rb_failed", "rb_failed_told", "recover", "recovered"}
  BY DEF IInv, Working, Restoring, RollingBack
<1> QED BY <1>1, <1>2 DEF IInv, Standing, Stored, Working, TypeOK

\* Having no preview is a preview of its kind.
LEMMA NoPreviewTyped ==
  ASSUME NEW n \in Nat
  PROVE  NoPreview \in [source : 0..n, mode : Modes, seen : 0..MaxVersions]
BY Parameters DEF NoPreview, Modes

\* Before the first operation there are neither backups nor journals.
LEMMA InitInv == Init => IInv
<1> SUFFICES ASSUME Init PROVE IInv
  OBVIOUS
<1>1. Stored
  BY Parameters DEF Init, Stored, Entries, NoJournal, Versions, Backups
<1>2. Working
  <2>1. preview \in [source : 0..made, mode : Modes, seen : 0..MaxVersions]
    BY NoPreviewTyped DEF Init
  <2>2. current \in 0..started /\ safety \in 0..made /\ todo \in SUBSET (1..started)
    BY DEF Init
  <2>3. faults \in 0..MaxFaults /\ crashes \in 0..MaxCrashes
    BY Parameters DEF Init
  <2> QED BY <2>1, <2>2, <2>3 DEF Init, Working
<1> QED
  BY <1>1, <1>2, Parameters DEF Init, IInv, Standing, VersionsAreKnown,
    OfferedWhenCompleted, RollbackIsPossible, InProgress, RestoreInProgress,
    RollbackInProgress, RecoveryInProgress, UnfinishedInHand, LaterIsApart, IsUnfinished,
    Unfinished, Restoring, RollingBack, NoJournal, Backups

---------------------------------------------------------------------------
(* What the steps have in common.                                          *)

\* A journal is written: the others stay.
LEMMA WriteFacts ==
  ASSUME Stored, NEW r \in Restores, r <= started, NEW e \in Entries, Write(r, e)
  PROVE  /\ journal' \in [Restores -> Entries] /\ journal'[r] = e
         /\ \A q \in Restores : q # r => journal'[q] = journal[q]
         /\ \A q \in Restores : q > started => journal'[q] = NoJournal
BY DEF Stored, Write, Restores

\* A backup is made: it holds the live registry, and retention takes neither it
\* nor one that is protected.
LEMMA BackupFacts ==
  ASSUME Stored, MakeBackup
  PROVE  /\ made' = made + 1 /\ made' \in Backups
         /\ content' \in [Backups -> Versions] /\ content'[made'] = live
         /\ \A b \in Backups : b # made' => content'[b] = content[b]
         /\ backups' \subseteq 1..made'
         /\ made' \in backups'
         /\ \A b \in backups : b \in Protected => b \in backups' /\ b # made'
<1> DEFINE all == backups \cup {made'}
           newer(b) == {c \in all \ Protected : c >= b}
<1>1. /\ made' = made + 1 /\ made' \in Backups
      /\ content' = [content EXCEPT ![made'] = live]
      /\ backups' = {b \in all : b \in Protected \/ Cardinality(newer(b)) <= Keep}
  BY Parameters DEF Stored, MakeBackup, Backups
<1>2. /\ made \in Nat /\ backups \subseteq 1..made /\ live \in Versions
      /\ content \in [Backups -> Versions]
  BY Parameters DEF Stored
<1>3. newer(made') \subseteq {made'}
  <2>1. ASSUME NEW c \in newer(made') PROVE c = made'
    <3>1. c >= made' /\ (c = made' \/ c \in 1..made)
      BY <1>2
    <3> QED BY <3>1, <1>1, <1>2
  <2> QED BY <2>1
<1>4. Cardinality(newer(made')) <= Keep
  <2>1. newer(made') = {} \/ newer(made') = {made'}
    BY <1>3
  <2>2. Cardinality({}) = 0 /\ Cardinality({made'}) = 1
    BY FS_EmptySet, FS_Singleton
  <2> QED BY <2>1, <2>2, Parameters
<1>5. made' \in backups' /\ \A b \in backups : b \in Protected => b \in backups' /\ b # made'
  BY <1>1, <1>2, <1>4
<1>6. /\ content' \in [Backups -> Versions] /\ content'[made'] = live
      /\ \A b \in Backups : b # made' => content'[b] = content[b]
  BY <1>1, <1>2
<1>7. backups' \subseteq 1..made'
  <2>1. backups' \subseteq all
    BY <1>1
  <2>2. all \subseteq 1..made'
    BY <1>1, <1>2
  <2> QED BY <2>1, <2>2
<1> QED BY <1>1, <1>5, <1>6, <1>7

\* Nothing is stored, and the live registry becomes a backup if it changes at all.
LEMMA LiveMayChange ==
  ASSUME Standing, live' = live \/ \E b \in backups : live' = content[b],
         UNCHANGED <<latest, store, journal, started>>
  PROVE  Standing'
<1>1. live' \in Versions /\ live' <= latest
  BY Parameters DEF Standing, Stored, VersionsAreKnown, Backups
<1>2. Stored'
  BY <1>1 DEF Standing, Stored, store, Entries
<1> QED
  BY <1>2 DEF Standing, VersionsAreKnown, OfferedWhenCompleted, RollbackIsPossible, Exact,
    store

\* The live registry becomes one that there has not been.
LEMMA LiveMayGrow ==
  ASSUME Standing, latest < MaxVersions, live' = latest + 1, latest' = latest + 1,
         UNCHANGED <<store, journal, started>>
  PROVE  Standing'
<1>1. latest \in Nat /\ latest + 1 \in Versions
  BY Parameters DEF Standing, Stored, Versions
<1>2. Stored'
  BY <1>1 DEF Standing, Stored, store, Entries, Versions
<1>3. VersionsAreKnown'
  <2>1. \A b \in Backups : content[b] \in Nat
    BY DEF Standing, Stored, Versions
  <2>2. \A r \in Restores : journal[r].after \in Nat
    BY DEF Standing, Stored, Entries
  <2> QED BY <1>1, <2>1, <2>2 DEF Standing, VersionsAreKnown, store
<1> QED
  BY <1>2, <1>3 DEF Standing, OfferedWhenCompleted, RollbackIsPossible, Exact, store

\* The journal of r is written with this state, these registries before and after, this
\* safety backup, and a rollback offered or not.
Writes(r, state, before, after, pre, offered) ==
  /\ r \in Restores /\ r # 0 /\ r <= started
  /\ \E d \in Entries :
       /\ d.state = state /\ d.before = before /\ d.after = after /\ d.pre = pre
       /\ d.available = offered
       /\ journal' \in [Restores -> Entries] /\ journal'[r] = d
       /\ \A q \in Restores : q # r => journal'[q] = journal[q]
       /\ \A q \in Restores : q > started => journal'[q] = NoJournal

\* An entry that is written is written with its own fields.
LEMMA WritesByEntry ==
  ASSUME Standing, NEW r \in Restores, r <= started, NEW d \in Entries, Write(r, d)
  PROVE  Writes(r, d.state, d.before, d.after, d.pre, d.available)
<1>1. r # 0
  BY DEF Restores
<1> QED BY <1>1, WriteFacts DEF Standing, Writes

\* A journal is written that promises no more than there is.
LEMMA JournalMayChange ==
  ASSUME Standing, UNCHANGED <<live, latest, store, started>>,
         NEW r, NEW state, NEW before, NEW after, NEW pre, NEW offered,
         Writes(r, state, before, after, pre, offered),
         after <= latest, offered => state = "completed",
         offered \/ state \in Unfinished => Exact(pre, before)
  PROVE  Standing'
<1>1. Stored'
  BY DEF Standing, Stored, Writes, store, Entries
<1> QED
  BY <1>1 DEF Standing, VersionsAreKnown, OfferedWhenCompleted, RollbackIsPossible, Exact,
    Writes, store

\* What becomes of the local variables when an operation ends, and of the bounds when
\* a call raises.
LocalsTyped ==
  /\ preview \in [source : 0..made, mode : Modes, seen : 0..MaxVersions]
  /\ current \in 0..started /\ safety \in 0..made /\ todo \in SUBSET (1..started)

BoundsTyped == faults \in 0..MaxFaults /\ crashes \in 0..MaxCrashes

\* Local variables stay or are gone.
LEMMA LocalsAreTyped ==
  ASSUME Standing, Working, UNCHANGED <<made, started>>,
         \/ UNCHANGED <<preview, locals>>
         \/ preview' = NoPreview /\ current' = 0 /\ safety' = 0 /\ todo' = {}
  PROVE  LocalsTyped'
<1>1. CASE UNCHANGED <<preview, locals>>
  BY <1>1 DEF Working, LocalsTyped, locals
<1>2. CASE preview' = NoPreview /\ current' = 0 /\ safety' = 0 /\ todo' = {}
  <2>1. made \in Nat /\ started \in Nat
    BY Parameters DEF Standing, Stored
  <2>2. preview' \in [source : 0..made, mode : Modes, seen : 0..MaxVersions]
    BY <1>2, <2>1, NoPreviewTyped
  <2> QED BY <1>2, <2>1, <2>2 DEF LocalsTyped
<1> QED BY <1>1, <1>2

\* At most MaxFaults calls raise.
LEMMA BoundsAreTyped ==
  ASSUME Working, UNCHANGED bounds \/ \E kind \in AllFaults : Raise(kind)
  PROVE  BoundsTyped'
<1>1. CASE UNCHANGED bounds
  BY <1>1 DEF Working, BoundsTyped, bounds
<1>2. CASE \E kind \in AllFaults : Raise(kind)
  BY <1>2, Parameters DEF Working, BoundsTyped, Raise
<1> QED BY <1>1, <1>2

\* A backup is made while the registry and the journals stay.
LEMMA BackupMayBeMade ==
  ASSUME Standing, MakeBackup, UNCHANGED <<live, latest, journal>>,
         started' \in started..MaxRestores
  PROVE  /\ Standing' /\ made' = made + 1 /\ made' \in backups' /\ content'[made'] = live
<1>1. /\ made' = made + 1 /\ made' \in Backups
      /\ content' \in [Backups -> Versions] /\ content'[made'] = live
      /\ \A b \in Backups : b # made' => content'[b] = content[b]
      /\ backups' \subseteq 1..made' /\ made' \in backups'
      /\ \A b \in backups : b \in Protected => b \in backups' /\ b # made'
  BY BackupFacts DEF Standing
<1>2. made \in Nat /\ started \in Nat /\ latest \in Nat /\ backups \subseteq Backups
  BY Parameters DEF Standing, Stored, Versions, Backups
<1>3. Stored'
  <2>1. Entries \subseteq Entries'
    BY <1>1, <1>2 DEF Entries
  <2>2. journal' \in [Restores -> Entries']
    BY <2>1 DEF Standing, Stored
  <2>3. made' \in 0..MaxBackups /\ started' \in 0..MaxRestores
    BY <1>1, <1>2, Parameters DEF Standing, Stored, Backups
  <2>4. \A r \in Restores : r > started' => journal'[r] = NoJournal
    BY <1>2 DEF Standing, Stored, Restores
  <2> QED BY <1>1, <2>2, <2>3, <2>4 DEF Standing, Stored
<1>4. VersionsAreKnown'
  BY <1>1 DEF Standing, Stored, VersionsAreKnown
<1>5. ASSUME NEW r \in Restores, journal[r].available \/ journal[r].state \in Unfinished
      PROVE  Exact(journal[r].pre, journal[r].before)'
  <2>1. journal[r].pre \in backups /\ content[journal[r].pre] = journal[r].before
    BY <1>5 DEF Standing, RollbackIsPossible, Exact
  <2>2. journal[r].pre \in Protected
    BY <1>5 DEF Protected
  <2> QED BY <1>1, <1>2, <2>1, <2>2 DEF Exact
<1>6. RollbackIsPossible' /\ OfferedWhenCompleted'
  BY <1>5 DEF Standing, RollbackIsPossible, OfferedWhenCompleted, Exact
<1> QED BY <1>1, <1>2, <1>3, <1>4, <1>6 DEF Standing

---------------------------------------------------------------------------
(* Each step keeps the invariant.                                          *)

USE Parameters DEF store, locals, bounds, history,
  InProgress, RestoreInProgress, RollbackInProgress, RecoveryInProgress

\* What write_journal leaves in the journal, write by write.  The first one:
\* the restore is prepared, with the registry before it and its safety backup.
LEMMA WritePreparedWrites ==
  ASSUME IInv, WritePrepared
  PROVE  Writes(current, "prepared", live, 0, safety, FALSE)
<1> USE DEF WritePrepared
<1> current \in Restores /\ current <= started
  BY DEF IInv, Restoring, RollingBack
<1>1. PICK e \in Entries : e = NoJournal
  BY DEF IInv, Standing, Stored, NoJournal, Entries, Unfinished
<1>2. live \in 0..MaxVersions /\ safety \in 0..made
  BY DEF IInv, Standing, Stored, Working, Versions
<1>3. PICK d \in Entries : d = [e EXCEPT !.state = "prepared", !.before = live, !.pre = safety]
  BY <1>1, <1>2 DEF Entries, Unfinished, NoJournal
<1>4. Write(current, d)
  BY <1>1, <1>3
<1>5. Writes(current, d.state, d.before, d.after, d.pre, d.available)
  BY <1>4, WritesByEntry DEF IInv
<1> QED BY <1>1, <1>3, <1>5 DEF NoJournal

\* The state alone.
LEMMA WriteInstallingWrites ==
  ASSUME IInv, WriteInstalling
  PROVE  Writes(current, "installing", journal[current].before, journal[current].after,
                journal[current].pre, journal[current].available)
<1> USE DEF WriteInstalling
<1> current \in Restores /\ current <= started
  BY DEF IInv, Restoring, RollingBack
<1>1. PICK e \in Entries : e = journal[current]
  BY DEF IInv, Standing, Stored
<1>2. PICK d \in Entries : d = [e EXCEPT !.state = "installing"]
  BY <1>1 DEF Entries, Unfinished, Undone
<1>3. Write(current, d)
  BY <1>1, <1>2
<1>4. Writes(current, d.state, d.before, d.after, d.pre, d.available)
  BY <1>3, WritesByEntry DEF IInv
<1> QED BY <1>1, <1>2, <1>4 DEF Entries

\* The state and the registry that was installed.
LEMMA WriteInstalledWrites ==
  ASSUME IInv, WriteInstalled
  PROVE  Writes(current, "installed", journal[current].before, live,
                journal[current].pre, journal[current].available)
<1> USE DEF WriteInstalled
<1> current \in Restores /\ current <= started
  BY DEF IInv, Restoring, RollingBack
<1>1. PICK e \in Entries : e = journal[current]
  BY DEF IInv, Standing, Stored
<1>2. live \in 0..MaxVersions /\ safety \in 0..made
  BY DEF IInv, Standing, Stored, Working, Versions
<1>3. PICK d \in Entries : d = [e EXCEPT !.state = "installed", !.after = live]
  BY <1>1, <1>2 DEF Entries, Unfinished, Undone
<1>4. Write(current, d)
  BY <1>1, <1>3
<1>5. Writes(current, d.state, d.before, d.after, d.pre, d.available)
  BY <1>4, WritesByEntry DEF IInv
<1> QED BY <1>1, <1>3, <1>5 DEF Entries

\* The state and the offer of a rollback.
LEMMA WriteCompletedWrites ==
  ASSUME IInv, WriteCompleted
  PROVE  Writes(current, "completed", journal[current].before, journal[current].after,
                journal[current].pre, TRUE)
<1> USE DEF WriteCompleted
<1> current \in Restores /\ current <= started
  BY DEF IInv, Restoring, RollingBack
<1>1. PICK e \in Entries : e = journal[current]
  BY DEF IInv, Standing, Stored
<1>2. PICK d \in Entries : d = [e EXCEPT !.state = "completed", !.available = TRUE]
  BY <1>1 DEF Entries, Unfinished, Undone
<1>3. Write(current, d)
  BY <1>1, <1>2
<1>4. Writes(current, d.state, d.before, d.after, d.pre, d.available)
  BY <1>3, WritesByEntry DEF IInv
<1> QED BY <1>1, <1>2, <1>4 DEF Entries

\* The state, and no rollback.
LEMMA WriteFailedWrites ==
  ASSUME IInv, WriteFailed
  PROVE  Writes(current, IF pc = "undone" THEN "failed_rolled_back" ELSE "failed",
                journal[current].before, journal[current].after, journal[current].pre, FALSE)
<1> USE DEF WriteFailed
<1> current \in Restores /\ current <= started
  BY DEF IInv, Restoring, RollingBack
<1>1. PICK e \in Entries : e = journal[current]
  BY DEF IInv, Standing, Stored
<1>2. PICK d \in Entries : d = [e EXCEPT
           !.state = IF pc = "undone" THEN "failed_rolled_back" ELSE "failed", !.available = FALSE]
  BY <1>1 DEF Entries, Unfinished, Undone
<1>3. Write(current, d)
  BY <1>1, <1>2
<1>4. Writes(current, d.state, d.before, d.after, d.pre, d.available)
  BY <1>3, WritesByEntry DEF IInv
<1> QED BY <1>1, <1>2, <1>4 DEF Entries

\* The state and the registries stay while a rollback begins.
LEMMA WriteRollbackWrites ==
  ASSUME IInv, WriteRollback
  PROVE  Writes(current, journal[current].state, journal[current].before, journal[current].after,
                journal[current].pre, journal[current].available)
<1> USE DEF WriteRollback
<1> current \in Restores /\ current <= started
  BY DEF IInv, Restoring, RollingBack
<1>1. PICK e \in Entries : e = journal[current]
  BY DEF IInv, Standing, Stored
<1>2. live \in 0..MaxVersions /\ safety \in 0..made
  BY DEF IInv, Standing, Stored, Working, Versions
<1>3. PICK d \in Entries : d = [e EXCEPT !.rollback = "installing", !.preRollback = safety]
  BY <1>1, <1>2 DEF Entries, Unfinished, Undone
<1>4. Write(current, d)
  BY <1>1, <1>3
<1>5. Writes(current, d.state, d.before, d.after, d.pre, d.available)
  BY <1>4, WritesByEntry DEF IInv
<1> QED BY <1>1, <1>3, <1>5 DEF Entries

\* The state, and no second rollback.
LEMMA WriteRolledBackWrites ==
  ASSUME IInv, WriteRolledBack
  PROVE  Writes(current, "rolled_back", journal[current].before, journal[current].after,
                journal[current].pre, FALSE)
<1> USE DEF WriteRolledBack
<1> current \in Restores /\ current <= started
  BY DEF IInv, Restoring, RollingBack
<1>1. PICK e \in Entries : e = journal[current]
  BY DEF IInv, Standing, Stored
<1>2. PICK d \in Entries : d = [e EXCEPT
           !.state = "rolled_back", !.available = FALSE, !.rollback = "completed"]
  BY <1>1 DEF Entries, Unfinished, Undone
<1>3. Write(current, d)
  BY <1>1, <1>2
<1>4. Writes(current, d.state, d.before, d.after, d.pre, d.available)
  BY <1>3, WritesByEntry DEF IInv
<1> QED BY <1>1, <1>2, <1>4 DEF Entries

\* The state, and no rollback.
LEMMA WriteRecoveredWrites ==
  ASSUME IInv, WriteRecovered
  PROVE  Writes(current, "recovered", journal[current].before, journal[current].after,
                journal[current].pre, FALSE)
<1> USE DEF WriteRecovered
<1> current \in Restores /\ current <= started
  BY DEF IInv, Restoring, RollingBack
<1>1. PICK e \in Entries : e = journal[current]
  BY DEF IInv, Standing, Stored
<1>2. PICK d \in Entries : d = [e EXCEPT !.state = "recovered", !.available = FALSE]
  BY <1>1 DEF Entries, Unfinished, Undone
<1>3. Write(current, d)
  BY <1>1, <1>2
<1>4. Writes(current, d.state, d.before, d.after, d.pre, d.available)
  BY <1>3, WritesByEntry DEF IInv
<1> QED BY <1>1, <1>2, <1>4 DEF Entries

\* The recovery takes one unfinished restore from its list and writes its state.
LEMMA AbandonWrites ==
  ASSUME IInv, Abandon
  PROVE  \E r \in todo :
           /\ Abandonable(r) /\ todo' = todo \ {r}
           /\ Writes(r, "abandoned", journal[r].before, journal[r].after, journal[r].pre, FALSE)
<1>1. PICK r \in Restores :
         /\ Oldest(r) /\ Abandonable(r)
         /\ Write(r, [journal[r] EXCEPT !.state = "abandoned", !.available = FALSE])
         /\ todo' = todo \ {r}
  BY DEF Abandon
<1>2. r \in todo /\ r <= started
  BY <1>1 DEF IInv, Standing, Stored, Working, Oldest
<1>3. PICK e \in Entries : e = journal[r]
  BY DEF IInv, Standing, Stored
<1>4. PICK d \in Entries : d = [e EXCEPT !.state = "abandoned", !.available = FALSE]
  BY <1>3 DEF Entries, Undone
<1>5. Write(r, d)
  BY <1>1, <1>3, <1>4
<1>6. Writes(r, d.state, d.before, d.after, d.pre, d.available)
  BY <1>2, <1>5, WritesByEntry DEF IInv
<1> QED BY <1>1, <1>2, <1>3, <1>4, <1>6 DEF Entries

\* And here it offers the rollback.
LEMMA FinalizeWrites ==
  ASSUME IInv, Finalize
  PROVE  \E r \in todo :
           /\ ~Abandonable(r) /\ Finalizable(r) /\ todo' = todo \ {r}
           /\ Writes(r, "completed", journal[r].before, journal[r].after, journal[r].pre, TRUE)
<1>1. PICK r \in Restores :
         /\ Oldest(r) /\ ~Abandonable(r) /\ Finalizable(r)
         /\ Write(r, [journal[r] EXCEPT !.state = "completed", !.available = TRUE])
         /\ todo' = todo \ {r}
  BY DEF Finalize
<1>2. r \in todo /\ r <= started
  BY <1>1 DEF IInv, Standing, Stored, Working, Oldest
<1>3. PICK e \in Entries : e = journal[r]
  BY DEF IInv, Standing, Stored
<1>4. PICK d \in Entries : d = [e EXCEPT !.state = "completed", !.available = TRUE]
  BY <1>3 DEF Entries, Undone
<1>5. Write(r, d)
  BY <1>1, <1>3, <1>4
<1>6. Writes(r, d.state, d.before, d.after, d.pre, d.available)
  BY <1>2, <1>5, WritesByEntry DEF IInv
<1> QED BY <1>1, <1>2, <1>3, <1>4, <1>6 DEF Entries

\* What was offered stays, unless the write that ends the rollback had raised.
LEMMA WriteRollbackFailedWrites ==
  ASSUME IInv, WriteRollbackFailed
  PROVE  \/ /\ pc = "rb_failed"
            /\ Writes(current, journal[current].state, journal[current].before,
                      journal[current].after, journal[current].pre, journal[current].available)
         \/ /\ pc = "rb_failed_told"
            /\ Writes(current, "rolled_back", journal[current].before,
                      journal[current].after, journal[current].pre, FALSE)
<1> current \in Restores /\ current <= started
  BY DEF IInv, RollingBack, WriteRollbackFailed
<1>1. PICK e \in Entries : e = journal[current]
  BY DEF IInv, Standing, Stored
<1>2. CASE pc = "rb_failed"
  <2>1. PICK d \in Entries : d = [e EXCEPT !.rollback = "failed"]
    BY <1>1 DEF Entries
  <2>2. Write(current, d)
    BY <1>1, <1>2, <2>1 DEF WriteRollbackFailed
  <2>3. Writes(current, d.state, d.before, d.after, d.pre, d.available)
    BY <2>2, WritesByEntry DEF IInv
  <2> QED BY <1>1, <1>2, <2>1, <2>3 DEF Entries
<1>3. CASE pc = "rb_failed_told"
  <2>1. PICK d \in Entries :
           d = [e EXCEPT !.state = "rolled_back", !.available = FALSE, !.rollback = "failed"]
    BY <1>1 DEF Entries, Undone
  <2>2. Write(current, d)
    BY <1>1, <1>3, <2>1 DEF WriteRollbackFailed
  <2>3. Writes(current, d.state, d.before, d.after, d.pre, d.available)
    BY <2>2, WritesByEntry DEF IInv
  <2> QED BY <1>1, <1>3, <2>1, <2>3 DEF Entries
<1> QED BY <1>2, <1>3 DEF WriteRollbackFailed

\* Any other change of the registry makes it one that there has not been.
LEMMA EditKeeps ==
  ASSUME IInv, Edit
  PROVE  IInv'
<1> USE DEF IInv, Edit
<1>1. Standing'
  BY LiveMayGrow
<1>2. Working'
  BY NoPreviewTyped DEF Standing, Stored, Working, Restoring, RollingBack
<1>3. InProgress'
  BY DEF Standing, Stored, Working, OfferedWhenCompleted, RollbackIsPossible, Exact,
    Restoring, RollingBack, IsUnfinished
<1>4. ASSUME ~unreported' PROVE UnfinishedInHand'
  BY <1>4 DEF Working, UnfinishedInHand, Restoring, IsUnfinished, Unfinished
<1>5. ASSUME ~unreported' PROVE LaterIsApart'
  BY <1>5 DEF Standing, Stored, Working, UnfinishedInHand, LaterIsApart, VersionsAreKnown,
    RollbackIsPossible, Exact, Restoring, RollingBack, IsUnfinished, Unfinished, Versions
<1> QED BY <1>1, <1>2, <1>3, <1>4, <1>5

\* The owner makes a backup.
LEMMA CreateBackupKeeps ==
  ASSUME IInv, CreateBackup
  PROVE  IInv'
<1> USE DEF IInv, CreateBackup
<1>1. started' = started /\ started' \in started..MaxRestores
  BY DEF Standing, Stored
<1>2. Standing'
  BY <1>1, BackupMayBeMade
<1>3. Working'
  <2>1. /\ made \in Nat /\ started \in Nat /\ made' = made + 1
        /\ preview \in [source : 0..made, mode : Modes, seen : 0..MaxVersions]
    BY <1>1, <1>2, BackupMayBeMade DEF Standing, Stored, Working
  <2>2. preview' \in [source : 0..made', mode : Modes, seen : 0..MaxVersions]
    BY <2>1
  <2> QED BY <2>1, <2>2 DEF Standing, Stored, Working, Restoring, RollingBack, Restores
<1>4. InProgress'
  BY DEF Standing, Stored, Working, OfferedWhenCompleted, RollbackIsPossible, Exact,
    Restoring, RollingBack, IsUnfinished
<1>5. ASSUME ~unreported' PROVE UnfinishedInHand'
  BY <1>5 DEF Working, UnfinishedInHand, Restoring, IsUnfinished, Unfinished
<1>6. ASSUME ~unreported' PROVE LaterIsApart'
  BY <1>6 DEF Standing, Stored, Working, UnfinishedInHand, LaterIsApart, VersionsAreKnown,
    RollbackIsPossible, Exact, Restoring, RollingBack, IsUnfinished, Unfinished, Versions
<1> QED BY <1>2, <1>3, <1>4, <1>5, <1>6

\* A restore makes its safety backup first.
LEMMA BeginRestoreKeeps ==
  ASSUME IInv, BeginRestore
  PROVE  IInv'
<1> USE DEF IInv, BeginRestore
<1>1. started \in Nat /\ started' \in started..MaxRestores
  BY DEF Standing, Stored
<1>2. Standing'
  BY <1>1, BackupMayBeMade
<1>3. Working'
  <2>1. /\ made \in Nat /\ started \in Nat /\ made' = made + 1
        /\ preview \in [source : 0..made, mode : Modes, seen : 0..MaxVersions]
    BY <1>1, <1>2, BackupMayBeMade DEF Standing, Stored, Working
  <2>2. preview' \in [source : 0..made', mode : Modes, seen : 0..MaxVersions]
    BY <2>1
  <2> QED BY <2>1, <2>2 DEF Standing, Stored, Working, Restoring, RollingBack, Restores
<1>4. InProgress'
  BY <1>1, BackupMayBeMade DEF Standing, Stored, Working, OfferedWhenCompleted,
    RollbackIsPossible, Exact, Restoring, RollingBack, IsUnfinished, Restores
<1>5. ASSUME ~unreported' PROVE UnfinishedInHand'
  BY <1>5, BackupMayBeMade DEF Working, UnfinishedInHand, Restoring, IsUnfinished,
    Unfinished
<1>6. ASSUME ~unreported' PROVE LaterIsApart'
  BY <1>6 DEF Standing, Stored, Working, UnfinishedInHand, LaterIsApart, VersionsAreKnown,
    RollbackIsPossible, Exact, Restoring, RollingBack, IsUnfinished, Unfinished, Versions
<1> QED BY <1>2, <1>3, <1>4, <1>5, <1>6

\* So does a rollback, of a restore that nothing has changed since.
LEMMA BeginRollbackKeeps ==
  ASSUME IInv, BeginRollback
  PROVE  IInv'
<1> USE DEF IInv, BeginRollback
<1>1. started' = started /\ started' \in started..MaxRestores
  BY DEF Standing, Stored
<1>2. PICK r \in Restores :
         /\ journal[r].state = "completed" /\ journal[r].available
         /\ journal[r].after = live /\ current' = r
  OBVIOUS
<1>3. r # 0 /\ r <= started
  BY <1>2 DEF Standing, Stored, NoJournal, Restores
<1>4. Standing'
  BY <1>1, BackupMayBeMade
<1>5. Working'
  <2>1. /\ made \in Nat /\ started \in Nat /\ made' = made + 1
        /\ preview \in [source : 0..made, mode : Modes, seen : 0..MaxVersions]
    BY <1>1, <1>4, BackupMayBeMade DEF Standing, Stored, Working
  <2>2. preview' \in [source : 0..made', mode : Modes, seen : 0..MaxVersions]
    BY <2>1
  <2> QED BY <1>2, <1>3, <2>1, <2>2 DEF Standing, Stored, Working, Restoring, RollingBack,
    Restores
<1>6. InProgress'
  BY <1>1, <1>2, <1>3, BackupMayBeMade DEF Standing, Stored, Working, OfferedWhenCompleted,
    RollbackIsPossible, Exact, Restoring, RollingBack, IsUnfinished
<1>7. ASSUME ~unreported' PROVE UnfinishedInHand'
  BY <1>2, <1>7 DEF Working, UnfinishedInHand, Restoring, IsUnfinished, Unfinished
<1>8. ASSUME ~unreported' PROVE LaterIsApart'
  BY <1>2, <1>8 DEF Standing, Stored, Working, UnfinishedInHand, LaterIsApart,
    VersionsAreKnown, RollbackIsPossible, Exact, Restoring, RollingBack, IsUnfinished,
    Unfinished, Versions
<1> QED BY <1>4, <1>5, <1>6, <1>7, <1>8

\* A preview shows the live registry.
LEMMA PreviewKeeps ==
  ASSUME IInv, Preview
  PROVE  IInv'
<1> USE DEF IInv, Preview
<1>1. Standing'
  BY LiveMayChange DEF Exact, Standing, RollbackIsPossible
<1>2. Working'
  <2>1. PICK b \in backups, m \in Modes :
          preview' = [source |-> b, mode |-> m, seen |-> live]
    OBVIOUS
  <2>2. b \in 0..made /\ live \in 0..MaxVersions
    BY DEF Standing, Stored, Versions
  <2>3. preview' \in [source : 0..made, mode : Modes, seen : 0..MaxVersions]
    BY <2>1, <2>2
  <2> QED BY <2>3 DEF Working
<1>3. InProgress'
  BY DEF Standing, Stored, Working, OfferedWhenCompleted, RollbackIsPossible, Exact,
    Restoring, RollingBack, IsUnfinished
<1>4. ASSUME ~unreported' PROVE UnfinishedInHand'
  BY <1>4 DEF Working, UnfinishedInHand, Restoring, IsUnfinished, Unfinished
<1>5. ASSUME ~unreported' PROVE LaterIsApart'
  BY <1>5 DEF Standing, Stored, Working, UnfinishedInHand, LaterIsApart, VersionsAreKnown,
    RollbackIsPossible, Exact, Restoring, RollingBack, IsUnfinished, Unfinished, Versions
<1> QED BY <1>1, <1>2, <1>3, <1>4, <1>5

\* The chosen backup is found, or the restore fails before it changes anything.
LEMMA StageKeeps ==
  ASSUME IInv, Stage
  PROVE  IInv'
<1> USE DEF IInv, Stage
<1>1. Standing'
  BY LiveMayChange DEF Exact, Standing, RollbackIsPossible
<1>2. Working'
  BY NoPreviewTyped DEF Standing, Stored, Working, Restoring, RollingBack
<1>3. InProgress'
  BY DEF Standing, Stored, Working, OfferedWhenCompleted, RollbackIsPossible, Exact,
    Restoring, RollingBack, IsUnfinished
<1>4. ASSUME ~unreported' PROVE UnfinishedInHand'
  BY <1>4 DEF Working, UnfinishedInHand, Restoring, IsUnfinished, Unfinished
<1>5. ASSUME ~unreported' PROVE LaterIsApart'
  BY <1>5 DEF Standing, Stored, Working, UnfinishedInHand, LaterIsApart, VersionsAreKnown,
    RollbackIsPossible, Exact, Restoring, RollingBack, IsUnfinished, Unfinished, Versions
<1> QED BY <1>1, <1>2, <1>3, <1>4, <1>5

\* The owner is told of a restore that is complete.
LEMMA CompletedKeeps ==
  ASSUME IInv, Completed
  PROVE  IInv'
<1> USE DEF IInv, Completed
<1>1. Standing'
  BY LiveMayChange DEF Exact, Standing, RollbackIsPossible
<1>2. Working'
  BY NoPreviewTyped DEF Standing, Stored, Working, Leave, Restoring, RollingBack
<1>3. InProgress'
  BY DEF Standing, Stored, Working, OfferedWhenCompleted, RollbackIsPossible, Exact, Leave,
    Restoring, RollingBack, IsUnfinished
<1>4. ASSUME ~unreported' PROVE UnfinishedInHand'
  BY <1>4 DEF Working, UnfinishedInHand, Leave, Restoring, IsUnfinished, Unfinished
<1>5. ASSUME ~unreported' PROVE LaterIsApart'
  BY <1>5 DEF Standing, Stored, Working, UnfinishedInHand, LaterIsApart, VersionsAreKnown,
    RollbackIsPossible, Exact, Leave, Restoring, RollingBack, IsUnfinished, Unfinished,
    Versions
<1> QED BY <1>1, <1>2, <1>3, <1>4, <1>5

\* The undo puts the safety backup back, which is the registry from before.
LEMMA UndoKeeps ==
  ASSUME IInv, Undo
  PROVE  IInv'
<1> USE DEF IInv, Undo
<1>1. Standing'
  BY LiveMayChange DEF Exact, Standing, RollbackIsPossible
<1>2. Working'
  BY NoPreviewTyped DEF Standing, Stored, Working, Restoring, RollingBack
<1>3. InProgress'
  BY DEF Standing, Stored, Working, OfferedWhenCompleted, RollbackIsPossible, Exact,
    Restoring, RollingBack, IsUnfinished
<1>4. ASSUME ~unreported' PROVE UnfinishedInHand'
  BY <1>4 DEF Working, UnfinishedInHand, Restoring, IsUnfinished, Unfinished
<1>5. ASSUME ~unreported' PROVE LaterIsApart'
  BY <1>5 DEF Standing, Stored, Working, UnfinishedInHand, LaterIsApart, VersionsAreKnown,
    RollbackIsPossible, Exact, Restoring, RollingBack, IsUnfinished, Unfinished, Versions
<1> QED BY <1>1, <1>2, <1>3, <1>4, <1>5

\* The undo raises, before or after it has put that registry back.
LEMMA UndoFailsKeeps ==
  ASSUME IInv, UndoFails
  PROVE  IInv'
<1> USE DEF IInv, UndoFails
<1>1. Standing'
  BY LiveMayChange DEF Exact, Standing, RollbackIsPossible
<1>2. Working'
  BY NoPreviewTyped DEF Standing, Stored, Working, Raise, Restoring, RollingBack
<1>3. InProgress'
  BY DEF Standing, Stored, Working, OfferedWhenCompleted, RollbackIsPossible, Exact,
    Restoring, RollingBack, IsUnfinished
<1>4. ASSUME ~unreported' PROVE UnfinishedInHand'
  BY <1>4 DEF Working, UnfinishedInHand, Restoring, IsUnfinished, Unfinished
<1>5. ASSUME ~unreported' PROVE LaterIsApart'
  BY <1>5 DEF Standing, Stored, Working, UnfinishedInHand, LaterIsApart, VersionsAreKnown,
    RollbackIsPossible, Exact, Restoring, RollingBack, IsUnfinished, Unfinished, Versions
<1> QED BY <1>1, <1>2, <1>3, <1>4, <1>5

\* The handler's write raises: the journal stays, and nobody was told.
LEMMA WriteFailedFailsKeeps ==
  ASSUME IInv, WriteFailedFails
  PROVE  IInv'
<1> USE DEF IInv, WriteFailedFails
<1>1. Standing'
  BY LiveMayChange DEF Exact, Standing, RollbackIsPossible
<1>2. Working'
  BY NoPreviewTyped DEF Standing, Stored, Working, Leave, Raise, Restoring, RollingBack
<1>3. InProgress'
  BY DEF Standing, Stored, Working, OfferedWhenCompleted, RollbackIsPossible, Exact, Leave,
    Restoring, RollingBack, IsUnfinished
<1>4. ASSUME ~unreported' PROVE UnfinishedInHand'
  BY <1>4 DEF Working, UnfinishedInHand, Leave, Restoring, IsUnfinished, Unfinished
<1>5. ASSUME ~unreported' PROVE LaterIsApart'
  BY <1>5 DEF Standing, Stored, Working, UnfinishedInHand, LaterIsApart, VersionsAreKnown,
    RollbackIsPossible, Exact, Leave, Restoring, RollingBack, IsUnfinished, Unfinished,
    Versions
<1> QED BY <1>1, <1>2, <1>3, <1>4, <1>5

\* The rollback puts the registry from before the restore back.
LEMMA InstallRollbackKeeps ==
  ASSUME IInv, InstallRollback
  PROVE  IInv'
<1> USE DEF IInv, InstallRollback
<1>1. Standing'
  BY LiveMayChange DEF Exact, Standing, RollbackIsPossible
<1>2. Working'
  BY NoPreviewTyped DEF Standing, Stored, Working, Restoring, RollingBack
<1>3. InProgress'
  BY DEF Standing, Stored, Working, OfferedWhenCompleted, RollbackIsPossible, Exact,
    Restoring, RollingBack, IsUnfinished
<1>4. ASSUME ~unreported' PROVE UnfinishedInHand'
  BY <1>4 DEF Working, UnfinishedInHand, Restoring, IsUnfinished, Unfinished
<1>5. ASSUME ~unreported' PROVE LaterIsApart'
  BY <1>5 DEF Standing, Stored, Working, UnfinishedInHand, LaterIsApart, VersionsAreKnown,
    RollbackIsPossible, Exact, Restoring, RollingBack, IsUnfinished, Unfinished, Versions
<1> QED BY <1>1, <1>2, <1>3, <1>4, <1>5

\* The undo of a rollback puts the restored registry back.
LEMMA UndoRollbackKeeps ==
  ASSUME IInv, UndoRollback
  PROVE  IInv'
<1> USE DEF IInv, UndoRollback
<1>1. Standing'
  BY LiveMayChange DEF Exact, Standing, RollbackIsPossible
<1>2. Working'
  BY NoPreviewTyped DEF Standing, Stored, Working, Restoring, RollingBack
<1>3. InProgress'
  BY DEF Standing, Stored, Working, OfferedWhenCompleted, RollbackIsPossible, Exact,
    Restoring, RollingBack, IsUnfinished
<1>4. ASSUME ~unreported' PROVE UnfinishedInHand'
  BY <1>4 DEF Working, UnfinishedInHand, Restoring, IsUnfinished, Unfinished
<1>5. ASSUME ~unreported' PROVE LaterIsApart'
  BY <1>5 DEF Standing, Stored, Working, UnfinishedInHand, LaterIsApart, VersionsAreKnown,
    RollbackIsPossible, Exact, Restoring, RollingBack, IsUnfinished, Unfinished, Versions
<1> QED BY <1>1, <1>2, <1>3, <1>4, <1>5

\* It raises, before or after it has.
LEMMA UndoRollbackFailsKeeps ==
  ASSUME IInv, UndoRollbackFails
  PROVE  IInv'
<1> USE DEF IInv, UndoRollbackFails
<1>1. Standing'
  BY LiveMayChange DEF Exact, Standing, RollbackIsPossible
<1>2. Working'
  BY NoPreviewTyped DEF Standing, Stored, Working, Raise, Restoring, RollingBack
<1>3. InProgress'
  BY DEF Standing, Stored, Working, OfferedWhenCompleted, RollbackIsPossible, Exact,
    Restoring, RollingBack, IsUnfinished
<1>4. ASSUME ~unreported' PROVE UnfinishedInHand'
  BY <1>4 DEF Working, UnfinishedInHand, Restoring, IsUnfinished, Unfinished
<1>5. ASSUME ~unreported' PROVE LaterIsApart'
  BY <1>5 DEF Standing, Stored, Working, UnfinishedInHand, LaterIsApart, VersionsAreKnown,
    RollbackIsPossible, Exact, Restoring, RollingBack, IsUnfinished, Unfinished, Versions
<1> QED BY <1>1, <1>2, <1>3, <1>4, <1>5

\* The recovery has looked at every unfinished journal.
LEMMA EndRecoveryKeeps ==
  ASSUME IInv, EndRecovery
  PROVE  IInv'
<1> USE DEF IInv, EndRecovery
<1>1. Standing'
  BY LiveMayChange DEF Exact, Standing, RollbackIsPossible
<1>2. Working'
  BY NoPreviewTyped DEF Standing, Stored, Working, Leave, Restoring, RollingBack
<1>3. InProgress'
  BY DEF Standing, Stored, Working, OfferedWhenCompleted, RollbackIsPossible, Exact, Leave,
    Restoring, RollingBack, IsUnfinished
<1>4. ASSUME ~unreported' PROVE UnfinishedInHand'
  BY <1>4 DEF Working, UnfinishedInHand, Leave, Restoring, IsUnfinished, Unfinished
<1>5. ASSUME ~unreported' PROVE LaterIsApart'
  BY <1>5 DEF Standing, Stored, Working, UnfinishedInHand, LaterIsApart, VersionsAreKnown,
    RollbackIsPossible, Exact, Leave, Restoring, RollingBack, IsUnfinished, Unfinished,
    Versions
<1> QED BY <1>1, <1>2, <1>3, <1>4, <1>5

\* A death leaves what is on disk, and the next start to come.
LEMMA CrashKeeps ==
  ASSUME IInv, Crash
  PROVE  IInv'
<1> USE DEF IInv, Crash
<1>1. Standing'
  BY LiveMayChange DEF Exact, Standing, RollbackIsPossible
<1>2. Working'
  BY NoPreviewTyped DEF Standing, Stored, Working, Leave, Restoring, RollingBack
<1>3. InProgress'
  BY DEF Standing, Stored, Working, OfferedWhenCompleted, RollbackIsPossible, Exact, Leave,
    Restoring, RollingBack, IsUnfinished
<1>4. ASSUME ~unreported' PROVE UnfinishedInHand'
  BY <1>4 DEF Working, UnfinishedInHand, Leave, Restoring, IsUnfinished, Unfinished
<1>5. ASSUME ~unreported' PROVE LaterIsApart'
  BY <1>5 DEF Standing, Stored, Working, UnfinishedInHand, LaterIsApart, VersionsAreKnown,
    RollbackIsPossible, Exact, Leave, Restoring, RollingBack, IsUnfinished, Unfinished,
    Versions
<1> QED BY <1>1, <1>2, <1>3, <1>4, <1>5

\* The registry is replaced by the chosen backup, or what is missing is added to it.
LEMMA InstallKeeps ==
  ASSUME IInv, Install
  PROVE  IInv'
<1> USE DEF IInv, Install
<1>1. Standing'
  <2>1. CASE latest < MaxVersions /\ live' = latest + 1 /\ latest' = latest + 1
    BY <2>1, LiveMayGrow
  <2>2. CASE live' = content[preview.source] /\ UNCHANGED latest
    <3>1. \E b \in backups : live' = content[b]
      BY <2>2
    <3> QED BY <2>2, <3>1, LiveMayChange
  <2>3. CASE UNCHANGED <<live, latest>>
    BY <2>3, LiveMayChange
  <2> QED BY <2>1, <2>2, <2>3
<1>2. Working'
  BY NoPreviewTyped DEF Standing, Stored, Working, Restoring, RollingBack
<1>3. InProgress'
  BY DEF Standing, Stored, Working, OfferedWhenCompleted, RollbackIsPossible, Exact,
    Restoring, RollingBack, IsUnfinished
<1>4. ASSUME ~unreported' PROVE UnfinishedInHand'
  BY <1>4 DEF Working, UnfinishedInHand, Restoring, IsUnfinished, Unfinished
<1>5. ASSUME ~unreported' PROVE LaterIsApart'
  BY <1>5 DEF Standing, Stored, Working, UnfinishedInHand, LaterIsApart, VersionsAreKnown,
    RollbackIsPossible, Exact, Restoring, RollingBack, IsUnfinished, Unfinished, Versions
<1> QED BY <1>1, <1>2, <1>3, <1>4, <1>5

\* A step of the restore raises.
LEMMA StepFailsKeeps ==
  ASSUME IInv, StepFails
  PROVE  IInv'
<1> USE DEF IInv, StepFails
<1>1. Standing'
  BY LiveMayChange DEF Exact, Standing, RollbackIsPossible
<1>2. Working'
  <2>1. LocalsTyped'
    BY LocalsAreTyped DEF Leave
  <2>2. BoundsTyped'
    BY BoundsAreTyped DEF AllFaults
  <2>3. pc' \in {"idle", "failed", "undo"} /\ later' \in BOOLEAN /\ unreported' \in BOOLEAN
    BY DEF Working, Leave
  <2> QED BY <2>1, <2>2, <2>3 DEF Working, LocalsTyped, BoundsTyped, Restoring, RollingBack
<1>3. InProgress'
  BY DEF Standing, Stored, Working, OfferedWhenCompleted, RollbackIsPossible, Exact, Leave,
    Restoring, RollingBack, IsUnfinished
<1>4. ASSUME ~unreported' PROVE UnfinishedInHand'
  BY <1>4 DEF Working, UnfinishedInHand, Leave, Restoring, IsUnfinished, Unfinished,
    NoJournal
<1>5. ASSUME ~unreported' PROVE LaterIsApart'
  BY <1>5 DEF Standing, Stored, Working, UnfinishedInHand, LaterIsApart, VersionsAreKnown,
    RollbackIsPossible, Exact, Leave, Restoring, RollingBack, IsUnfinished, Unfinished,
    Versions
<1> QED BY <1>1, <1>2, <1>3, <1>4, <1>5

\* A step of the rollback raises.
LEMMA RollbackFailsKeeps ==
  ASSUME IInv, RollbackFails
  PROVE  IInv'
<1> USE DEF IInv, RollbackFails
<1>1. Standing'
  BY LiveMayChange DEF Exact, Standing, RollbackIsPossible
<1>2. Working'
  <2>1. LocalsTyped'
    BY LocalsAreTyped DEF Leave
  <2>2. BoundsTyped'
    BY BoundsAreTyped DEF AllFaults
  <2>3. pc' \in {"idle", "rb_undo", "rb_undo_told"} /\ later' \in BOOLEAN /\ unreported' \in BOOLEAN
    BY DEF Working, Leave
  <2> QED BY <2>1, <2>2, <2>3 DEF Working, LocalsTyped, BoundsTyped, Restoring, RollingBack
<1>3. InProgress'
  BY DEF Standing, Stored, Working, OfferedWhenCompleted, RollbackIsPossible, Exact, Leave,
    Restoring, RollingBack, IsUnfinished
<1>4. ASSUME ~unreported' PROVE UnfinishedInHand'
  BY <1>4 DEF Working, UnfinishedInHand, Leave, Restoring, IsUnfinished, Unfinished
<1>5. ASSUME ~unreported' PROVE LaterIsApart'
  BY <1>5 DEF Standing, Stored, Working, UnfinishedInHand, LaterIsApart, VersionsAreKnown,
    RollbackIsPossible, Exact, Leave, Restoring, RollingBack, IsUnfinished, Unfinished,
    Versions
<1> QED BY <1>1, <1>2, <1>3, <1>4, <1>5

\* A start, or a command that opens the registry, lists the unfinished restores.
LEMMA ListUnfinishedKeeps ==
  ASSUME IInv, ListUnfinished
  PROVE  IInv'
<1> USE DEF IInv, ListUnfinished
<1>1. Standing'
  BY LiveMayChange DEF Exact, Standing, RollbackIsPossible
<1>2. Working'
  <2>1. todo' \subseteq 1..started
    <3>1. NoJournal.state \notin Unfinished
      BY DEF NoJournal, Unfinished
    <3>2. \A r \in Restores : r \in todo' => r \in 1..MaxRestores /\ r <= started
      BY <3>1 DEF Standing, Stored, Restores
    <3> QED BY <3>2 DEF Standing, Stored, Restores
  <2> QED BY <2>1 DEF Working
<1>3. InProgress'
  BY DEF Standing, Stored, Working, OfferedWhenCompleted, RollbackIsPossible, Exact,
    Restoring, RollingBack, IsUnfinished
<1>4. ASSUME ~unreported' PROVE UnfinishedInHand'
  BY <1>4 DEF Working, UnfinishedInHand, Restoring, IsUnfinished, Unfinished
<1>5. ASSUME ~unreported' PROVE LaterIsApart'
  BY <1>5 DEF Standing, Stored, Working, UnfinishedInHand, LaterIsApart, VersionsAreKnown,
    RollbackIsPossible, Exact, Restoring, RollingBack, IsUnfinished, Unfinished, Versions
<1> QED BY <1>1, <1>2, <1>3, <1>4, <1>5

\* The registry from before an interrupted installation is put back.
LEMMA RecoverInstallKeeps ==
  ASSUME IInv, RecoverInstall
  PROVE  IInv'
<1> USE DEF IInv, RecoverInstall
<1>1. PICK r \in Restores :
         /\ Oldest(r) /\ ~Abandonable(r) /\ ~Finalizable(r)
         /\ Exact(journal[r].pre, journal[r].before)
         /\ live' = content[journal[r].pre]
         /\ current' = r
  OBVIOUS
<1>2. r \in todo /\ r <= started /\ live' = journal[r].before
  BY <1>1 DEF Standing, Stored, Working, Oldest, Exact
<1>3. Standing'
  BY LiveMayChange DEF Exact, Standing, RollbackIsPossible
<1>4. Working'
  BY <1>1, <1>2, NoPreviewTyped DEF Standing, Stored, Working, Restoring, RollingBack
<1>5. InProgress'
  BY <1>1, <1>2 DEF Standing, Stored, Working, OfferedWhenCompleted, RollbackIsPossible,
    Exact, Restoring, RollingBack, IsUnfinished
<1>6. ASSUME ~unreported' PROVE UnfinishedInHand'
  BY <1>1, <1>2, <1>6 DEF Working, UnfinishedInHand, Restoring, IsUnfinished, Unfinished
<1>7. ASSUME ~unreported' PROVE LaterIsApart'
  BY <1>1, <1>2, <1>7 DEF Standing, Stored, Working, UnfinishedInHand, LaterIsApart,
    VersionsAreKnown, RollbackIsPossible, Exact, Restoring, RollingBack, IsUnfinished,
    Unfinished, Versions, Abandonable
<1> QED BY <1>3, <1>4, <1>5, <1>6, <1>7

\* The recovery of one restore fails, and goes on with the next.
LEMMA RecoveryFailsKeeps ==
  ASSUME IInv, RecoveryFails
  PROVE  IInv'
<1> USE DEF IInv, RecoveryFails
<1>1. Standing'
  BY LiveMayChange DEF Exact, Standing, RollbackIsPossible
<1>2. Working'
  <2>1. todo' \subseteq todo
    OBVIOUS
  <2>2. BoundsTyped'
    BY BoundsAreTyped DEF AllFaults
  <2> QED BY <2>1, <2>2 DEF Working, BoundsTyped, Restoring, RollingBack
<1>3. InProgress'
  BY DEF Standing, Stored, Working, OfferedWhenCompleted, RollbackIsPossible, Exact,
    Restoring, RollingBack, IsUnfinished
<1>4. ASSUME ~unreported' PROVE UnfinishedInHand'
  BY <1>4 DEF Working, UnfinishedInHand, Restoring, IsUnfinished, Unfinished
<1>5. ASSUME ~unreported' PROVE LaterIsApart'
  BY <1>5 DEF Standing, Stored, Working, UnfinishedInHand, LaterIsApart, VersionsAreKnown,
    RollbackIsPossible, Exact, Restoring, RollingBack, IsUnfinished, Unfinished, Versions
<1> QED BY <1>1, <1>2, <1>3, <1>4, <1>5

\* The journal names the safety backup before anything is changed.
LEMMA WritePreparedKeeps ==
  ASSUME IInv, WritePrepared
  PROVE  IInv'
<1> USE DEF IInv, WritePrepared
<1>1. Writes(current, "prepared", live, 0, safety, FALSE)
  BY WritePreparedWrites
<1> HIDE DEF Write
<1>2. Standing'
  <2>1. Exact(safety, live) /\ 0 <= latest
    BY DEF Standing, Stored, Versions, Exact
  <2> QED BY <1>1, <2>1, JournalMayChange
<1>3. Working'
  BY <1>1, NoPreviewTyped DEF Standing, Stored, Working, Restoring, RollingBack
<1>4. InProgress'
  BY <1>1 DEF Standing, Stored, Working, OfferedWhenCompleted, RollbackIsPossible, Exact,
    Restoring, RollingBack, IsUnfinished, Writes
<1>5. ASSUME ~unreported' PROVE UnfinishedInHand'
  BY <1>1, <1>5 DEF Working, UnfinishedInHand, Restoring, IsUnfinished, Unfinished, Writes
<1>6. ASSUME ~unreported' PROVE LaterIsApart'
  BY <1>1, <1>6 DEF Standing, Stored, Working, UnfinishedInHand, LaterIsApart,
    VersionsAreKnown, RollbackIsPossible, Exact, Restoring, RollingBack, IsUnfinished,
    Unfinished, Versions, Writes
<1> QED BY <1>2, <1>3, <1>4, <1>5, <1>6

\* The journal says that the registry is about to be replaced.
LEMMA WriteInstallingKeeps ==
  ASSUME IInv, WriteInstalling
  PROVE  IInv'
<1> USE DEF IInv, WriteInstalling
<1>1. Writes(current, "installing", journal[current].before, journal[current].after,
                journal[current].pre, journal[current].available)
  BY WriteInstallingWrites
<1> HIDE DEF Write
<1>2. Standing'
  BY <1>1, JournalMayChange DEF Standing, Stored, VersionsAreKnown, OfferedWhenCompleted,
    RollbackIsPossible, Exact, Unfinished, Restoring, RollingBack, Versions
<1>3. Working'
  BY <1>1, NoPreviewTyped DEF Standing, Stored, Working, Restoring, RollingBack
<1>4. InProgress'
  BY <1>1 DEF Standing, Stored, Working, OfferedWhenCompleted, RollbackIsPossible, Exact,
    Restoring, RollingBack, IsUnfinished, Writes
<1>5. ASSUME ~unreported' PROVE UnfinishedInHand'
  BY <1>1, <1>5 DEF Working, UnfinishedInHand, Restoring, IsUnfinished, Unfinished, Writes
<1>6. ASSUME ~unreported' PROVE LaterIsApart'
  BY <1>1, <1>6 DEF Standing, Stored, Working, UnfinishedInHand, LaterIsApart,
    VersionsAreKnown, RollbackIsPossible, Exact, Restoring, RollingBack, IsUnfinished,
    Unfinished, Versions, Writes
<1> QED BY <1>2, <1>3, <1>4, <1>5, <1>6

\* It says which registry was installed.
LEMMA WriteInstalledKeeps ==
  ASSUME IInv, WriteInstalled
  PROVE  IInv'
<1> USE DEF IInv, WriteInstalled
<1>1. Writes(current, "installed", journal[current].before, live,
                journal[current].pre, journal[current].available)
  BY WriteInstalledWrites
<1> HIDE DEF Write
<1>2. Standing'
  BY <1>1, JournalMayChange DEF Standing, Stored, VersionsAreKnown, OfferedWhenCompleted,
    RollbackIsPossible, Exact, Unfinished, Restoring, RollingBack, Versions
<1>3. Working'
  BY <1>1, NoPreviewTyped DEF Standing, Stored, Working, Restoring, RollingBack
<1>4. InProgress'
  BY <1>1 DEF Standing, Stored, Working, OfferedWhenCompleted, RollbackIsPossible, Exact,
    Restoring, RollingBack, IsUnfinished, Writes
<1>5. ASSUME ~unreported' PROVE UnfinishedInHand'
  BY <1>1, <1>5 DEF Working, UnfinishedInHand, Restoring, IsUnfinished, Unfinished, Writes
<1>6. ASSUME ~unreported' PROVE LaterIsApart'
  BY <1>1, <1>6 DEF Standing, Stored, Working, UnfinishedInHand, LaterIsApart,
    VersionsAreKnown, RollbackIsPossible, Exact, Restoring, RollingBack, IsUnfinished,
    Unfinished, Versions, Writes
<1> QED BY <1>2, <1>3, <1>4, <1>5, <1>6

\* It offers the rollback.
LEMMA WriteCompletedKeeps ==
  ASSUME IInv, WriteCompleted
  PROVE  IInv'
<1> USE DEF IInv, WriteCompleted
<1>1. Writes(current, "completed", journal[current].before, journal[current].after,
                journal[current].pre, TRUE)
  BY WriteCompletedWrites
<1> HIDE DEF Write
<1>2. Standing'
  BY <1>1, JournalMayChange DEF Standing, Stored, VersionsAreKnown, OfferedWhenCompleted,
    RollbackIsPossible, Exact, Unfinished, Restoring, RollingBack, Versions
<1>3. Working'
  BY <1>1, NoPreviewTyped DEF Standing, Stored, Working, Restoring, RollingBack
<1>4. InProgress'
  BY <1>1 DEF Standing, Stored, Working, OfferedWhenCompleted, RollbackIsPossible, Exact,
    Restoring, RollingBack, IsUnfinished, Writes
<1>5. ASSUME ~unreported' PROVE UnfinishedInHand'
  BY <1>1, <1>5 DEF Working, UnfinishedInHand, Restoring, IsUnfinished, Unfinished, Writes
<1>6. ASSUME ~unreported' PROVE LaterIsApart'
  BY <1>1, <1>6 DEF Standing, Stored, Working, UnfinishedInHand, LaterIsApart,
    VersionsAreKnown, RollbackIsPossible, Exact, Restoring, RollingBack, IsUnfinished,
    Unfinished, Versions, Writes
<1> QED BY <1>2, <1>3, <1>4, <1>5, <1>6

\* It says that the restore failed, and whether it was undone.
LEMMA WriteFailedKeeps ==
  ASSUME IInv, WriteFailed
  PROVE  IInv'
<1> USE DEF IInv, WriteFailed
<1>1. Writes(current, IF pc = "undone" THEN "failed_rolled_back" ELSE "failed",
                journal[current].before, journal[current].after, journal[current].pre, FALSE)
  BY WriteFailedWrites
<1> HIDE DEF Write
<1>2. Standing'
  BY <1>1, JournalMayChange DEF Standing, Stored, VersionsAreKnown, OfferedWhenCompleted,
    RollbackIsPossible, Exact, Unfinished, Restoring, RollingBack, Versions
<1>3. Working'
  BY <1>1, NoPreviewTyped DEF Standing, Stored, Working, Leave, Restoring, RollingBack
<1>4. InProgress'
  BY <1>1 DEF Standing, Stored, Working, OfferedWhenCompleted, RollbackIsPossible, Exact,
    Leave, Restoring, RollingBack, IsUnfinished, Writes
<1>5. ASSUME ~unreported' PROVE UnfinishedInHand'
  BY <1>1, <1>5 DEF Working, UnfinishedInHand, Leave, Restoring, IsUnfinished, Unfinished,
    Writes
<1>6. ASSUME ~unreported' PROVE LaterIsApart'
  BY <1>1, <1>6 DEF Standing, Stored, Working, UnfinishedInHand, LaterIsApart,
    VersionsAreKnown, RollbackIsPossible, Exact, Leave, Restoring, RollingBack,
    IsUnfinished, Unfinished, Versions, Writes
<1> QED BY <1>2, <1>3, <1>4, <1>5, <1>6

\* It names the backup that the rollback falls back on.
LEMMA WriteRollbackKeeps ==
  ASSUME IInv, WriteRollback
  PROVE  IInv'
<1> USE DEF IInv, WriteRollback
<1>1. Writes(current, journal[current].state, journal[current].before, journal[current].after,
                journal[current].pre, journal[current].available)
  BY WriteRollbackWrites
<1> HIDE DEF Write
<1>2. Standing'
  BY <1>1, JournalMayChange DEF Standing, Stored, VersionsAreKnown, OfferedWhenCompleted,
    RollbackIsPossible, Exact, Unfinished, Restoring, RollingBack, Versions
<1>3. Working'
  BY <1>1, NoPreviewTyped DEF Standing, Stored, Working, Restoring, RollingBack
<1>4. InProgress'
  BY <1>1 DEF Standing, Stored, Working, OfferedWhenCompleted, RollbackIsPossible, Exact,
    Restoring, RollingBack, IsUnfinished, Writes
<1>5. ASSUME ~unreported' PROVE UnfinishedInHand'
  BY <1>1, <1>5 DEF Working, UnfinishedInHand, Restoring, IsUnfinished, Unfinished, Writes
<1>6. ASSUME ~unreported' PROVE LaterIsApart'
  BY <1>1, <1>6 DEF Standing, Stored, Working, UnfinishedInHand, LaterIsApart,
    VersionsAreKnown, RollbackIsPossible, Exact, Restoring, RollingBack, IsUnfinished,
    Unfinished, Versions, Writes
<1> QED BY <1>2, <1>3, <1>4, <1>5, <1>6

\* It says that the restore was rolled back.
LEMMA WriteRolledBackKeeps ==
  ASSUME IInv, WriteRolledBack
  PROVE  IInv'
<1> USE DEF IInv, WriteRolledBack
<1>1. Writes(current, "rolled_back", journal[current].before, journal[current].after,
                journal[current].pre, FALSE)
  BY WriteRolledBackWrites
<1> HIDE DEF Write
<1>2. Standing'
  BY <1>1, JournalMayChange DEF Standing, Stored, VersionsAreKnown, OfferedWhenCompleted,
    RollbackIsPossible, Exact, Unfinished, Restoring, RollingBack, Versions
<1>3. Working'
  BY <1>1, NoPreviewTyped DEF Standing, Stored, Working, Leave, Restoring, RollingBack
<1>4. InProgress'
  BY <1>1 DEF Standing, Stored, Working, OfferedWhenCompleted, RollbackIsPossible, Exact,
    Leave, Restoring, RollingBack, IsUnfinished, Writes
<1>5. ASSUME ~unreported' PROVE UnfinishedInHand'
  BY <1>1, <1>5 DEF Working, UnfinishedInHand, Leave, Restoring, IsUnfinished, Unfinished,
    Writes
<1>6. ASSUME ~unreported' PROVE LaterIsApart'
  BY <1>1, <1>6 DEF Standing, Stored, Working, UnfinishedInHand, LaterIsApart,
    VersionsAreKnown, RollbackIsPossible, Exact, Leave, Restoring, RollingBack,
    IsUnfinished, Unfinished, Versions, Writes
<1> QED BY <1>2, <1>3, <1>4, <1>5, <1>6

\* It says that an interrupted restore was undone by a start.
LEMMA WriteRecoveredKeeps ==
  ASSUME IInv, WriteRecovered
  PROVE  IInv'
<1> USE DEF IInv, WriteRecovered
<1>1. Writes(current, "recovered", journal[current].before, journal[current].after,
                journal[current].pre, FALSE)
  BY WriteRecoveredWrites
<1> HIDE DEF Write
<1>2. Standing'
  BY <1>1, JournalMayChange DEF Standing, Stored, VersionsAreKnown, OfferedWhenCompleted,
    RollbackIsPossible, Exact, Unfinished, Restoring, RollingBack, Versions
<1>3. Working'
  BY <1>1, NoPreviewTyped DEF Standing, Stored, Working, Restoring, RollingBack
<1>4. InProgress'
  BY <1>1, SMTT(30) DEF Standing, Stored, Working, OfferedWhenCompleted, RollbackIsPossible, Exact,
    Restoring, RollingBack, IsUnfinished, Restores, Writes
<1>5. ASSUME ~unreported' PROVE UnfinishedInHand'
  BY <1>1, <1>5 DEF Working, UnfinishedInHand, Restoring, IsUnfinished, Unfinished, Writes
<1>6. ASSUME ~unreported' PROVE LaterIsApart'
  BY <1>1, <1>6 DEF Standing, Stored, Working, UnfinishedInHand, LaterIsApart,
    VersionsAreKnown, RollbackIsPossible, Exact, Restoring, RollingBack, IsUnfinished,
    Unfinished, Versions, Writes
<1> QED BY <1>2, <1>3, <1>4, <1>5, <1>6

\* A restore that installed nothing, or was undone already, is abandoned.
LEMMA AbandonKeeps ==
  ASSUME IInv, Abandon
  PROVE  IInv'
<1> USE DEF IInv, Abandon
<1>1. PICK r \in todo :
         /\ Abandonable(r) /\ todo' = todo \ {r}
         /\ Writes(r, "abandoned", journal[r].before, journal[r].after, journal[r].pre, FALSE)
  BY AbandonWrites
<1> HIDE DEF Write
<1>2. Standing'
  <2>1. r \in Restores /\ journal[r].after <= latest
    BY <1>1 DEF Standing, VersionsAreKnown, Writes
  <2> QED BY <1>1, <2>1, JournalMayChange DEF Unfinished
<1>3. Working'
  BY <1>1, NoPreviewTyped DEF Standing, Stored, Working, Restoring, RollingBack
<1>4. InProgress'
  BY <1>1, SMTT(30) DEF Standing, Stored, Working, OfferedWhenCompleted, RollbackIsPossible, Exact,
    Restoring, RollingBack, IsUnfinished, Writes, Restores
<1>5. ASSUME ~unreported' PROVE UnfinishedInHand'
  BY <1>1, <1>5 DEF Working, UnfinishedInHand, Restoring, IsUnfinished, Unfinished, Writes
<1>6. ASSUME ~unreported' PROVE LaterIsApart'
  BY <1>1, <1>6 DEF Standing, Stored, Working, UnfinishedInHand, LaterIsApart,
    VersionsAreKnown, RollbackIsPossible, Exact, Restoring, RollingBack, IsUnfinished,
    Unfinished, Versions, Writes
<1> QED BY <1>2, <1>3, <1>4, <1>5, <1>6

\* A restore whose registry is live is completed.
LEMMA FinalizeKeeps ==
  ASSUME IInv, Finalize
  PROVE  IInv'
<1> USE DEF IInv, Finalize
<1>1. PICK r \in todo :
         /\ ~Abandonable(r) /\ Finalizable(r) /\ todo' = todo \ {r}
         /\ Writes(r, "completed", journal[r].before, journal[r].after, journal[r].pre, TRUE)
  BY FinalizeWrites
<1> HIDE DEF Write
<1>2. Standing'
  <2>1. r \in Restores /\ journal[r].after <= latest
    BY <1>1 DEF Standing, VersionsAreKnown, Writes
  <2>2. Exact(journal[r].pre, journal[r].before)
    BY <1>1, <2>1 DEF Standing, RollbackIsPossible, Finalizable, Unfinished
  <2> QED BY <1>1, <2>1, <2>2, JournalMayChange DEF Unfinished
<1>3. Working'
  BY <1>1, NoPreviewTyped DEF Standing, Stored, Working, Restoring, RollingBack
<1>4. InProgress'
  BY <1>1, SMTT(30) DEF Standing, Stored, Working, OfferedWhenCompleted, RollbackIsPossible, Exact,
    Restoring, RollingBack, IsUnfinished, Writes, Restores
<1>5. ASSUME ~unreported' PROVE UnfinishedInHand'
  BY <1>1, <1>5 DEF Working, UnfinishedInHand, Restoring, IsUnfinished, Unfinished, Writes
<1>6. ASSUME ~unreported' PROVE LaterIsApart'
  BY <1>1, <1>6 DEF Standing, Stored, Working, UnfinishedInHand, LaterIsApart,
    VersionsAreKnown, RollbackIsPossible, Exact, Restoring, RollingBack, IsUnfinished,
    Unfinished, Versions, Writes
<1> QED BY <1>2, <1>3, <1>4, <1>5, <1>6

\* It says that the rollback failed, as the journal in memory has it.
LEMMA WriteRollbackFailedKeeps ==
  ASSUME IInv, WriteRollbackFailed
  PROVE  IInv'
<1> USE DEF IInv, WriteRollbackFailed
<1>1. PICK state \in {journal[current].state, "rolled_back"} :
         \E offered \in {journal[current].available, FALSE} :
           /\ state = "rolled_back" => ~offered
           /\ Writes(current, state, journal[current].before, journal[current].after,
                     journal[current].pre, offered)
  BY WriteRollbackFailedWrites DEF RollingBack
<1> HIDE DEF Write
<1>2. Standing'
  <2>1. /\ journal[current].after <= latest
        /\ Exact(journal[current].pre, journal[current].before)
    BY DEF Standing, VersionsAreKnown, RollbackIsPossible, RollingBack
  <2>2. journal[current].state = "completed" /\ journal[current].available
    BY DEF RollingBack
  <2> QED BY <1>1, <2>1, <2>2, JournalMayChange DEF Unfinished
<1>3. Working'
  BY <1>1, NoPreviewTyped DEF Standing, Stored, Working, Leave, Restoring, RollingBack
<1>4. InProgress'
  BY <1>1 DEF Standing, Stored, Working, OfferedWhenCompleted, RollbackIsPossible, Exact,
    Leave, Restoring, RollingBack, IsUnfinished, Writes
<1>5. ASSUME ~unreported' PROVE UnfinishedInHand'
  BY <1>1, <1>5 DEF Working, UnfinishedInHand, Leave, Restoring, IsUnfinished, Unfinished,
    RollingBack, Writes
<1>6. ASSUME ~unreported' PROVE LaterIsApart'
  BY <1>1, <1>6 DEF Standing, Stored, Working, UnfinishedInHand, LaterIsApart,
    VersionsAreKnown, RollbackIsPossible, Exact, Leave, Restoring, RollingBack,
    IsUnfinished, Unfinished, Versions, Writes
<1> QED BY <1>2, <1>3, <1>4, <1>5, <1>6

\* Every step keeps the invariant.
LEMMA InvStep == IInv /\ [Next]_vars => IInv'
<1> SUFFICES ASSUME IInv, [Next]_vars PROVE IInv'
  OBVIOUS
<1>1. CASE Restore
  BY <1>1, WritePreparedKeeps, StageKeeps, WriteInstallingKeeps, InstallKeeps,
    WriteInstalledKeeps, WriteCompletedKeeps, CompletedKeeps, StepFailsKeeps, UndoKeeps,
    UndoFailsKeeps, WriteFailedKeeps, WriteFailedFailsKeeps DEF Restore
<1>2. CASE Rollback
  BY <1>2, WriteRollbackKeeps, InstallRollbackKeeps, WriteRolledBackKeeps,
    RollbackFailsKeeps, UndoRollbackKeeps, UndoRollbackFailsKeeps, WriteRollbackFailedKeeps
    DEF Rollback
<1>3. CASE Recover \/ OpenByCommand
  BY <1>3, ListUnfinishedKeeps, AbandonKeeps, FinalizeKeeps, RecoverInstallKeeps,
    WriteRecoveredKeeps, RecoveryFailsKeeps, EndRecoveryKeeps DEF Recover, Restart,
    OpenByCommand
<1>4. CASE Edit \/ CreateBackup \/ Preview \/ BeginRestore \/ BeginRollback \/ Crash
  BY <1>4, EditKeeps, CreateBackupKeeps, PreviewKeeps, BeginRestoreKeeps,
    BeginRollbackKeeps, CrashKeeps
<1>5. CASE UNCHANGED vars
  BY <1>5 DEF vars, IInv, Standing, Stored, Entries, Working, VersionsAreKnown,
    OfferedWhenCompleted, RollbackIsPossible, Exact, UnfinishedInHand, LaterIsApart,
    IsUnfinished
<1> QED BY <1>1, <1>2, <1>3, <1>4, <1>5 DEF Next

\* So it holds for ever.
LEMMA Invariance == Spec => []IInv
BY InitInv, InvStep, PTL DEF Spec

\* Every variable holds a value of its kind, and the journal of the restore or rollback
\* that runs is where its next step expects it.
THEOREM TypeCorrect == Spec => []TypeOK
BY Invariance, TypesFollow, PTL

\* The backup that a restore in progress falls back on, or that the owner is promised a
\* rollback to, is there and holds what the journal says, whatever create_backup prunes.
THEOREM RollbacksArePossible == Spec => []RollbackIsPossible
<1>1. IInv => RollbackIsPossible
  BY DEF IInv, Standing
<1> QED BY <1>1, Invariance, PTL

\* No restore, rollback, undo or recovery of a start takes away what the owner did to the
\* registry since, unless a journal could not be written.
LEMMA LaterWorkStep == IInv /\ [Next]_vars => [~unreported => ~Erases]_vars
<1> SUFFICES ASSUME IInv, Next, ~unreported, later, live' # live,
                    ~(pc = "install" /\ preview.seen = live),
                    ~(pc = "idle" /\ latest' # latest)
             PROVE FALSE
  BY DEF Erases
<1>1. UnfinishedInHand /\ LaterIsApart
  BY DEF IInv
<1>2. ~Install
  BY DEF IInv, Install
<1>3. CASE Edit
  BY <1>3 DEF IInv, Standing, Stored, Versions, Edit
<1>4. CASE Undo \/ UndoFails
  BY <1>1, <1>4 DEF LaterIsApart, Undo, UndoFails, Exact
<1>5. CASE InstallRollback \/ RollbackFails \/ UndoRollback \/ UndoRollbackFails
  BY <1>1, <1>5 DEF LaterIsApart, RollingBack, InstallRollback, RollbackFails, UndoRollback,
    UndoRollbackFails
<1>6. CASE RecoverInstall
  BY <1>1, <1>6 DEF IInv, LaterIsApart, Standing, Stored, Working, RecoverInstall, Oldest,
    Abandonable, Restores
<1>7. CASE UNCHANGED live
  BY <1>7
<1> QED
  BY <1>2, <1>3, <1>4, <1>5, <1>6, <1>7 DEF Next, Restore, Rollback, Recover, CreateBackup,
    Preview, BeginRestore, BeginRollback, OpenByCommand, Restart, ListUnfinished, Crash,
    WritePrepared, Stage, WriteInstalling, WriteInstalled, WriteCompleted, Completed,
    StepFails, WriteFailed, WriteFailedFails, WriteRollback, WriteRolledBack,
    WriteRollbackFailed, Abandon, Finalize, WriteRecovered, RecoveryFails, EndRecovery

\* "Rollback that refuses to erase later registry work", and so do undo and recovery: what
\* the owner changed since the last install goes only by a restore whose preview saw it.
THEOREM LaterWorkStays == Spec => LaterWorkIsKept
BY Invariance, LaterWorkStep, PTL DEF Spec, LaterWorkIsKept

\* Nor does a step write a final state that the live registry belies: a restore that is undone,
\* abandoned, recovered or rolled back left the one from before, a completed one the one
\* it installed.
LEMMA JournalsTellStep == IInv /\ [Next]_vars => [~unreported => ~Misleads]_vars
<1> SUFFICES ASSUME IInv, Next, ~unreported PROVE ~Misleads
  OBVIOUS
<1>1. UnfinishedInHand /\ LaterIsApart
  BY DEF IInv
<1>2. CASE UNCHANGED journal
  BY <1>2 DEF Misleads
<1>3. CASE WritePrepared \/ WriteInstalling \/ WriteInstalled
  BY <1>3, WritePreparedWrites, WriteInstallingWrites, WriteInstalledWrites DEF Writes,
    Misleads, Undone
<1>4. CASE WriteCompleted
  BY <1>4, WriteCompletedWrites DEF WriteCompleted, IInv, Writes, Misleads, Undone
<1>5. CASE WriteFailed
  BY <1>5, WriteFailedWrites DEF WriteFailed, IInv, Writes, Misleads, Undone
<1>6. CASE WriteRollback \/ WriteRollbackFailed
  BY <1>6, WriteRollbackWrites, WriteRollbackFailedWrites DEF IInv, Writes, Misleads, Undone
<1>7. CASE WriteRolledBack
  BY <1>7, WriteRolledBackWrites DEF WriteRolledBack, IInv, Writes, Misleads, Undone
<1>8. CASE Abandon
  <2>1. UNCHANGED live
    BY <1>8 DEF Abandon
  <2> QED BY <1>1, <1>8, <2>1, AbandonWrites DEF LaterIsApart, Abandonable, Writes,
    Misleads, Undone
<1>9. CASE Finalize
  <2>1. UNCHANGED live
    BY <1>9 DEF Finalize
  <2> QED BY <1>9, <2>1, FinalizeWrites DEF Finalizable, Writes, Misleads, Undone
<1>10. CASE WriteRecovered
  BY <1>10, WriteRecoveredWrites DEF WriteRecovered, IInv, Writes, Misleads, Undone
<1> QED
  BY <1>2, <1>3, <1>4, <1>5, <1>6, <1>7, <1>8, <1>9, <1>10 DEF Next, Restore, Rollback,
    Recover, Edit, CreateBackup, Preview, BeginRestore, BeginRollback, OpenByCommand,
    Restart, ListUnfinished, Crash, Stage, Install, Undo, UndoFails, Completed, StepFails,
    WriteFailedFails, InstallRollback, RollbackFails, UndoRollback, UndoRollbackFails,
    RecoverInstall, RecoveryFails, EndRecovery

\* The journal of a restore that ended says whether the registry before it or the one it
\* installed is live, as long as every journal could be written.
THEOREM JournalsAreTrue == Spec => JournalsTell
BY Invariance, JournalsTellStep, PTL DEF Spec, JournalsTell

===============================================================================
