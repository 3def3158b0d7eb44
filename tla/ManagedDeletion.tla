--------------------------- MODULE ManagedDeletion ---------------------------
(***************************************************************************)
(* The permanent deletion of one managed repository (registry.py):         *)
(* requests of the owner process delete it and mutate it, an owner may     *)
(* register a preserved copy elsewhere, and whatever process starts - the  *)
(* owner's, or a command of the CLI - first recovers the deletions that    *)
(* left a journal and then registers what it finds among the managed       *)
(* repositories.  A tree is "whole"; or "broken", its metadata without all *)
(* its bytes; or "hollow", without metadata.                               *)
(***************************************************************************)
EXTENDS FiniteSets, Naturals

CONSTANTS
    Deletions,   \* the deletions, each by one request thread
    Writers,     \* the other request threads
    Owner,       \* the owner's process
    Commands,    \* processes of the CLI, which open the registry too
    Nobody,      \* holder of a free lock, deletion of no intent
    MaxFaults,   \* bound: calls that raise
    MaxCrashes,  \* bound: deaths of the owner's process
    MaxCopies,   \* bound: rows the owner removes or registers for a copy
    Gaps         \* what the scenario allows, see AllGaps

\* What the code does not shut out, for runs with and without it: a service
\* built after its tree was moved away ("reopen"), the deletion of a repository
\* whose directory is missing ("missing"), and the registration of a copy, or
\* the removal of the row, while a deletion has a journal ("copy", "unregister").
AllGaps == {"reopen", "missing", "copy", "unregister"}

Starters == {Owner} \cup Commands
Actors   == Deletions \cup Writers \cup Starters

ASSUME Distinct ==
  /\ Deletions \cap (Writers \cup Starters) = {} /\ Writers \cap Starters = {}
  /\ Owner \notin Commands /\ Nobody \notin Actors
  /\ IsFiniteSet(Deletions)
  /\ MaxFaults \in Nat /\ MaxCrashes \in Nat /\ MaxCopies \in Nat
  /\ Gaps \subseteq AllGaps

Trees   == {"whole", "broken", "hollow"}
Stated  == {"whole", "broken"}  \* trees that have a state.json

VARIABLES
    row,        \* where the registry has the repository: "home", "copy" or "none"
    home,       \* the tree under managed-repositories, or "absent"
    staged,     \* the tree each deletion has in its staging directory, or "absent"
    journals,   \* the deletions that have a journal
    intent,     \* the deletion that the intent file names
    tombstone,  \* whether there is a tombstone
    guard,      \* holder of the deletion guard
    repoLock,   \* holder of the repository's lock
    opLock,     \* holder of the operation lock, over several steps
    pc,         \* where each actor is
    existed,    \* path_existed of each deletion
    moved,      \* moved of each deletion
    listed,     \* the journals each starting process has listed
    todo,       \* those it has not looked at yet
    current,    \* the one it is looking at
    retained,   \* those it reports it could not recover
    faults, crashes, copies,
    promised    \* history: the registry dropped the repository for good, and
                \* no owner has registered it since

files  == <<home, staged, journals, intent, tombstone>>
locks  == <<guard, repoLock, opLock>>
locals == <<existed, moved, listed, todo, current, retained>>
bounds == <<faults, crashes, copies>>
vars   == <<row, files, locks, pc, locals, bounds, promised>>

-----------------------------------------------------------------------------
Go(a, to) == pc' = [pc EXCEPT ![a] = to]

Serving == pc[Owner] \in {"serving", "copied"}

\* Path.mkdir(parents = True) of the constructor and of the lock file.
MakeHome ==
  /\ home = "absent" => "reopen" \in Gaps
  /\ home' = IF home = "absent" THEN "hollow" ELSE home

\* An operation that fails counts against the bound.
Raise == faults < MaxFaults /\ faults' = faults + 1 /\ UNCHANGED <<crashes, copies>>

Init ==
  /\ row = "home" /\ home = "whole"
  /\ staged = [d \in Deletions |-> "absent"]
  /\ journals = {} /\ intent = Nobody /\ tombstone = FALSE
  /\ guard = Nobody /\ repoLock = Nobody /\ opLock = Nobody
  /\ pc = [a \in Actors |-> IF a = Owner THEN "serving" ELSE "idle"]
  /\ existed = [d \in Deletions |-> FALSE]
  /\ moved = [d \in Deletions |-> FALSE]
  /\ listed = [s \in Starters |-> {}]
  /\ todo = [s \in Starters |-> {}]
  /\ current = [s \in Starters |-> Nobody]
  /\ retained = [s \in Starters |-> {}]
  /\ faults = 0 /\ crashes = 0 /\ copies = 0
  /\ promised = FALSE

-----------------------------------------------------------------------------
(* delete_managed_repository *)

\* The record is read, and whether its directory exists.
DeleteRecord(d) ==
  /\ pc[d] = "idle" /\ Serving
  /\ opLock = Nobody /\ row = "home"
  /\ home = "absent" => "missing" \in Gaps
  /\ existed' = [existed EXCEPT ![d] = home # "absent"]
  /\ Go(d, IF home # "absent" THEN "construct" ELSE "guard")
  /\ UNCHANGED <<row, files, locks, moved, listed, todo, current, retained, bounds, promised>>

DeleteConstruct(d) ==
  /\ pc[d] = "construct"
  /\ MakeHome
  /\ Go(d, "guard")
  /\ UNCHANGED <<row, staged, journals, intent, tombstone, locks, locals, bounds, promised>>

TakeGuard(d) ==
  /\ pc[d] = "guard" /\ guard = Nobody
  /\ guard' = d
  /\ Go(d, IF existed[d] THEN "validate" ELSE "one")
  /\ UNCHANGED <<row, files, repoLock, opLock, locals, bounds, promised>>

\* require_writable and ensure_identity hold of a tree that has metadata.
Writable == home \in Stated /\ intent = Nobody /\ row = "home"

ReleaseRepo(d) == repoLock' = IF repoLock = d THEN Nobody ELSE repoLock

\* The check refuses: both locks are left.
Refused(d) ==
  /\ guard' = Nobody /\ ReleaseRepo(d)
  /\ Go(d, "done")

\* Variant: the deletion does not wait for the mutation in progress.
ValidateUnlocked(d) ==
  /\ pc[d] = "validate"
  /\ MakeHome
  /\ IF home \in Stated /\ ~Writable
       THEN Refused(d)
       ELSE Go(d, "one") /\ UNCHANGED <<guard, repoLock>>
  /\ UNCHANGED <<row, staged, journals, intent, tombstone, opLock, locals, bounds, promised>>

\* The repository's lock is taken and the identity and the mode are checked.
Validate(d) ==
  /\ pc[d] = "validate" /\ repoLock = Nobody /\ opLock = Nobody
  /\ MakeHome
  /\ IF home \in Stated /\ ~Writable
       THEN Refused(d)
       ELSE repoLock' = d /\ Go(d, "one") /\ UNCHANGED guard
  /\ UNCHANGED <<row, staged, journals, intent, tombstone, opLock, locals, bounds, promised>>

\* Variant: the journal is first written after the move.
PrepareUnjournaled(d) ==
  /\ pc[d] = "one" /\ opLock = Nobody /\ row = "home"
  /\ opLock' = d
  /\ Go(d, "intent")
  /\ UNCHANGED <<row, files, guard, repoLock, locals, bounds, promised>>

\* The registry's locks are taken and the row read again; the journal is written.
Prepare(d) ==
  /\ pc[d] = "one" /\ opLock = Nobody /\ row = "home"
  /\ opLock' = d
  /\ journals' = journals \cup {d}
  /\ Go(d, "intent")
  /\ UNCHANGED <<row, home, staged, intent, tombstone, guard, repoLock, locals, bounds, promised>>

\* The intent is written; the registry's locks and the repository's are released.
PublishIntent(d) ==
  /\ pc[d] = "intent"
  /\ intent' = d
  /\ opLock' = Nobody /\ ReleaseRepo(d)
  /\ Go(d, "two")
  /\ UNCHANGED <<row, home, staged, journals, tombstone, guard, locals, bounds, promised>>

\* The row is gone, or a write failed.
PrepareFails(d) ==
  /\ \/ pc[d] = "one" /\ opLock = Nobody /\ row # "home" /\ UNCHANGED bounds
     \/ pc[d] \in {"one", "intent"} /\ opLock \in {d, Nobody} /\ Raise
  /\ journals' = journals \ {d}
  /\ intent' = Nobody
  /\ opLock' = Nobody /\ ReleaseRepo(d) /\ guard' = Nobody
  /\ Go(d, "done")
  /\ UNCHANGED <<row, home, staged, tombstone, locals, promised>>

\* The registry's locks are taken again, and the row is read again.
EnterTwo(d) ==
  /\ pc[d] = "two" /\ opLock = Nobody /\ row = "home"
  /\ opLock' = d
  /\ Go(d, IF home = "absent" THEN "tombstone" ELSE "move")
  /\ UNCHANGED <<row, files, guard, repoLock, locals, bounds, promised>>

MoveOut(d) ==
  /\ pc[d] = "move"
  /\ home' = "absent"
  /\ staged' = [staged EXCEPT ![d] = home]
  /\ moved' = [moved EXCEPT ![d] = TRUE]
  /\ Go(d, "journal")
  /\ UNCHANGED <<row, journals, intent, tombstone, locks, existed, listed, todo, current,
                 retained, bounds, promised>>

JournalStaged(d) ==
  /\ pc[d] = "journal"
  /\ journals' = journals \cup {d}
  /\ Go(d, "tombstone")
  /\ UNCHANGED <<row, home, staged, intent, tombstone, locks, locals, bounds, promised>>

WriteTombstone(d) ==
  /\ pc[d] = "tombstone"
  /\ tombstone' = TRUE
  /\ Go(d, "commit")
  /\ UNCHANGED <<row, home, staged, journals, intent, locks, locals, bounds, promised>>

\* DELETE and commit: the deletion is decided.
CommitRemoval(d) ==
  /\ pc[d] = "commit"
  /\ row' = "none" /\ promised' = TRUE
  /\ opLock' = Nobody
  /\ Go(d, "removed")
  /\ UNCHANGED <<files, guard, repoLock, locals, bounds>>

\* The journal is rewritten; that it cannot be is ignored.
JournalRemoved(d) ==
  /\ pc[d] = "removed"
  /\ \/ journals' = journals \cup {d} /\ UNCHANGED bounds
     \/ Raise /\ UNCHANGED journals
  /\ Go(d, IF staged[d] = "absent" THEN "unlink" ELSE "erase")
  /\ UNCHANGED <<row, home, staged, intent, tombstone, locks, locals, promised>>

\* rmtree of the staged tree.
Erase(d) ==
  /\ pc[d] = "erase"
  /\ staged' = [staged EXCEPT ![d] = "absent"]
  /\ Go(d, "unlink")
  /\ UNCHANGED <<row, home, journals, intent, tombstone, locks, locals, bounds, promised>>

\* rmtree stops half-way: cleanup is pending.
EraseFails(d) ==
  /\ pc[d] = "erase" /\ Raise
  /\ \E left \in {"broken", "hollow"} : staged' = [staged EXCEPT ![d] = left]
  /\ Go(d, "pending")
  /\ UNCHANGED <<row, home, journals, intent, tombstone, locks, locals, promised>>

\* Variant: the journal is removed although bytes are left.
KeepJournalNot(d) ==
  /\ pc[d] = "pending"
  /\ journals' = journals \ {d}
  /\ Go(d, "clear")
  /\ UNCHANGED <<row, home, staged, intent, tombstone, locks, locals, bounds, promised>>

KeepJournal(d) ==
  /\ pc[d] = "pending"
  /\ \/ journals' = journals \cup {d} /\ UNCHANGED bounds
     \/ Raise /\ UNCHANGED journals
  /\ Go(d, "clear")
  /\ UNCHANGED <<row, home, staged, intent, tombstone, locks, locals, promised>>

Unlink(d) ==
  /\ pc[d] \in {"unlink", "undo_unlink"}
  /\ journals' = journals \ {d}
  /\ Go(d, "clear")
  /\ UNCHANGED <<row, home, staged, intent, tombstone, locks, locals, bounds, promised>>

\* The intent is cleared and the guard released: after success, and after an undo.
ClearIntent(d) ==
  /\ pc[d] = "clear"
  /\ intent' = Nobody
  /\ guard' = Nobody
  /\ Go(d, "done")
  /\ UNCHANGED <<row, home, staged, journals, tombstone, repoLock, opLock, locals, bounds, promised>>

\* Any step up to the commit raises: the transaction is rolled back, the
\* registry's locks are released, and the except clause undoes the rest.
TwoFails(d) ==
  /\ \/ pc[d] = "two" /\ opLock = Nobody /\ row # "home" /\ UNCHANGED bounds
     \/ pc[d] \in {"two", "move", "journal", "tombstone", "commit"} /\ Raise
  /\ opLock' = IF opLock = d THEN Nobody ELSE opLock
  /\ Go(d, "undo_tombstone")
  /\ UNCHANGED <<row, files, guard, repoLock, locals, promised>>

UndoTombstone(d) ==
  /\ pc[d] = "undo_tombstone"
  /\ tombstone' = FALSE
  /\ Go(d, "undo_move")
  /\ UNCHANGED <<row, home, staged, journals, intent, locks, locals, bounds, promised>>

MoveBack(d) ==
  IF staged[d] # "absent" /\ home = "absent"
    THEN home' = staged[d] /\ staged' = [staged EXCEPT ![d] = "absent"]
    ELSE UNCHANGED <<home, staged>>

UndoMove(d) ==
  /\ pc[d] = "undo_move"
  /\ IF moved[d] THEN MoveBack(d) ELSE UNCHANGED <<home, staged>>
  /\ Go(d, "undo_unlink")
  /\ UNCHANGED <<row, journals, intent, tombstone, locks, locals, bounds, promised>>

\* A step after the decision raises: what is left of journal, bytes and intent
\* is kept for the next start, and the request reports it.
EndFails(d) ==
  /\ pc[d] \in {"undo_tombstone", "undo_move", "undo_unlink", "unlink", "clear"} /\ Raise
  /\ guard' = Nobody
  /\ Go(d, "retained")
  /\ UNCHANGED <<row, files, repoLock, opLock, locals, promised>>

-----------------------------------------------------------------------------
(* A mutation: repository_service, then mutation and save_state *)

OpenCheck(w) ==
  /\ pc[w] = "idle" /\ Serving
  /\ opLock = Nobody /\ row = "home" /\ intent = Nobody /\ home # "absent"
  /\ Go(w, "construct")
  /\ UNCHANGED <<row, files, locks, locals, bounds, promised>>

\* The constructor makes the directory again if it is gone by now.
OpenConstruct(w) ==
  /\ pc[w] = "construct"
  /\ MakeHome
  /\ Go(w, IF home \in Stated THEN "enter" ELSE "idle")
  /\ UNCHANGED <<row, staged, journals, intent, tombstone, locks, locals, bounds, promised>>

\* The mode is checked inside the lock; the metadata is loaded.
EnterMutation(w) ==
  /\ pc[w] = "enter" /\ repoLock = Nobody
  /\ intent = Nobody => opLock = Nobody
  /\ MakeHome
  /\ IF Writable THEN repoLock' = w /\ Go(w, "mutating")
                 ELSE Go(w, "idle") /\ UNCHANGED repoLock
  /\ UNCHANGED <<row, staged, journals, intent, tombstone, guard, opLock, locals, bounds, promised>>

\* save_state checks the mode again.
CheckSave(w) ==
  /\ pc[w] = "mutating"
  /\ intent = Nobody => opLock = Nobody
  /\ IF intent = Nobody /\ row = "home"
       THEN Go(w, "saving") /\ UNCHANGED repoLock
       ELSE Go(w, "idle") /\ repoLock' = Nobody
  /\ UNCHANGED <<row, files, guard, opLock, locals, bounds, promised>>

\* save_state makes the directories it writes into.
SaveMutation(w) ==
  /\ pc[w] = "saving"
  /\ home' = IF home = "whole" THEN "whole" ELSE "broken"
  /\ repoLock' = Nobody
  /\ Go(w, "idle")
  /\ UNCHANGED <<row, staged, journals, intent, tombstone, guard, opLock, locals, bounds, promised>>

-----------------------------------------------------------------------------
(* The owner removes the row and leaves the files, or registers a preserved  *)
(* copy of what was deleted: the tombstone goes after the commit             *)

Unregister ==
  /\ pc[Owner] = "serving" /\ opLock = Nobody /\ row = "home"
  /\ copies < MaxCopies
  /\ journals # {} => "unregister" \in Gaps
  /\ copies' = copies + 1 /\ UNCHANGED <<faults, crashes>>
  /\ row' = "none"
  /\ UNCHANGED <<files, locks, pc, locals, promised>>

RegisterCopy ==
  /\ pc[Owner] = "serving" /\ opLock = Nobody /\ row = "none" /\ promised
  /\ copies < MaxCopies
  /\ journals # {} => "copy" \in Gaps
  /\ copies' = copies + 1 /\ UNCHANGED <<faults, crashes>>
  /\ row' = "copy" /\ promised' = FALSE
  /\ Go(Owner, "copied")
  /\ UNCHANGED <<files, locks, locals>>

ClearTombstone ==
  /\ pc[Owner] = "copied"
  /\ tombstone' = FALSE
  /\ Go(Owner, "serving")
  /\ UNCHANGED <<row, home, staged, journals, intent, locks, locals, bounds, promised>>

-----------------------------------------------------------------------------
(* The start of a process: recover_managed_repository_deletions, then        *)
(* recover_startup_repositories                                              *)

ListJournals(s) ==
  /\ pc[s] = IF s = Owner THEN "down" ELSE "idle"
  /\ listed' = [listed EXCEPT ![s] = journals]
  /\ todo' = [todo EXCEPT ![s] = journals]
  /\ retained' = [retained EXCEPT ![s] = {}]
  /\ Go(s, "next")
  /\ UNCHANGED <<row, files, locks, existed, moved, current, bounds, promised>>

\* Variant: the staged bytes decide, not the row.
DecideByBytes(s) ==
  /\ pc[s] = "next" /\ opLock = Nobody
  /\ \E d \in todo[s] :
       /\ todo' = [todo EXCEPT ![s] = @ \ {d}]
       /\ current' = [current EXCEPT ![s] = d]
       /\ Go(s, IF staged[d] # "absent" THEN "back" ELSE "bury")
  /\ UNCHANGED <<row, files, locks, existed, moved, listed, retained, bounds, promised>>

\* The next journal is judged by the registry's row; one that is gone by now
\* is reported as invalid.
Decide(s) ==
  /\ pc[s] = "next" /\ opLock = Nobody
  /\ \E d \in todo[s] :
       /\ todo' = [todo EXCEPT ![s] = @ \ {d}]
       /\ current' = [current EXCEPT ![s] = d]
       /\ retained' = [retained EXCEPT ![s] = IF d \in journals THEN @ ELSE @ \cup {d}]
       /\ Go(s, IF d \notin journals THEN "next" ELSE IF row # "none" THEN "back" ELSE "bury")
  /\ UNCHANGED <<row, files, locks, existed, moved, listed, bounds, promised>>

\* Rolled back: the bytes, the tombstone, the intent, the journal.
RecoverMoveBack(s) ==
  /\ pc[s] = "back"
  /\ MoveBack(current[s])
  /\ Go(s, "back_tombstone")
  /\ UNCHANGED <<row, journals, intent, tombstone, locks, locals, bounds, promised>>

RecoverClearTombstone(s) ==
  /\ pc[s] = "back_tombstone"
  /\ tombstone' = FALSE
  /\ Go(s, "recover_intent")
  /\ UNCHANGED <<row, home, staged, journals, intent, locks, locals, bounds, promised>>

\* Finalized: the tombstone, the bytes, the intent, the journal.
RecoverTombstone(s) ==
  /\ pc[s] = "bury"
  /\ tombstone' = TRUE
  /\ Go(s, "recover_erase")
  /\ UNCHANGED <<row, home, staged, journals, intent, locks, locals, bounds, promised>>

RecoverErase(s) ==
  /\ pc[s] = "recover_erase"
  /\ staged' = [staged EXCEPT ![current[s]] = "absent"]
  /\ Go(s, "recover_intent")
  /\ UNCHANGED <<row, home, journals, intent, tombstone, locks, locals, bounds, promised>>

RecoverIntent(s) ==
  /\ pc[s] = "recover_intent"
  /\ intent' = Nobody
  /\ Go(s, "recover_unlink")
  /\ UNCHANGED <<row, home, staged, journals, tombstone, locks, locals, bounds, promised>>

RecoverUnlink(s) ==
  /\ pc[s] = "recover_unlink"
  /\ journals' = journals \ {current[s]}
  /\ Go(s, "next")
  /\ UNCHANGED <<row, home, staged, intent, tombstone, locks, locals, bounds, promised>>

\* An OSError retains the journal; a tree may be left half erased.
RecoverFails(s) ==
  /\ pc[s] \in {"back", "back_tombstone", "bury", "recover_erase", "recover_intent",
                "recover_unlink"}
  /\ Raise
  /\ \/ UNCHANGED staged
     \/ /\ pc[s] = "recover_erase" /\ staged[current[s]] # "absent"
        /\ \E left \in {"broken", "hollow"} : staged' = [staged EXCEPT ![current[s]] = left]
  /\ retained' = [retained EXCEPT ![s] = @ \cup {current[s]}]
  /\ Go(s, "next")
  /\ UNCHANGED <<row, home, journals, intent, tombstone, locks, existed, moved, listed, todo,
                 current, promised>>

\* Variant: nobody looks for orphans.
LeaveOrphanIntent(s) ==
  /\ pc[s] = "next" /\ todo[s] = {}
  /\ Go(s, "scan")
  /\ UNCHANGED <<row, files, locks, locals, bounds, promised>>

\* An intent whose deletion had no journal when they were listed is an orphan.
ClearOrphanIntent(s) ==
  /\ pc[s] = "next" /\ todo[s] = {}
  /\ intent' = IF intent \in listed[s] THEN intent ELSE Nobody
  /\ Go(s, "scan")
  /\ UNCHANGED <<row, home, staged, journals, tombstone, locks, locals, bounds, promised>>

Done(s) == Go(s, IF s = Owner THEN "serving" ELSE "idle")

\* A tree among the managed repositories that no tombstone keeps away is found.
Scan(s) ==
  /\ pc[s] = "scan"
  /\ IF home \in Stated /\ ~tombstone THEN Go(s, "register") ELSE Done(s)
  /\ UNCHANGED <<row, files, locks, locals, bounds, promised>>

\* It is registered unless its identity is; the tombstone goes after the commit.
Register(s) ==
  /\ pc[s] = "register" /\ opLock = Nobody
  /\ IF row = "none" /\ home \in Stated
       THEN row' = "home" /\ Go(s, "registered")
       ELSE Done(s) /\ UNCHANGED row
  /\ UNCHANGED <<files, locks, locals, bounds, promised>>

Registered(s) ==
  /\ pc[s] = "registered"
  /\ tombstone' = FALSE
  /\ Done(s)
  /\ UNCHANGED <<row, home, staged, journals, intent, locks, locals, bounds, promised>>

-----------------------------------------------------------------------------
\* The owner's process dies, at any step; its locks are freed.
Crash ==
  /\ crashes < MaxCrashes /\ pc[Owner] # "down"
  /\ crashes' = crashes + 1 /\ UNCHANGED <<faults, copies>>
  /\ guard' = Nobody /\ repoLock' = Nobody /\ opLock' = Nobody
  /\ pc' = [a \in Actors |->
              IF a \in Commands \/ (a \in Deletions /\ pc[a] = "idle") THEN pc[a]
              ELSE IF a = Owner THEN "down"
              ELSE IF a \in Deletions THEN "done" ELSE "idle"]
  /\ UNCHANGED <<row, files, locals, promised>>

Delete(d) ==
  \/ DeleteRecord(d) \/ DeleteConstruct(d) \/ TakeGuard(d) \/ Validate(d) \/ Prepare(d)
  \/ PublishIntent(d) \/ PrepareFails(d) \/ EnterTwo(d) \/ MoveOut(d) \/ JournalStaged(d)
  \/ WriteTombstone(d) \/ CommitRemoval(d) \/ JournalRemoved(d) \/ Erase(d) \/ EraseFails(d)
  \/ KeepJournal(d) \/ Unlink(d) \/ ClearIntent(d)
  \/ TwoFails(d) \/ UndoTombstone(d) \/ UndoMove(d) \/ EndFails(d)

Write(w) ==
  \/ OpenCheck(w) \/ OpenConstruct(w) \/ EnterMutation(w) \/ CheckSave(w) \/ SaveMutation(w)

Recover(s) ==
  \/ ListJournals(s) \/ Decide(s) \/ RecoverMoveBack(s) \/ RecoverClearTombstone(s)
  \/ RecoverTombstone(s) \/ RecoverErase(s) \/ RecoverIntent(s) \/ RecoverUnlink(s)
  \/ RecoverFails(s) \/ ClearOrphanIntent(s) \/ Scan(s) \/ Register(s) \/ Registered(s)

Next ==
  \/ \E d \in Deletions : Delete(d)
  \/ \E w \in Writers : Write(w)
  \/ \E s \in Starters : Recover(s)
  \/ Unregister \/ RegisterCopy \/ ClearTombstone \/ Crash

Spec == Init /\ [][Next]_vars

\* Threads run, and an owner whose process died starts it again.
FairSpec ==
  /\ Spec
  /\ \A d \in Deletions : WF_vars(Delete(d))
  /\ \A w \in Writers : WF_vars(Write(w))
  /\ WF_vars(Recover(Owner))

-----------------------------------------------------------------------------
(* Properties *)

\* A lock is held exactly inside the "with" blocks it is taken for.
LocksAgree ==
  /\ \A d \in Deletions :
       /\ opLock = d <=> pc[d] \in {"intent", "move", "journal", "tombstone", "commit"}
       /\ guard = d <=> pc[d] \notin {"idle", "construct", "guard", "done", "retained"}
       /\ repoLock = d <=> existed[d] /\ pc[d] \in {"one", "intent"}
  /\ \A w \in Writers : repoLock = w <=> pc[w] \in {"mutating", "saving"}

\* Every variable holds a value of its kind, and the locks know their holders.
TypeOK ==
  /\ row \in {"home", "copy", "none"} /\ home \in Trees \cup {"absent"}
  /\ staged \in [Deletions -> Trees \cup {"absent"}]
  /\ journals \in SUBSET Deletions /\ intent \in Deletions \cup {Nobody}
  /\ tombstone \in BOOLEAN /\ promised \in BOOLEAN
  /\ guard \in Deletions \cup {Nobody} /\ opLock \in Deletions \cup {Nobody}
  /\ repoLock \in Deletions \cup Writers \cup {Nobody}
  /\ existed \in [Deletions -> BOOLEAN] /\ moved \in [Deletions -> BOOLEAN]
  /\ listed \in [Starters -> SUBSET Deletions] /\ todo \in [Starters -> SUBSET Deletions]
  /\ current \in [Starters -> Deletions \cup {Nobody}]
  /\ retained \in [Starters -> SUBSET Deletions]
  /\ faults \in 0..MaxFaults /\ crashes \in 0..MaxCrashes /\ copies \in 0..MaxCopies
  /\ LocksAgree

\* The owner's process serves and no deletion runs.
Settled == Serving /\ \A d \in Deletions : pc[d] \in {"idle", "done", "retained"}

\* "If the registry row still exists, staged bytes are restored", and removing
\* the row never deletes files: whatever failed or died, the tree of a repository
\* that no committed deletion names is at its path, or its journal is there to
\* bring it back.
UndeletedBytesAreKept ==
  Settled /\ (row = "home" \/ (row = "none" /\ ~promised)) =>
    \/ home = "whole"
    \/ home = "absent" /\ \E d \in journals : staged[d] = "whole"

\* Once the registry has dropped the repository, no recovery and no discovery
\* brings it back; only an owner's registration does.
DeletedStaysDeleted == promised => row = "none" /\ home \notin Stated

\* Bytes come back to the managed path only for a repository registered there.
BytesReturnToTheirRow ==
  [][home = "absent" /\ home' \in Stated => row = "home"]_vars

\* Staged bytes are never forgotten: a journal or a running deletion knows them.
NoOrphanStaging ==
  \A d \in Deletions : staged[d] # "absent" => d \in journals \/ pc[d] = "journal"

\* A mutation that has been let in has its tree under it until it is over.
MutationExcludesMove ==
  \A w \in Writers : pc[w] \in {"mutating", "saving"} => home = "whole"

\* The intent, which makes the repository read-only, goes away, unless a request
\* or the start of the process reports that it could not undo or finish.
IntentsEnd ==
  intent # Nobody ~>
    intent = Nobody \/ intent \in retained[Owner] \/ \E d \in Deletions : pc[d] = "retained"
=============================================================================
