------------------------ MODULE ManagedDeletion_proofs ------------------------
(***************************************************************************)
(* What a permanent deletion never does to the bytes of the repository,    *)
(* for any deletions, writers, failures and deaths, when the owner's       *)
(* process is the only one and none of AllGaps is open.  TLC finds a       *)
(* counterexample for each gap, and with a command beside the owner.       *)
(***************************************************************************)
EXTENDS ManagedDeletion, TLAPS

Sheltered == Gaps = {} /\ Commands = {}

---------------------------------------------------------------------------
(* The inductive invariant.                                                *)

\* Where a deletion is that has checked the tree and not yet let go of it.
Holding == {"one", "intent", "two", "move", "journal", "tombstone", "commit", "removed",
            "erase", "pending", "unlink", "clear", "undo_tombstone", "undo_move", "undo_unlink"}
Undecided == {"intent", "two", "move", "journal", "tombstone", "commit", "undo_tombstone",
              "undo_move", "undo_unlink"}
Decided == {"removed", "erase", "pending"}

Typed ==
  /\ row \in {"home", "copy", "none"} /\ home \in {"whole", "absent"}
  /\ staged \in [Deletions -> Trees \cup {"absent"}]
  /\ journals \in SUBSET Deletions /\ intent \in Deletions \cup {Nobody}
  /\ tombstone \in BOOLEAN /\ promised \in BOOLEAN
  /\ guard \in Deletions \cup {Nobody} /\ opLock \in Deletions \cup {Nobody}
  /\ repoLock \in Deletions \cup Writers \cup {Nobody}
  /\ existed \in [Deletions -> BOOLEAN] /\ moved \in [Deletions -> BOOLEAN]
  /\ listed \in [Starters -> SUBSET Deletions] /\ todo \in [Starters -> SUBSET Deletions]
  /\ current \in [Starters -> Deletions \cup {Nobody}]
  /\ retained \in [Starters -> SUBSET Deletions]
  /\ faults \in 0..MaxFaults /\ crashes \in 0..MaxCrashes /\ copies \in 0..MaxCopies

Starting == {"down", "next", "back", "back_tombstone", "bury", "recover_erase",
             "recover_intent", "recover_unlink", "scan", "register", "registered"}

Positions ==
  /\ pc \in [Actors -> Holding \cup Starting \cup
       {"idle", "construct", "guard", "validate", "done", "retained", "enter", "mutating",
        "saving", "serving", "copied"}]
  /\ pc[Owner] \in Starting \cup {"serving", "copied"}
  /\ \A w \in Writers : pc[w] \in {"idle", "construct", "enter", "mutating", "saving"}
  /\ \A d \in Deletions :
       pc[d] \in Holding \cup {"idle", "construct", "guard", "validate", "done", "retained"}

\* While the process starts, no request runs.
StartsAlone ==
  pc[Owner] \in Starting =>
    /\ \A d \in Deletions : pc[d] \in {"idle", "done", "retained"}
    /\ \A w \in Writers : pc[w] = "idle"

\* The registry has the repository at its path, or dropped it for good, or the
\* owner did with it as he liked, with no deletion under way.
RowTells ==
  /\ row = "copy" => journals = {} /\ ~promised
  /\ row = "none" /\ ~promised => journals = {}
  /\ row = "home" => ~promised

\* The bytes are in one place, which somebody knows.
BytesAreSomewhere ==
  /\ \A d \in Deletions : staged[d] # "absent" =>
       /\ home = "absent" /\ moved[d]
       /\ d \in journals \/ pc[d] = "journal"
       /\ \A e \in Deletions : staged[e] # "absent" => e = d
       /\ ~promised => staged[d] = "whole"
  /\ promised => home = "absent"
  /\ row # "copy" /\ ~promised => home = "whole" \/ \E d \in Deletions : staged[d] = "whole"

\* What a deletion knows at each of its steps.
DeletionKnows ==
  \A d \in Deletions :
    /\ pc[d] \in Holding \cup {"construct", "guard", "validate"} => existed[d]
    /\ pc[d] \in {"one", "intent"} => intent = Nobody
    /\ pc[d] \in Holding \ {"one", "intent"} => intent = d
    /\ pc[d] \in Holding => \A w \in Writers : pc[w] \notin {"mutating", "saving"}
    /\ pc[d] = "one" => home = "whole"
    /\ pc[d] \in Undecided \cup Decided \cup {"unlink"} => d \in journals
    /\ pc[d] \in Undecided => row = "home"
    /\ pc[d] \in {"intent", "two", "move"} => home = "whole"
    /\ pc[d] \in {"journal", "tombstone", "commit"} => home = "absent"
    /\ pc[d] \in {"journal", "tombstone", "commit", "removed", "erase"} => moved[d]
    /\ pc[d] \in Decided \cup {"unlink"} => row = "none" /\ promised
    /\ pc[d] = "erase" => staged[d] # "absent"
    /\ pc[d] \in {"unlink", "undo_unlink"} => staged[d] = "absent"

RecoveryKnows ==
  /\ pc[Owner] \in {"back", "back_tombstone", "bury", "recover_erase", "recover_intent",
                    "recover_unlink"} => current[Owner] \in journals
  /\ pc[Owner] \in {"back", "back_tombstone"} => row = "home"
  /\ pc[Owner] \in {"bury", "recover_erase"} => row = "none"
  /\ pc[Owner] \in {"back_tombstone", "recover_intent", "recover_unlink"} =>
       staged[current[Owner]] = "absent"

\* A writer that has the lock has its tree.
WritersHaveTheirTree ==
  \A w \in Writers : pc[w] \in {"mutating", "saving"} => home = "whole"

IInv ==
  /\ Typed /\ Positions /\ LocksAgree /\ StartsAlone /\ RowTells /\ BytesAreSomewhere
  /\ DeletionKnows /\ RecoveryKnows /\ WritersHaveTheirTree

---------------------------------------------------------------------------
(* What the steps have in common.                                          *)

Labels == Holding \cup Starting \cup
  {"idle", "construct", "guard", "validate", "done", "retained", "enter", "mutating",
   "saving", "serving", "copied"}

\* One actor goes on, the others stay where they are.
Moves(a, to) ==
  /\ pc' \in [Actors -> Labels] /\ pc'[a] = to
  /\ \A b \in Actors : b # a => pc'[b] = pc[b]

LEMMA GoMoves ==
  ASSUME Positions, NEW a \in Actors, NEW to \in Labels, Go(a, to)
  PROVE  Moves(a, to)
BY DEF Positions, Go, Moves, Labels

\* A deletion that has the guard is the only one, and the process is not starting.
LEMMA GuardIsExclusive ==
  ASSUME IInv, NEW d \in Deletions, pc[d] \in Holding \cup {"validate"}
  PROVE  /\ guard = d /\ pc[Owner] \in {"serving", "copied"}
         /\ \A e \in Deletions : e # d => pc[e] \notin Holding \cup {"validate"}
BY DEF IInv, LocksAgree, StartsAlone, Positions, Holding

---------------------------------------------------------------------------
(* The types, with whatever gap is open and whatever command runs.         *)

PositionsTyped == pc \in [Actors -> Labels]

\* A starting process that works on a journal has taken one.
RecoversOne ==
  \A s \in Starters :
    pc[s] \in {"back", "back_tombstone", "bury", "recover_erase", "recover_intent",
              "recover_unlink"} => current[s] \in Deletions

\* Only the lock of a repository whose directory was there is taken.
ValidatesExisting == \A d \in Deletions : pc[d] = "validate" => existed[d]

TInv == TypeOK /\ PositionsTyped /\ RecoversOne /\ ValidatesExisting

\* A step of a deletion leaves every lock with who is inside its block.
LEMMA DeleteTypes ==
  ASSUME TInv, NEW d \in Deletions, Delete(d)
  PROVE  TInv'
<1> USE Distinct DEF TInv, TypeOK, PositionsTyped, LocksAgree, RecoversOne, ValidatesExisting,
  files, locks, locals, bounds, Go, Actors, Starters, Labels, Holding, Starting, Trees
<1>1. CASE DeleteRecord(d)
  BY <1>1 DEF DeleteRecord
<1>2. CASE DeleteConstruct(d)
  BY <1>2 DEF DeleteConstruct, MakeHome
<1>3. CASE TakeGuard(d)
  BY <1>3 DEF TakeGuard
<1>4. CASE Validate(d)
  <2> USE <1>4 DEF Validate
  <2>1. home' \in Trees \cup {"absent"}
    BY DEF MakeHome
  <2>2. CASE Refused(d)
    BY <2>1, <2>2 DEF Refused, ReleaseRepo
  <2>3. CASE repoLock' = d /\ Go(d, "one") /\ UNCHANGED guard
    <3>1. existed[d]
      OBVIOUS
    <3> QED BY <2>1, <2>3, <3>1
  <2> QED BY <2>2, <2>3
<1>5. CASE Prepare(d)
  BY <1>5 DEF Prepare
<1>6. CASE PublishIntent(d)
  BY <1>6 DEF PublishIntent, ReleaseRepo
<1>7. CASE PrepareFails(d)
  BY <1>7 DEF PrepareFails, Raise, ReleaseRepo
<1>8. CASE EnterTwo(d)
  BY <1>8 DEF EnterTwo
<1>9. CASE MoveOut(d)
  BY <1>9 DEF MoveOut
<1>10. CASE JournalStaged(d)
  BY <1>10 DEF JournalStaged
<1>11. CASE WriteTombstone(d)
  BY <1>11 DEF WriteTombstone
<1>12. CASE CommitRemoval(d)
  BY <1>12 DEF CommitRemoval
<1>13. CASE JournalRemoved(d)
  BY <1>13 DEF JournalRemoved, Raise
<1>14. CASE Erase(d)
  BY <1>14 DEF Erase
<1>15. CASE EraseFails(d)
  BY <1>15 DEF EraseFails, Raise
<1>16. CASE KeepJournal(d)
  BY <1>16 DEF KeepJournal, Raise
<1>17. CASE Unlink(d)
  BY <1>17 DEF Unlink
<1>18. CASE ClearIntent(d)
  BY <1>18 DEF ClearIntent
<1>19. CASE TwoFails(d)
  BY <1>19 DEF TwoFails, Raise
<1>20. CASE UndoTombstone(d)
  BY <1>20, ZenonT(60) DEF UndoTombstone
<1>21. CASE UndoMove(d)
  BY <1>21 DEF UndoMove, MoveBack
<1>22. CASE EndFails(d)
  BY <1>22 DEF EndFails, Raise
<1> QED BY <1>1, <1>2, <1>3, <1>4, <1>5, <1>6, <1>7, <1>8, <1>9, <1>10, <1>11, <1>12, <1>13,
  <1>14, <1>15, <1>16, <1>17, <1>18, <1>19, <1>20, <1>21, <1>22 DEF Delete

\* So does a step of a mutation.
LEMMA WriteTypes ==
  ASSUME TInv, NEW w \in Writers, Write(w)
  PROVE  TInv'
<1> USE Distinct DEF TInv, TypeOK, PositionsTyped, LocksAgree, RecoversOne, ValidatesExisting,
  files, locks, locals, bounds, Go, Actors, Starters, Labels, Holding, Starting, Trees
<1>1. CASE OpenCheck(w)
  BY <1>1 DEF OpenCheck
<1>2. CASE OpenConstruct(w)
  BY <1>2 DEF OpenConstruct, MakeHome
<1>3. CASE EnterMutation(w)
  BY <1>3 DEF EnterMutation, MakeHome
<1>4. CASE CheckSave(w)
  BY <1>4 DEF CheckSave
<1>5. CASE SaveMutation(w)
  BY <1>5 DEF SaveMutation
<1> QED BY <1>1, <1>2, <1>3, <1>4, <1>5 DEF Write

\* A starting process takes no lock over several steps.
LEMMA RecoverTypes ==
  ASSUME TInv, NEW s \in Starters, Recover(s)
  PROVE  TInv'
<1> USE Distinct DEF TInv, TypeOK, PositionsTyped, LocksAgree, RecoversOne, ValidatesExisting,
  files, locks, locals, bounds, Go, Actors, Starters, Labels, Holding, Starting, Trees
<1>1. CASE ListJournals(s)
  BY <1>1 DEF ListJournals
<1>2. CASE Decide(s)
  BY <1>2 DEF Decide
<1>3. CASE RecoverMoveBack(s)
  BY <1>3 DEF RecoverMoveBack, MoveBack
<1>4. CASE RecoverClearTombstone(s)
  BY <1>4, ZenonT(60) DEF RecoverClearTombstone
<1>5. CASE RecoverTombstone(s)
  BY <1>5 DEF RecoverTombstone
<1>6. CASE RecoverErase(s)
  BY <1>6 DEF RecoverErase
<1>7. CASE RecoverIntent(s)
  BY <1>7 DEF RecoverIntent
<1>8. CASE RecoverUnlink(s)
  BY <1>8 DEF RecoverUnlink
<1>9. CASE RecoverFails(s)
  BY <1>9 DEF RecoverFails, Raise
<1>10. CASE ClearOrphanIntent(s)
  BY <1>10 DEF ClearOrphanIntent
<1>11. CASE Scan(s)
  BY <1>11 DEF Scan, Done
<1>12. CASE Register(s)
  BY <1>12 DEF Register, Done
<1>13. CASE Registered(s)
  <2>1. PICK to \in {"serving", "idle"} : Go(s, to)
    BY <1>13 DEF Registered, Done
  <2>2. /\ pc[s] = "registered" /\ tombstone' = FALSE
        /\ UNCHANGED <<row, home, staged, journals, intent, locks, locals, bounds, promised>>
    BY <1>13 DEF Registered
  <2>3. /\ pc' \in [Actors -> Labels] /\ pc'[s] \in {"serving", "idle"}
        /\ \A b \in Actors : b # s => pc'[b] = pc[b]
    BY <2>1
  <2> HIDE DEF Go
  <2>4. LocksAgree' /\ ValidatesExisting' /\ RecoversOne'
    BY <2>2, <2>3
  <2>5. TypeOK'
    BY <2>2, <2>4
  <2> QED BY <2>3, <2>4, <2>5
<1> QED BY <1>1, <1>2, <1>3, <1>4, <1>5, <1>6, <1>7, <1>8, <1>9, <1>10, <1>11, <1>12, <1>13
  DEF Recover

\* Nor do the steps of the owner, and a death frees every lock.
LEMMA OwnerTypes ==
  ASSUME TInv, Unregister \/ RegisterCopy \/ ClearTombstone \/ Crash
  PROVE  TInv'
<1> USE Distinct DEF TInv, TypeOK, PositionsTyped, LocksAgree, RecoversOne, ValidatesExisting,
  files, locks, locals, bounds, Go, Actors, Starters, Labels, Holding, Starting, Trees
<1>1. CASE Unregister
  BY <1>1 DEF Unregister
<1>2. CASE RegisterCopy
  <2>1. /\ row' = "copy" /\ promised' = FALSE /\ copies' \in 0..MaxCopies
        /\ Go(Owner, "copied")
        /\ UNCHANGED <<files, locks, locals, faults, crashes>>
    BY <1>2 DEF RegisterCopy
  <2> QED BY <2>1
<1>3. CASE ClearTombstone
  BY <1>3, ZenonT(60) DEF ClearTombstone
<1>4. CASE Crash
  BY <1>4 DEF Crash
<1> QED BY <1>1, <1>2, <1>3, <1>4

LEMMA InitTypes ==
  ASSUME Init
  PROVE  TInv
<1> USE Distinct DEF Init
<1>1. faults \in 0..MaxFaults /\ crashes \in 0..MaxCrashes /\ copies \in 0..MaxCopies
  OBVIOUS
<1>2. /\ staged \in [Deletions -> Trees \cup {"absent"}]
      /\ existed \in [Deletions -> BOOLEAN] /\ moved \in [Deletions -> BOOLEAN]
  BY DEF Trees
<1>3. /\ listed \in [Starters -> SUBSET Deletions] /\ todo \in [Starters -> SUBSET Deletions]
      /\ retained \in [Starters -> SUBSET Deletions]
      /\ current \in [Starters -> Deletions \cup {Nobody}]
  OBVIOUS
<1>4. LocksAgree /\ PositionsTyped /\ RecoversOne /\ ValidatesExisting
  BY DEF LocksAgree, PositionsTyped, RecoversOne, ValidatesExisting, Actors, Starters,
    Labels
<1> QED BY <1>1, <1>2, <1>3, <1>4 DEF TInv, TypeOK, Trees

\* Every variable holds a value of its kind, and a lock is held exactly inside
\* the "with" blocks of delete_managed_repository and of the mutation, also with
\* every gap open and with commands of the CLI that recover beside the owner.
THEOREM TypeCorrect == Spec => []TypeOK
<1>1. Init => TInv
  BY InitTypes
<1>2. TInv /\ [Next]_vars => TInv'
  <2> SUFFICES ASSUME TInv, [Next]_vars
               PROVE  TInv'
    OBVIOUS
  <2>1. CASE Next
    BY <2>1, DeleteTypes, WriteTypes, RecoverTypes, OwnerTypes DEF Next
  <2>2. CASE UNCHANGED vars
    BY <2>2 DEF vars, files, locks, locals, bounds, TInv, TypeOK, LocksAgree,
      PositionsTyped, RecoversOne, ValidatesExisting
  <2> QED BY <2>1, <2>2
<1>3. TInv => TypeOK
  BY DEF TInv
<1> QED BY <1>1, <1>2, <1>3, PTL DEF Spec

---------------------------------------------------------------------------
(* Each step keeps the invariant.                                          *)

\* The record is read: the directory is there, unless the gap is open.
LEMMA DeleteRecordKeeps ==
  ASSUME Sheltered, IInv, NEW d \in Deletions, DeleteRecord(d)
  PROVE  IInv'
<1> USE Distinct DEF Sheltered, DeleteRecord, files, locks, locals, bounds
<1>1. Moves(d, "construct")
  BY GoMoves DEF IInv, Actors, Starters, Labels, Holding, Starting
<1> HIDE DEF Go
<1>2. existed'[d] /\ \A e \in Deletions : e # d => existed'[e] = existed[e]
  BY DEF IInv, Typed
<1>3. Typed'
  BY <1>1 DEF IInv, Typed, Moves
<1>4. Positions' /\ StartsAlone'
  BY <1>1 DEF IInv, Moves, Positions, StartsAlone, Actors, Starters, Holding, Starting,
    Labels, Serving
<1>5. LocksAgree'
  BY <1>1 DEF IInv, Moves, LocksAgree, Actors
<1>6. RowTells' /\ BytesAreSomewhere'
  BY <1>1 DEF IInv, Moves, RowTells, BytesAreSomewhere
<1>7. DeletionKnows'
  BY <1>2, <1>1 DEF IInv, Moves, DeletionKnows, Actors, Undecided, Decided, Holding
<1>8. RecoveryKnows' /\ WritersHaveTheirTree'
  BY <1>1 DEF IInv, Moves, WritersHaveTheirTree, RecoveryKnows, Actors, Starters
<1> QED BY <1>3, <1>4, <1>5, <1>6, <1>7, <1>8 DEF IInv

\* The constructor finds the directory it would make.
LEMMA DeleteConstructKeeps ==
  ASSUME Sheltered, IInv, NEW d \in Deletions, DeleteConstruct(d)
  PROVE  IInv'
<1> USE Distinct DEF Sheltered, DeleteConstruct, files, locks, locals, bounds
<1>1. Moves(d, "guard")
  BY GoMoves DEF IInv, Actors, Labels
<1> HIDE DEF Go
<1>2. Typed'
  BY <1>1 DEF IInv, Typed, Moves, MakeHome
<1>3. Positions' /\ StartsAlone'
  BY <1>1 DEF IInv, Moves, Positions, StartsAlone, Actors, Starters
<1>4. LocksAgree'
  BY <1>1 DEF IInv, Moves, LocksAgree, Actors
<1>5. RowTells' /\ BytesAreSomewhere'
  BY <1>1 DEF IInv, Moves, RowTells, BytesAreSomewhere, MakeHome
<1>6. DeletionKnows'
  BY <1>1 DEF IInv, Moves, DeletionKnows, Actors, MakeHome, Undecided, Decided, Holding
<1>7. RecoveryKnows' /\ WritersHaveTheirTree'
  BY <1>1 DEF IInv, Moves, WritersHaveTheirTree, RecoveryKnows, Actors, Starters, MakeHome
<1> QED BY <1>2, <1>3, <1>4, <1>5, <1>6, <1>7 DEF IInv

\* The guard is free, so no deletion has passed its check.
LEMMA TakeGuardKeeps ==
  ASSUME Sheltered, IInv, NEW d \in Deletions, TakeGuard(d)
  PROVE  IInv'
<1> USE Distinct DEF Sheltered, TakeGuard, files, locks, locals, bounds
<1>1. Moves(d, "validate")
  BY GoMoves DEF IInv, Actors, Labels, DeletionKnows
<1> HIDE DEF Go
<1>2. Typed'
  BY <1>1 DEF IInv, Typed, Moves
<1>3. Positions' /\ StartsAlone'
  BY <1>1 DEF IInv, Moves, Positions, StartsAlone, Actors, Starters
<1>4. LocksAgree'
  BY <1>1 DEF IInv, Moves, LocksAgree, Actors
<1>5. RowTells' /\ BytesAreSomewhere'
  BY <1>1 DEF IInv, Moves, RowTells, BytesAreSomewhere, Actors
<1>6. DeletionKnows'
  BY <1>1 DEF IInv, Moves, DeletionKnows, Actors, Undecided, Decided, Holding
<1>7. RecoveryKnows' /\ WritersHaveTheirTree'
  BY <1>1 DEF IInv, Moves, WritersHaveTheirTree, RecoveryKnows, Actors, Starters
<1> QED BY <1>2, <1>3, <1>4, <1>5, <1>6, <1>7 DEF IInv

\* The check waits for the mutation in progress, whose tree is whole.
LEMMA ValidateKeeps ==
  ASSUME Sheltered, IInv, NEW d \in Deletions, Validate(d)
  PROVE  IInv'
<1> USE Distinct DEF Sheltered, Validate, files, locks, locals, bounds
<1>1. Moves(d, IF home \in Stated /\ ~Writable THEN "done" ELSE "one")
  <2>1. CASE home \in Stated /\ ~Writable
    <3>1. Go(d, "done")
      BY <2>1 DEF Refused
    <3> QED BY <2>1, <3>1, GoMoves DEF IInv, Actors, Labels
  <2>2. CASE ~(home \in Stated /\ ~Writable)
    <3>1. Go(d, "one")
      BY <2>2
    <3> QED BY <2>2, <3>1, GoMoves DEF IInv, Actors, Labels, Holding
  <2> QED BY <2>1, <2>2
<1> HIDE DEF Go
<1>2. /\ guard = d /\ pc[Owner] \in {"serving", "copied"}
      /\ \A e \in Deletions : e # d => pc[e] \notin Holding \cup {"validate"}
  BY GuardIsExclusive
<1>3. Typed'
  BY <1>1, <1>2 DEF IInv, Typed, Moves, MakeHome, ReleaseRepo, Refused
<1>4. Positions' /\ StartsAlone'
  BY <1>1, <1>2 DEF IInv, Moves, Positions, StartsAlone, Actors, Starters, Holding
<1>5. home = "whole" /\ existed[d]
  BY DEF IInv, Typed, MakeHome, DeletionKnows
<1>6. LocksAgree'
  BY <1>1, <1>2, <1>5 DEF IInv, Moves, LocksAgree, Actors, ReleaseRepo, Refused
<1>7. RowTells' /\ BytesAreSomewhere'
  BY <1>1, <1>2 DEF IInv, Moves, RowTells, BytesAreSomewhere, MakeHome
<1>8. DeletionKnows'
  BY <1>1, <1>2 DEF IInv, Typed, Moves, DeletionKnows, LocksAgree, Actors, MakeHome, Stated,
    Undecided, Decided, Holding, Writable
<1>9. RecoveryKnows' /\ WritersHaveTheirTree'
  BY <1>1, <1>2 DEF IInv, Moves, LocksAgree, WritersHaveTheirTree, RecoveryKnows, Actors,
    Starters
<1> QED BY <1>3, <1>4, <1>6, <1>7, <1>8, <1>9 DEF IInv

\* The first transaction reads the row again and journals it.
LEMMA PrepareKeeps ==
  ASSUME Sheltered, IInv, NEW d \in Deletions, Prepare(d)
  PROVE  IInv'
<1> USE Distinct DEF Sheltered, Prepare, files, locks, locals, bounds
<1>1. Moves(d, "intent")
  BY GoMoves DEF IInv, Actors, Labels, Holding
<1> HIDE DEF Go
<1>2. /\ guard = d /\ pc[Owner] \in {"serving", "copied"}
      /\ \A e \in Deletions : e # d => pc[e] \notin Holding \cup {"validate"}
  BY GuardIsExclusive DEF Holding
<1>3. Typed'
  BY <1>1, <1>2 DEF IInv, Typed, Moves
<1>4. Positions' /\ StartsAlone'
  BY <1>1, <1>2 DEF IInv, Moves, Positions, StartsAlone, Actors, Starters, Holding
<1>5. LocksAgree'
  BY <1>1, <1>2 DEF IInv, Moves, LocksAgree, Actors
<1>6. RowTells' /\ BytesAreSomewhere'
  BY <1>1, <1>2 DEF IInv, Moves, RowTells, BytesAreSomewhere, DeletionKnows
<1>7. DeletionKnows'
  BY <1>1, <1>2 DEF IInv, Moves, DeletionKnows, Positions, Actors, Decided
<1>8. RecoveryKnows' /\ WritersHaveTheirTree'
  BY <1>1, <1>2 DEF IInv, Moves, WritersHaveTheirTree, RecoveryKnows, Actors, Starters
<1> QED BY <1>3, <1>4, <1>5, <1>6, <1>7, <1>8 DEF IInv

\* With the intent published no mutation is let in any more.
LEMMA PublishIntentKeeps ==
  ASSUME Sheltered, IInv, NEW d \in Deletions, PublishIntent(d)
  PROVE  IInv'
<1> USE Distinct DEF Sheltered, PublishIntent, files, locks, locals, bounds
<1>1. Moves(d, "two")
  BY GoMoves DEF IInv, Actors, Labels, Holding
<1> HIDE DEF Go
<1>2. /\ guard = d /\ pc[Owner] \in {"serving", "copied"}
      /\ \A e \in Deletions : e # d => pc[e] \notin Holding \cup {"validate"}
  BY GuardIsExclusive DEF Holding
<1>3. Typed'
  BY <1>1, <1>2 DEF IInv, Typed, Moves, ReleaseRepo
<1>4. Positions' /\ StartsAlone'
  BY <1>1, <1>2 DEF IInv, Moves, Positions, StartsAlone, Actors, Starters, Holding
<1>5. LocksAgree'
  BY <1>1, <1>2 DEF IInv, Moves, LocksAgree, Actors, ReleaseRepo
<1>6. RowTells' /\ BytesAreSomewhere'
  BY <1>1, <1>2 DEF IInv, Moves, RowTells, BytesAreSomewhere, DeletionKnows
<1>7. DeletionKnows'
  BY <1>1, <1>2 DEF IInv, Moves, DeletionKnows, Positions, Actors, Undecided, Decided
<1>8. RecoveryKnows' /\ WritersHaveTheirTree'
  BY <1>1, <1>2 DEF IInv, Moves, WritersHaveTheirTree, RecoveryKnows, Actors, Starters
<1> QED BY <1>3, <1>4, <1>5, <1>6, <1>7, <1>8 DEF IInv

\* What was prepared is withdrawn: nothing has been moved.
LEMMA PrepareFailsKeeps ==
  ASSUME Sheltered, IInv, NEW d \in Deletions, PrepareFails(d)
  PROVE  IInv'
<1> USE Distinct DEF Sheltered, PrepareFails, files, locks, locals, bounds
<1>1. Moves(d, "done")
  BY GoMoves DEF IInv, Actors, Labels
<1> HIDE DEF Go
<1>2. /\ guard = d /\ pc[Owner] \in {"serving", "copied"}
      /\ \A e \in Deletions : e # d => pc[e] \notin Holding \cup {"validate"}
  BY GuardIsExclusive DEF Holding
<1>3. Typed'
  BY <1>1, <1>2 DEF IInv, Typed, Raise, Moves, ReleaseRepo
<1>4. Positions' /\ StartsAlone'
  BY <1>1, <1>2 DEF IInv, Moves, Positions, StartsAlone, Actors, Starters
<1>5. LocksAgree'
  BY <1>1, <1>2 DEF IInv, Moves, LocksAgree, Actors, ReleaseRepo
<1>6. RowTells' /\ BytesAreSomewhere'
  BY <1>1, <1>2 DEF IInv, Moves, RowTells, BytesAreSomewhere, DeletionKnows
<1>7. DeletionKnows'
  BY <1>1, <1>2 DEF IInv, Moves, DeletionKnows, Actors, Undecided, Decided, Holding
<1>8. RecoveryKnows' /\ WritersHaveTheirTree'
  BY <1>1, <1>2 DEF IInv, Moves, WritersHaveTheirTree, RecoveryKnows, Actors, Starters
<1> QED BY <1>3, <1>4, <1>5, <1>6, <1>7, <1>8 DEF IInv

\* The second transaction reads the row again; the directory is still there.
LEMMA EnterTwoKeeps ==
  ASSUME Sheltered, IInv, NEW d \in Deletions, EnterTwo(d)
  PROVE  IInv'
<1> USE Distinct DEF Sheltered, EnterTwo, files, locks, locals, bounds
<1>1. Moves(d, "move")
  <2>1. home = "whole"
    BY DEF IInv, DeletionKnows
  <2> QED BY <2>1, GoMoves DEF IInv, Actors, Labels, Holding
<1> HIDE DEF Go
<1>2. /\ guard = d /\ pc[Owner] \in {"serving", "copied"}
      /\ \A e \in Deletions : e # d => pc[e] \notin Holding \cup {"validate"}
  BY GuardIsExclusive DEF Holding
<1>3. Typed'
  BY <1>1, <1>2 DEF IInv, Typed, Moves
<1>4. Positions' /\ StartsAlone'
  BY <1>1, <1>2 DEF IInv, Moves, Positions, StartsAlone, Actors, Starters, Holding
<1>5. LocksAgree'
  BY <1>1, <1>2 DEF IInv, Moves, LocksAgree, Actors
<1>6. RowTells' /\ BytesAreSomewhere'
  BY <1>1, <1>2 DEF IInv, Moves, RowTells, BytesAreSomewhere, DeletionKnows
<1>7. DeletionKnows'
  BY <1>1, <1>2 DEF IInv, Moves, DeletionKnows, Positions, Actors, Undecided, Decided
<1>8. RecoveryKnows' /\ WritersHaveTheirTree'
  BY <1>1, <1>2 DEF IInv, Moves, WritersHaveTheirTree, RecoveryKnows, Actors, Starters
<1> QED BY <1>3, <1>4, <1>5, <1>6, <1>7, <1>8 DEF IInv

\* The bytes go from their path to the staging directory, as they are.
LEMMA MoveOutKeeps ==
  ASSUME Sheltered, IInv, NEW d \in Deletions, MoveOut(d)
  PROVE  IInv'
<1> USE Distinct DEF Sheltered, MoveOut, files, locks, locals, bounds
<1>1. Moves(d, "journal")
  BY GoMoves DEF IInv, Actors, Labels, Holding
<1> HIDE DEF Go
<1>2. /\ guard = d /\ pc[Owner] \in {"serving", "copied"}
      /\ \A e \in Deletions : e # d => pc[e] \notin Holding \cup {"validate"}
  BY GuardIsExclusive DEF Holding
<1>3. Typed'
  BY <1>1, <1>2 DEF IInv, Typed, Moves, Trees
<1>4. Positions' /\ StartsAlone'
  BY <1>1, <1>2 DEF IInv, Moves, Positions, StartsAlone, Actors, Starters, Holding,
    Starting, Labels
<1>5. LocksAgree'
  BY <1>1, <1>2 DEF IInv, Moves, LocksAgree, Actors
<1>6. RowTells' /\ BytesAreSomewhere'
  BY <1>1, <1>2 DEF IInv, Typed, Moves, RowTells, BytesAreSomewhere, DeletionKnows
<1>7. DeletionKnows'
  BY <1>1, <1>2 DEF IInv, Typed, Moves, DeletionKnows, Positions, Actors, Undecided, Decided
<1>8. RecoveryKnows' /\ WritersHaveTheirTree'
  BY <1>1, <1>2 DEF IInv, Moves, DeletionKnows, WritersHaveTheirTree, RecoveryKnows,
    Positions, Actors, Starters
<1> QED BY <1>3, <1>4, <1>5, <1>6, <1>7, <1>8 DEF IInv

\* The journal says so.
LEMMA JournalStagedKeeps ==
  ASSUME Sheltered, IInv, NEW d \in Deletions, JournalStaged(d)
  PROVE  IInv'
<1> USE Distinct DEF Sheltered, JournalStaged, files, locks, locals, bounds
<1>1. Moves(d, "tombstone")
  BY GoMoves DEF IInv, Actors, Labels, Holding
<1> HIDE DEF Go
<1>2. /\ guard = d /\ pc[Owner] \in {"serving", "copied"}
      /\ \A e \in Deletions : e # d => pc[e] \notin Holding \cup {"validate"}
  BY GuardIsExclusive DEF Holding
<1>3. Typed'
  BY <1>1, <1>2 DEF IInv, Typed, Moves
<1>4. Positions' /\ StartsAlone'
  BY <1>1, <1>2 DEF IInv, Moves, Positions, StartsAlone, Actors, Starters, Holding
<1>5. LocksAgree'
  BY <1>1, <1>2 DEF IInv, Moves, LocksAgree, Actors
<1>6. RowTells' /\ BytesAreSomewhere'
  BY <1>1, <1>2 DEF IInv, Moves, RowTells, BytesAreSomewhere, DeletionKnows, Undecided
<1>7. DeletionKnows'
  BY <1>1, <1>2 DEF IInv, Moves, DeletionKnows, Positions, Actors, Undecided, Decided
<1>8. RecoveryKnows' /\ WritersHaveTheirTree'
  BY <1>1, <1>2 DEF IInv, Moves, WritersHaveTheirTree, RecoveryKnows, Actors, Starters
<1> QED BY <1>3, <1>4, <1>5, <1>6, <1>7, <1>8 DEF IInv

\* The tombstone is written before the commit.
LEMMA WriteTombstoneKeeps ==
  ASSUME Sheltered, IInv, NEW d \in Deletions, WriteTombstone(d)
  PROVE  IInv'
<1> USE Distinct DEF Sheltered, WriteTombstone, files, locks, locals, bounds
<1>1. Moves(d, "commit")
  BY GoMoves DEF IInv, Actors, Labels, Holding
<1> HIDE DEF Go
<1>2. /\ guard = d /\ pc[Owner] \in {"serving", "copied"}
      /\ \A e \in Deletions : e # d => pc[e] \notin Holding \cup {"validate"}
  BY GuardIsExclusive DEF Holding
<1>3. Typed'
  BY <1>1, <1>2 DEF IInv, Typed, Moves
<1>4. Positions' /\ StartsAlone'
  BY <1>1, <1>2 DEF IInv, Moves, Positions, StartsAlone, Actors, Starters, Holding
<1>5. LocksAgree'
  BY <1>1, <1>2 DEF IInv, Moves, LocksAgree, Actors
<1>6. RowTells' /\ BytesAreSomewhere'
  BY <1>1, <1>2 DEF IInv, Moves, RowTells, BytesAreSomewhere, Actors
<1>7. DeletionKnows'
  BY <1>1, <1>2 DEF IInv, Moves, DeletionKnows, Positions, Actors, Undecided, Decided
<1>8. RecoveryKnows' /\ WritersHaveTheirTree'
  BY <1>1, <1>2 DEF IInv, Moves, WritersHaveTheirTree, RecoveryKnows, Actors, Starters
<1> QED BY <1>3, <1>4, <1>5, <1>6, <1>7, <1>8 DEF IInv

\* The row goes: from here on the bytes may be broken.
LEMMA CommitRemovalKeeps ==
  ASSUME Sheltered, IInv, NEW d \in Deletions, CommitRemoval(d)
  PROVE  IInv'
<1> USE Distinct DEF Sheltered, CommitRemoval, files, locks, locals, bounds
<1>1. Moves(d, "removed")
  BY GoMoves DEF IInv, Actors, Labels, Holding
<1> HIDE DEF Go
<1>2. /\ guard = d /\ pc[Owner] \in {"serving", "copied"}
      /\ \A e \in Deletions : e # d => pc[e] \notin Holding \cup {"validate"}
  BY GuardIsExclusive DEF Holding
<1>3. Typed'
  BY <1>1, <1>2 DEF IInv, Typed, Moves
<1>4. Positions' /\ StartsAlone'
  BY <1>1, <1>2 DEF IInv, Moves, Positions, StartsAlone, Actors, Starters, Holding
<1>5. LocksAgree'
  BY <1>1, <1>2 DEF IInv, Moves, LocksAgree, Actors
<1>6. RowTells' /\ BytesAreSomewhere'
  BY <1>1, <1>2 DEF IInv, Moves, RowTells, BytesAreSomewhere, DeletionKnows, Actors
<1>7. DeletionKnows'
  BY <1>1, <1>2 DEF IInv, Moves, DeletionKnows, Positions, Actors, Undecided
<1>8. RecoveryKnows' /\ WritersHaveTheirTree'
  BY <1>1, <1>2 DEF IInv, Moves, WritersHaveTheirTree, RecoveryKnows, Actors, Starters
<1> QED BY <1>3, <1>4, <1>5, <1>6, <1>7, <1>8 DEF IInv

\* There are staged bytes to erase.
LEMMA JournalRemovedKeeps ==
  ASSUME Sheltered, IInv, NEW d \in Deletions, JournalRemoved(d)
  PROVE  IInv'
<1> USE Distinct DEF Sheltered, JournalRemoved, files, locks, locals, bounds
<1>1. Moves(d, IF staged[d] = "absent" THEN "unlink" ELSE "erase")
  BY GoMoves DEF IInv, Actors, Labels, Holding
<1> HIDE DEF Go
<1>2. /\ guard = d /\ pc[Owner] \in {"serving", "copied"}
      /\ \A e \in Deletions : e # d => pc[e] \notin Holding \cup {"validate"}
  BY GuardIsExclusive DEF Holding
<1>3. Typed'
  BY <1>1, <1>2 DEF IInv, Typed, Raise, Moves
<1>4. Positions' /\ StartsAlone'
  BY <1>1, <1>2 DEF IInv, Moves, Positions, StartsAlone, Actors, Starters, Holding
<1>5. LocksAgree'
  BY <1>1, <1>2 DEF IInv, Moves, LocksAgree, Actors
<1>6. RowTells' /\ BytesAreSomewhere'
  BY <1>1, <1>2 DEF IInv, Moves, RowTells, BytesAreSomewhere, DeletionKnows, Actors, Decided
<1>7. DeletionKnows'
  BY <1>1, <1>2 DEF IInv, Moves, DeletionKnows, Positions, Actors, Undecided, Decided
<1>8. RecoveryKnows' /\ WritersHaveTheirTree'
  BY <1>1, <1>2 DEF IInv, Moves, WritersHaveTheirTree, RecoveryKnows, Actors, Starters
<1> QED BY <1>3, <1>4, <1>5, <1>6, <1>7, <1>8 DEF IInv

\* The staged bytes go.
LEMMA EraseKeeps ==
  ASSUME Sheltered, IInv, NEW d \in Deletions, Erase(d)
  PROVE  IInv'
<1> USE Distinct DEF Sheltered, Erase, files, locks, locals, bounds
<1>1. Moves(d, "unlink")
  BY GoMoves DEF IInv, Actors, Labels, Holding
<1> HIDE DEF Go
<1>2. /\ guard = d /\ pc[Owner] \in {"serving", "copied"}
      /\ \A e \in Deletions : e # d => pc[e] \notin Holding \cup {"validate"}
  BY GuardIsExclusive DEF Holding
<1>3. Typed'
  BY <1>1, <1>2 DEF IInv, Typed, Moves
<1>4. Positions' /\ StartsAlone'
  BY <1>1, <1>2 DEF IInv, Moves, Positions, StartsAlone, Actors, Starters, Holding,
    Starting, Labels
<1>5. LocksAgree'
  BY <1>1, <1>2 DEF IInv, Moves, LocksAgree, Actors
<1>6. RowTells' /\ BytesAreSomewhere'
  BY <1>1, <1>2 DEF IInv, Moves, RowTells, BytesAreSomewhere, DeletionKnows, Decided
<1>7. DeletionKnows'
  BY <1>1, <1>2 DEF IInv, Typed, Moves, DeletionKnows, Positions, Actors, Undecided, Decided
<1>8. RecoveryKnows' /\ WritersHaveTheirTree'
  BY <1>1, <1>2 DEF IInv, Moves, WritersHaveTheirTree, RecoveryKnows, Actors, Starters
<1> QED BY <1>3, <1>4, <1>5, <1>6, <1>7, <1>8 DEF IInv

\* They go in part: the journal is still there.
LEMMA EraseFailsKeeps ==
  ASSUME Sheltered, IInv, NEW d \in Deletions, EraseFails(d)
  PROVE  IInv'
<1> USE Distinct DEF Sheltered, EraseFails, files, locks, locals, bounds
<1>1. Moves(d, "pending")
  BY GoMoves DEF IInv, Actors, Labels, Holding
<1> HIDE DEF Go
<1>2. /\ guard = d /\ pc[Owner] \in {"serving", "copied"}
      /\ \A e \in Deletions : e # d => pc[e] \notin Holding \cup {"validate"}
  BY GuardIsExclusive DEF Holding
<1>3. Typed'
  BY <1>1, <1>2 DEF IInv, Typed, Raise, Moves, Trees
<1>4. Positions' /\ StartsAlone'
  BY <1>1, <1>2 DEF IInv, Moves, Positions, StartsAlone, Actors, Starters, Holding,
    Starting, Labels
<1>5. LocksAgree'
  BY <1>1, <1>2 DEF IInv, Moves, LocksAgree, Actors
<1>6. RowTells' /\ BytesAreSomewhere'
  BY <1>1, <1>2 DEF IInv, Moves, RowTells, BytesAreSomewhere, DeletionKnows, Decided
<1>7. DeletionKnows'
  BY <1>1, <1>2 DEF IInv, Moves, DeletionKnows, Positions, Actors, Undecided, Decided
<1>8. RecoveryKnows' /\ WritersHaveTheirTree'
  BY <1>1, <1>2 DEF IInv, Moves, WritersHaveTheirTree, RecoveryKnows, Actors, Starters
<1> QED BY <1>3, <1>4, <1>5, <1>6, <1>7, <1>8 DEF IInv

\* The journal of a pending cleanup stays, rewritten or not.
LEMMA KeepJournalKeeps ==
  ASSUME Sheltered, IInv, NEW d \in Deletions, KeepJournal(d)
  PROVE  IInv'
<1> USE Distinct DEF Sheltered, KeepJournal, files, locks, locals, bounds
<1>1. Moves(d, "clear")
  BY GoMoves DEF IInv, Actors, Labels, Holding
<1> HIDE DEF Go
<1>2. /\ guard = d /\ pc[Owner] \in {"serving", "copied"}
      /\ \A e \in Deletions : e # d => pc[e] \notin Holding \cup {"validate"}
  BY GuardIsExclusive DEF Holding
<1>3. Typed'
  BY <1>1, <1>2 DEF IInv, Typed, Raise, Moves
<1>4. Positions' /\ StartsAlone'
  BY <1>1, <1>2 DEF IInv, Moves, Positions, StartsAlone, Actors, Starters, Holding
<1>5. LocksAgree'
  BY <1>1, <1>2 DEF IInv, Moves, LocksAgree, Actors
<1>6. RowTells' /\ BytesAreSomewhere'
  BY <1>1, <1>2 DEF IInv, Moves, RowTells, BytesAreSomewhere, DeletionKnows, Actors, Decided
<1>7. DeletionKnows'
  BY <1>1, <1>2 DEF IInv, Moves, DeletionKnows, Positions, Actors, Undecided, Decided
<1>8. RecoveryKnows' /\ WritersHaveTheirTree'
  BY <1>1, <1>2 DEF IInv, Moves, WritersHaveTheirTree, RecoveryKnows, Actors, Starters
<1> QED BY <1>3, <1>4, <1>5, <1>6, <1>7, <1>8 DEF IInv

\* The journal goes once nothing is staged.
LEMMA UnlinkKeeps ==
  ASSUME Sheltered, IInv, NEW d \in Deletions, Unlink(d)
  PROVE  IInv'
<1> USE Distinct DEF Sheltered, Unlink, files, locks, locals, bounds
<1>1. Moves(d, "clear")
  BY GoMoves DEF IInv, Actors, Labels, Holding
<1> HIDE DEF Go
<1>2. /\ guard = d /\ pc[Owner] \in {"serving", "copied"}
      /\ \A e \in Deletions : e # d => pc[e] \notin Holding \cup {"validate"}
  BY GuardIsExclusive DEF Holding
<1>3. Typed'
  BY <1>1, <1>2 DEF IInv, Typed, Moves
<1>4. Positions' /\ StartsAlone'
  BY <1>1, <1>2 DEF IInv, Moves, Positions, StartsAlone, Actors, Starters, Holding
<1>5. LocksAgree'
  BY <1>1, <1>2 DEF IInv, Moves, LocksAgree, Actors
<1>6. RowTells' /\ BytesAreSomewhere'
  BY <1>1, <1>2 DEF IInv, Moves, RowTells, BytesAreSomewhere, DeletionKnows, Actors
<1>7. DeletionKnows'
  BY <1>1, <1>2 DEF IInv, Moves, DeletionKnows, Positions, Actors, Undecided, Decided
<1>8. RecoveryKnows' /\ WritersHaveTheirTree'
  BY <1>1, <1>2 DEF IInv, Moves, WritersHaveTheirTree, RecoveryKnows, Actors, Starters
<1> QED BY <1>3, <1>4, <1>5, <1>6, <1>7, <1>8 DEF IInv

\* The intent goes, then the guard.
LEMMA ClearIntentKeeps ==
  ASSUME Sheltered, IInv, NEW d \in Deletions, ClearIntent(d)
  PROVE  IInv'
<1> USE Distinct DEF Sheltered, ClearIntent, files, locks, locals, bounds
<1>1. Moves(d, "done")
  BY GoMoves DEF IInv, Actors, Labels
<1> HIDE DEF Go
<1>2. /\ guard = d /\ pc[Owner] \in {"serving", "copied"}
      /\ \A e \in Deletions : e # d => pc[e] \notin Holding \cup {"validate"}
  BY GuardIsExclusive DEF Holding
<1>3. Typed'
  BY <1>1, <1>2 DEF IInv, Typed, Moves
<1>4. Positions' /\ StartsAlone'
  BY <1>1, <1>2 DEF IInv, Moves, Positions, StartsAlone, Actors, Starters
<1>5. LocksAgree'
  BY <1>1, <1>2 DEF IInv, Moves, LocksAgree, Actors
<1>6. RowTells' /\ BytesAreSomewhere'
  BY <1>1, <1>2 DEF IInv, Moves, RowTells, BytesAreSomewhere, Actors
<1>7. DeletionKnows'
  BY <1>1, <1>2 DEF IInv, Moves, DeletionKnows, Actors, Undecided, Decided, Holding
<1>8. RecoveryKnows' /\ WritersHaveTheirTree'
  BY <1>1, <1>2 DEF IInv, Moves, WritersHaveTheirTree, RecoveryKnows, Actors, Starters
<1> QED BY <1>3, <1>4, <1>5, <1>6, <1>7, <1>8 DEF IInv

\* A failure up to the commit finds the row in its place.
LEMMA TwoFailsKeeps ==
  ASSUME Sheltered, IInv, NEW d \in Deletions, TwoFails(d)
  PROVE  IInv'
<1> USE Distinct DEF Sheltered, TwoFails, files, locks, locals, bounds
<1>1. Moves(d, "undo_tombstone")
  BY GoMoves DEF IInv, Actors, Labels, Holding
<1> HIDE DEF Go
<1>2. /\ guard = d /\ pc[Owner] \in {"serving", "copied"}
      /\ \A e \in Deletions : e # d => pc[e] \notin Holding \cup {"validate"}
  BY GuardIsExclusive DEF Holding
<1>3. Typed'
  BY <1>1, <1>2 DEF IInv, Typed, Raise, Moves
<1>4. Positions' /\ StartsAlone'
  BY <1>1, <1>2 DEF IInv, Moves, Positions, StartsAlone, Actors, Starters, Holding
<1>5. LocksAgree'
  BY <1>1, <1>2 DEF IInv, Moves, LocksAgree, Actors
<1>6. RowTells' /\ BytesAreSomewhere'
  BY <1>1, <1>2 DEF IInv, Moves, RowTells, BytesAreSomewhere, DeletionKnows, Undecided
<1>7. DeletionKnows'
  BY <1>1, <1>2 DEF IInv, Moves, DeletionKnows, Positions, Actors, Undecided, Decided
<1>8. RecoveryKnows' /\ WritersHaveTheirTree'
  BY <1>1, <1>2 DEF IInv, Moves, WritersHaveTheirTree, RecoveryKnows, Actors, Starters
<1> QED BY <1>3, <1>4, <1>5, <1>6, <1>7, <1>8 DEF IInv

\* The undo, first the tombstone.
LEMMA UndoTombstoneKeeps ==
  ASSUME Sheltered, IInv, NEW d \in Deletions, UndoTombstone(d)
  PROVE  IInv'
<1> USE Distinct DEF Sheltered, UndoTombstone, files, locks, locals, bounds
<1>1. Moves(d, "undo_move")
  BY GoMoves DEF IInv, Actors, Labels, Holding
<1> HIDE DEF Go
<1>2. /\ guard = d /\ pc[Owner] \in {"serving", "copied"}
      /\ \A e \in Deletions : e # d => pc[e] \notin Holding \cup {"validate"}
  BY GuardIsExclusive DEF Holding
<1>3. Typed'
  BY <1>1, <1>2 DEF IInv, Typed, Moves, Starters, Trees
<1>4. Positions' /\ StartsAlone'
  BY <1>1, <1>2 DEF IInv, Moves, Positions, StartsAlone, Actors, Starters, Holding
<1>5. LocksAgree'
  BY <1>1, <1>2 DEF IInv, Moves, LocksAgree, Actors
<1>6. RowTells' /\ BytesAreSomewhere'
  BY <1>1, <1>2 DEF IInv, Moves, RowTells, BytesAreSomewhere, Actors
<1>7. DeletionKnows'
  BY <1>1, <1>2 DEF IInv, Moves, DeletionKnows, Positions, Actors, Undecided, Decided
<1>8. RecoveryKnows' /\ WritersHaveTheirTree'
  BY <1>1, <1>2 DEF IInv, Moves, WritersHaveTheirTree, RecoveryKnows, Actors, Starters
<1> QED BY <1>3, <1>4, <1>5, <1>6, <1>7, <1>8 DEF IInv

\* The undo, then the bytes: if they were moved they are whole and their path is free.
LEMMA UndoMoveKeeps ==
  ASSUME Sheltered, IInv, NEW d \in Deletions, UndoMove(d)
  PROVE  IInv'
<1> USE Distinct DEF Sheltered, UndoMove, files, locks, locals, bounds
<1>1. Moves(d, "undo_unlink")
  BY GoMoves DEF IInv, Actors, Labels, Holding
<1> HIDE DEF Go
<1>2. /\ guard = d /\ pc[Owner] \in {"serving", "copied"}
      /\ \A e \in Deletions : e # d => pc[e] \notin Holding \cup {"validate"}
  BY GuardIsExclusive DEF Holding
<1>3. \/ /\ home = "absent" /\ home' = "whole" /\ staged[d] = "whole"
         /\ staged' = [staged EXCEPT ![d] = "absent"]
      \/ staged[d] = "absent" /\ UNCHANGED <<home, staged>>
  BY DEF IInv, RowTells, BytesAreSomewhere, DeletionKnows, MoveBack, Undecided
<1> HIDE DEF UndoMove
<1>4. /\ pc[d] = "undo_move"
      /\ UNCHANGED <<row, journals, intent, tombstone, locks, locals, bounds, promised>>
  BY DEF UndoMove
<1>5. Typed'
  BY <1>3, <1>4, <1>1, <1>2 DEF IInv, Typed, Moves
<1>6. Positions' /\ StartsAlone'
  BY <1>3, <1>4, <1>1, <1>2 DEF IInv, Moves, Positions, StartsAlone, Actors, Starters,
    Holding
<1>7. LocksAgree'
  BY <1>3, <1>4, <1>1, <1>2 DEF IInv, Moves, LocksAgree, Actors
<1>8. RowTells' /\ BytesAreSomewhere'
  BY <1>3, <1>4, <1>1, <1>2 DEF IInv, Typed, Moves, RowTells, BytesAreSomewhere,
    DeletionKnows, Undecided
<1>9. DeletionKnows'
  BY <1>3, <1>4, <1>1, <1>2 DEF IInv, Typed, Moves, DeletionKnows, Positions, Actors,
    Undecided, Decided
<1>10. RecoveryKnows' /\ WritersHaveTheirTree'
  BY <1>3, <1>4, <1>1, <1>2 DEF IInv, Moves, WritersHaveTheirTree, RecoveryKnows, Actors,
    Starters
<1> QED BY <1>5, <1>6, <1>7, <1>8, <1>9, <1>10 DEF IInv

\* A request that cannot finish leaves everything to the next start.
LEMMA EndFailsKeeps ==
  ASSUME Sheltered, IInv, NEW d \in Deletions, EndFails(d)
  PROVE  IInv'
<1> USE Distinct DEF Sheltered, EndFails, files, locks, locals, bounds
<1>1. Moves(d, "retained")
  BY GoMoves DEF IInv, Actors, Labels
<1> HIDE DEF Go
<1>2. /\ guard = d /\ pc[Owner] \in {"serving", "copied"}
      /\ \A e \in Deletions : e # d => pc[e] \notin Holding \cup {"validate"}
  BY GuardIsExclusive DEF Holding
<1>3. Typed'
  BY <1>1, <1>2 DEF IInv, Typed, Raise, Moves
<1>4. Positions' /\ StartsAlone'
  BY <1>1, <1>2 DEF IInv, Moves, Positions, StartsAlone, Actors, Starters
<1>5. LocksAgree'
  BY <1>1, <1>2 DEF IInv, Moves, LocksAgree, Actors
<1>6. RowTells' /\ BytesAreSomewhere'
  BY <1>1, <1>2 DEF IInv, Moves, RowTells, BytesAreSomewhere, Actors
<1>7. DeletionKnows'
  BY <1>1, <1>2 DEF IInv, Moves, DeletionKnows, Positions, Actors, Undecided, Decided
<1>8. RecoveryKnows' /\ WritersHaveTheirTree'
  BY <1>1, <1>2 DEF IInv, Moves, WritersHaveTheirTree, RecoveryKnows, Actors, Starters
<1> QED BY <1>3, <1>4, <1>5, <1>6, <1>7, <1>8 DEF IInv

\* A request finds its repository.
LEMMA OpenCheckKeeps ==
  ASSUME Sheltered, IInv, NEW w \in Writers, OpenCheck(w)
  PROVE  IInv'
<1> USE Distinct DEF Sheltered, OpenCheck, files, locks, locals, bounds
<1>1. Moves(w, "construct")
  BY GoMoves DEF IInv, Actors, Labels
<1> HIDE DEF Go
<1>2. Typed'
  BY <1>1 DEF IInv, Typed, Moves
<1>3. Positions' /\ StartsAlone'
  BY <1>1 DEF IInv, Moves, Positions, StartsAlone, Actors, Starters, Starting, Serving
<1>4. LocksAgree'
  BY <1>1 DEF IInv, Moves, LocksAgree, Actors
<1>5. RowTells' /\ BytesAreSomewhere'
  BY <1>1 DEF IInv, Moves, RowTells, BytesAreSomewhere
<1>6. DeletionKnows'
  BY <1>1 DEF IInv, Moves, DeletionKnows, Actors
<1>7. RecoveryKnows' /\ WritersHaveTheirTree'
  BY <1>1 DEF IInv, Moves, WritersHaveTheirTree, RecoveryKnows, Actors, Starters
<1> QED BY <1>2, <1>3, <1>4, <1>5, <1>6, <1>7 DEF IInv

\* Its constructor finds the directory it would make.
LEMMA OpenConstructKeeps ==
  ASSUME Sheltered, IInv, NEW w \in Writers, OpenConstruct(w)
  PROVE  IInv'
<1> USE Distinct DEF Sheltered, OpenConstruct, files, locks, locals, bounds
<1>1. Moves(w, "enter")
  <2>1. home \in Stated
    BY DEF IInv, Typed, MakeHome, Stated
  <2> QED BY <2>1, GoMoves DEF IInv, Actors, Labels
<1> HIDE DEF Go
<1>2. Typed'
  BY <1>1 DEF IInv, Typed, Moves, MakeHome
<1>3. Positions' /\ StartsAlone'
  BY <1>1 DEF IInv, Moves, Positions, StartsAlone, Actors, Starters
<1>4. LocksAgree'
  BY <1>1 DEF IInv, Moves, LocksAgree, Actors
<1>5. RowTells' /\ BytesAreSomewhere'
  BY <1>1 DEF IInv, Moves, RowTells, BytesAreSomewhere, MakeHome
<1>6. DeletionKnows'
  BY <1>1 DEF IInv, Moves, DeletionKnows, Actors, MakeHome
<1>7. RecoveryKnows' /\ WritersHaveTheirTree'
  BY <1>1 DEF IInv, Moves, WritersHaveTheirTree, RecoveryKnows, Actors, Starters, MakeHome
<1> QED BY <1>2, <1>3, <1>4, <1>5, <1>6, <1>7 DEF IInv

\* The mode is checked under the lock: whoever holds the guard has published no
\* intent yet, or the mutation is refused.
LEMMA EnterMutationKeeps ==
  ASSUME Sheltered, IInv, NEW w \in Writers, EnterMutation(w)
  PROVE  IInv'
<1> USE Distinct DEF Sheltered, EnterMutation, files, locks, locals, bounds
<1>1. Moves(w, IF Writable THEN "mutating" ELSE "idle")
  BY GoMoves DEF IInv, Actors, Labels
<1> HIDE DEF Go
<1>2. Typed'
  BY <1>1 DEF IInv, Typed, Moves, MakeHome
<1>3. Positions' /\ StartsAlone'
  BY <1>1 DEF IInv, Moves, Positions, StartsAlone, Actors, Starters
<1>4. LocksAgree'
  BY <1>1 DEF IInv, Moves, LocksAgree, Actors
<1>5. RowTells' /\ BytesAreSomewhere'
  BY <1>1 DEF IInv, Moves, RowTells, BytesAreSomewhere, MakeHome
<1>6. DeletionKnows'
  BY <1>1 DEF IInv, Moves, DeletionKnows, LocksAgree, Actors, MakeHome, Writable
<1>7. RecoveryKnows' /\ WritersHaveTheirTree'
  BY <1>1 DEF IInv, Typed, Moves, WritersHaveTheirTree, RecoveryKnows, Actors, Starters,
    MakeHome
<1> QED BY <1>2, <1>3, <1>4, <1>5, <1>6, <1>7 DEF IInv

\* The mode is checked again before the save.
LEMMA CheckSaveKeeps ==
  ASSUME Sheltered, IInv, NEW w \in Writers, CheckSave(w)
  PROVE  IInv'
<1> USE Distinct DEF Sheltered, CheckSave, files, locks, locals, bounds
<1>1. Moves(w, IF intent = Nobody /\ row = "home" THEN "saving" ELSE "idle")
  BY GoMoves DEF IInv, Actors, Labels
<1> HIDE DEF Go
<1>2. Typed'
  BY <1>1 DEF IInv, Typed, Moves
<1>3. Positions' /\ StartsAlone'
  BY <1>1 DEF IInv, Moves, Positions, StartsAlone, Actors, Starters
<1>4. LocksAgree'
  BY <1>1 DEF IInv, Moves, LocksAgree, Actors
<1>5. RowTells' /\ BytesAreSomewhere'
  BY <1>1 DEF IInv, Moves, RowTells, BytesAreSomewhere, Actors
<1>6. DeletionKnows'
  BY <1>1 DEF IInv, Moves, DeletionKnows, Actors
<1>7. RecoveryKnows' /\ WritersHaveTheirTree'
  BY <1>1 DEF IInv, Moves, WritersHaveTheirTree, RecoveryKnows, Actors, Starters
<1> QED BY <1>2, <1>3, <1>4, <1>5, <1>6, <1>7 DEF IInv

\* The save finds the tree whole, and leaves it so.
LEMMA SaveMutationKeeps ==
  ASSUME Sheltered, IInv, NEW w \in Writers, SaveMutation(w)
  PROVE  IInv'
<1> USE Distinct DEF Sheltered, SaveMutation, files, locks, locals, bounds
<1>1. Moves(w, "idle")
  BY GoMoves DEF IInv, Actors, Labels
<1> HIDE DEF Go
<1>2. home = "whole" /\ home' = "whole"
  BY DEF IInv, WritersHaveTheirTree
<1>3. Typed'
  BY <1>2, <1>1 DEF IInv, Typed, Moves
<1>4. Positions' /\ StartsAlone'
  BY <1>1 DEF IInv, Moves, Positions, StartsAlone, Actors, Starters
<1>5. LocksAgree'
  BY <1>1 DEF IInv, Moves, LocksAgree, Actors
<1>6. RowTells' /\ BytesAreSomewhere'
  BY <1>2, <1>1 DEF IInv, Moves, RowTells, BytesAreSomewhere
<1>7. DeletionKnows'
  BY <1>1 DEF IInv, Moves, DeletionKnows, WritersHaveTheirTree, Actors
<1>8. RecoveryKnows' /\ WritersHaveTheirTree'
  BY <1>1 DEF IInv, Moves, WritersHaveTheirTree, RecoveryKnows, Actors, Starters
<1> QED BY <1>3, <1>4, <1>5, <1>6, <1>7, <1>8 DEF IInv

\* The process starts: nothing else runs.
LEMMA ListJournalsKeeps ==
  ASSUME Sheltered, IInv, ListJournals(Owner)
  PROVE  IInv'
<1> USE Distinct DEF Sheltered, ListJournals, files, locks, locals, bounds
<1>1. Moves(Owner, "next")
  BY GoMoves DEF IInv, Actors, Starters, Labels, Starting
<1> HIDE DEF Go
<1>2. Typed'
  BY <1>1 DEF IInv, Typed, Moves, Starters
<1>3. Positions' /\ StartsAlone'
  BY <1>1 DEF IInv, Moves, Positions, StartsAlone, Actors, Starters, Starting
<1>4. LocksAgree'
  BY <1>1 DEF IInv, Moves, LocksAgree, Actors
<1>5. RowTells' /\ BytesAreSomewhere'
  BY <1>1 DEF IInv, Moves, RowTells, BytesAreSomewhere, Actors
<1>6. DeletionKnows'
  BY <1>1 DEF IInv, Moves, DeletionKnows, StartsAlone, Positions, Actors
<1>7. RecoveryKnows' /\ WritersHaveTheirTree'
  BY <1>1 DEF IInv, Moves, WritersHaveTheirTree, RecoveryKnows, Actors
<1> QED BY <1>2, <1>3, <1>4, <1>5, <1>6, <1>7 DEF IInv

\* The journal's bytes go back to a path that is free.
LEMMA RecoverMoveBackKeeps ==
  ASSUME Sheltered, IInv, RecoverMoveBack(Owner)
  PROVE  IInv'
<1> USE Distinct DEF Sheltered, RecoverMoveBack, files, locks, locals, bounds
<1>1. Moves(Owner, "back_tombstone")
  BY GoMoves DEF IInv, Actors, Starters, Labels, Starting
<1> HIDE DEF Go
<1>2. PICK c \in Deletions : c = current[Owner] /\ c \in journals /\ row = "home"
  BY DEF IInv, Typed, RecoveryKnows
<1>3. \/ /\ home = "absent" /\ home' = "whole" /\ staged[c] = "whole"
         /\ staged' = [staged EXCEPT ![c] = "absent"]
      \/ staged[c] = "absent" /\ UNCHANGED <<home, staged>>
  BY <1>2 DEF IInv, RowTells, BytesAreSomewhere, MoveBack
<1> HIDE DEF RecoverMoveBack
<1>4. /\ pc[Owner] = "back"
      /\ UNCHANGED <<row, journals, intent, tombstone, locks, locals, bounds, promised>>
  BY DEF RecoverMoveBack
<1>5. Typed'
  BY <1>3, <1>4, <1>2, <1>1 DEF IInv, Typed, Moves
<1>6. Positions' /\ StartsAlone'
  BY <1>3, <1>4, <1>2, <1>1 DEF IInv, Moves, Positions, StartsAlone, Actors, Starting
<1>7. LocksAgree'
  BY <1>3, <1>4, <1>2, <1>1 DEF IInv, Moves, LocksAgree, Actors
<1>8. RowTells' /\ BytesAreSomewhere'
  BY <1>3, <1>4, <1>2, <1>1 DEF IInv, Typed, Moves, RowTells, BytesAreSomewhere, Actors
<1>9. DeletionKnows'
  BY <1>3, <1>4, <1>2, <1>1 DEF IInv, Moves, DeletionKnows, StartsAlone, Positions, Actors
<1>10. RecoveryKnows' /\ WritersHaveTheirTree'
  BY <1>3, <1>4, <1>2, <1>1 DEF IInv, Typed, Moves, WritersHaveTheirTree, RecoveryKnows,
    Actors
<1> QED BY <1>5, <1>6, <1>7, <1>8, <1>9, <1>10 DEF IInv

\* The tombstone goes after the bytes are back.
LEMMA RecoverClearTombstoneKeeps ==
  ASSUME Sheltered, IInv, RecoverClearTombstone(Owner)
  PROVE  IInv'
<1> USE Distinct DEF Sheltered, RecoverClearTombstone, files, locks, locals, bounds
<1>1. Moves(Owner, "recover_intent")
  BY GoMoves DEF IInv, Actors, Starters, Labels, Starting
<1> HIDE DEF Go
<1>2. Typed'
  BY <1>1 DEF IInv, Typed, Moves, Starters, Trees
<1>3. Positions' /\ StartsAlone'
  BY <1>1 DEF IInv, Moves, Positions, StartsAlone, Actors, Starting
<1>4. LocksAgree'
  BY <1>1 DEF IInv, Moves, LocksAgree, Actors
<1>5. RowTells' /\ BytesAreSomewhere'
  BY <1>1 DEF IInv, Moves, RowTells, BytesAreSomewhere, Actors
<1>6. DeletionKnows'
  BY <1>1 DEF IInv, Moves, DeletionKnows, StartsAlone, Positions, Actors
<1>7. RecoveryKnows' /\ WritersHaveTheirTree'
  BY <1>1 DEF IInv, Moves, WritersHaveTheirTree, RecoveryKnows, Actors
<1> QED BY <1>2, <1>3, <1>4, <1>5, <1>6, <1>7 DEF IInv

\* The row is gone for good: the tombstone is written again.
LEMMA RecoverTombstoneKeeps ==
  ASSUME Sheltered, IInv, RecoverTombstone(Owner)
  PROVE  IInv'
<1> USE Distinct DEF Sheltered, RecoverTombstone, files, locks, locals, bounds
<1>1. Moves(Owner, "recover_erase")
  BY GoMoves DEF IInv, Actors, Starters, Labels, Starting
<1> HIDE DEF Go
<1>2. Typed'
  BY <1>1 DEF IInv, Typed, Moves
<1>3. Positions' /\ StartsAlone'
  BY <1>1 DEF IInv, Moves, Positions, StartsAlone, Actors, Starting
<1>4. LocksAgree'
  BY <1>1 DEF IInv, Moves, LocksAgree, Actors
<1>5. RowTells' /\ BytesAreSomewhere'
  BY <1>1 DEF IInv, Moves, RowTells, BytesAreSomewhere, Actors
<1>6. DeletionKnows'
  BY <1>1 DEF IInv, Moves, DeletionKnows, StartsAlone, Positions, Actors
<1>7. RecoveryKnows' /\ WritersHaveTheirTree'
  BY <1>1 DEF IInv, Moves, WritersHaveTheirTree, RecoveryKnows, Actors
<1> QED BY <1>2, <1>3, <1>4, <1>5, <1>6, <1>7 DEF IInv

\* The bytes of a decided deletion go.
LEMMA RecoverEraseKeeps ==
  ASSUME Sheltered, IInv, RecoverErase(Owner)
  PROVE  IInv'
<1> USE Distinct DEF Sheltered, RecoverErase, files, locks, locals, bounds
<1>1. Moves(Owner, "recover_intent")
  BY GoMoves DEF IInv, Actors, Starters, Labels, Starting
<1> HIDE DEF Go
<1>2. PICK c \in Deletions : c = current[Owner] /\ c \in journals
  BY DEF IInv, Typed, RecoveryKnows
<1>3. promised /\ row = "none"
  BY <1>2 DEF IInv, RowTells, RecoveryKnows
<1>4. staged' = [staged EXCEPT ![c] = "absent"]
  BY <1>2
<1>5. Typed'
  BY <1>3, <1>4, <1>2, <1>1 DEF IInv, Typed, Moves
<1>6. Positions' /\ StartsAlone'
  <2> HIDE DEF RecoverErase
  <2>1. pc[Owner] = "recover_erase"
    BY DEF RecoverErase
  <2> QED BY <2>1, <1>1 DEF IInv, Moves, Positions, StartsAlone, Actors, Starting
<1>7. LocksAgree'
  BY <1>1 DEF IInv, Moves, LocksAgree, Actors
<1>8. RowTells' /\ BytesAreSomewhere'
  BY <1>3, <1>4, <1>2, <1>1 DEF IInv, Moves, RowTells, BytesAreSomewhere, Actors
<1>9. DeletionKnows'
  BY <1>3, <1>4, <1>2, <1>1 DEF IInv, Moves, DeletionKnows, StartsAlone, Positions, Actors
<1>10. RecoveryKnows' /\ WritersHaveTheirTree'
  BY <1>3, <1>4, <1>2, <1>1 DEF IInv, Typed, Moves, WritersHaveTheirTree, RecoveryKnows,
    Actors
<1> QED BY <1>5, <1>6, <1>7, <1>8, <1>9, <1>10 DEF IInv

\* The intent goes before the journal.
LEMMA RecoverIntentKeeps ==
  ASSUME Sheltered, IInv, RecoverIntent(Owner)
  PROVE  IInv'
<1> USE Distinct DEF Sheltered, RecoverIntent, files, locks, locals, bounds
<1>1. Moves(Owner, "recover_unlink")
  BY GoMoves DEF IInv, Actors, Starters, Labels, Starting
<1> HIDE DEF Go
<1>2. Typed'
  BY <1>1 DEF IInv, Typed, Moves
<1>3. Positions' /\ StartsAlone'
  BY <1>1 DEF IInv, Moves, Positions, StartsAlone, Actors, Starting
<1>4. LocksAgree'
  BY <1>1 DEF IInv, Moves, LocksAgree, Actors
<1>5. RowTells' /\ BytesAreSomewhere'
  BY <1>1 DEF IInv, Moves, RowTells, BytesAreSomewhere, Actors
<1>6. DeletionKnows'
  BY <1>1 DEF IInv, Moves, DeletionKnows, StartsAlone, Positions, Actors, Holding
<1>7. RecoveryKnows' /\ WritersHaveTheirTree'
  BY <1>1 DEF IInv, Moves, WritersHaveTheirTree, RecoveryKnows, Actors
<1> QED BY <1>2, <1>3, <1>4, <1>5, <1>6, <1>7 DEF IInv

\* The journal goes: nothing is staged that it would have to tell of.
LEMMA RecoverUnlinkKeeps ==
  ASSUME Sheltered, IInv, RecoverUnlink(Owner)
  PROVE  IInv'
<1> USE Distinct DEF Sheltered, RecoverUnlink, files, locks, locals, bounds
<1>1. Moves(Owner, "next")
  BY GoMoves DEF IInv, Actors, Starters, Labels, Starting
<1> HIDE DEF Go
<1>2. PICK c \in Deletions : c = current[Owner] /\ c \in journals
  BY DEF IInv, Typed, RecoveryKnows
<1>3. journals' = journals \ {c} /\ staged[c] = "absent"
  BY <1>2 DEF IInv, RecoveryKnows
<1>4. Typed'
  BY <1>1 DEF IInv, Typed, Moves
<1>5. Positions' /\ StartsAlone'
  BY <1>1 DEF IInv, Moves, Positions, StartsAlone, Actors, Starting
<1>6. LocksAgree'
  BY <1>1 DEF IInv, Moves, LocksAgree, Actors
<1>7. RowTells' /\ BytesAreSomewhere'
  BY <1>3, <1>2, <1>1 DEF IInv, Moves, RowTells, BytesAreSomewhere, Actors
<1>8. DeletionKnows'
  BY <1>1 DEF IInv, Moves, DeletionKnows, StartsAlone, Positions, Actors, Undecided, Decided
<1>9. RecoveryKnows' /\ WritersHaveTheirTree'
  BY <1>3, <1>2, <1>1 DEF IInv, Moves, WritersHaveTheirTree, RecoveryKnows, Actors
<1> QED BY <1>4, <1>5, <1>6, <1>7, <1>8, <1>9 DEF IInv

\* The journal is retained; only bytes of a decided deletion may be broken.
LEMMA RecoverFailsKeeps ==
  ASSUME Sheltered, IInv, RecoverFails(Owner)
  PROVE  IInv'
<1> USE Distinct DEF Sheltered, RecoverFails, files, locks, locals, bounds
<1>1. Moves(Owner, "next")
  BY GoMoves DEF IInv, Actors, Starters, Labels, Starting
<1> HIDE DEF Go
<1>2. PICK c \in Deletions : c = current[Owner] /\ c \in journals
  BY DEF IInv, Typed, RecoveryKnows
<1>3. \/ staged' = staged
      \/ /\ promised /\ row = "none" /\ staged[c] # "absent"
         /\ \E left \in {"broken", "hollow"} : staged' = [staged EXCEPT ![c] = left]
  BY <1>2 DEF IInv, RowTells, RecoveryKnows
<1>4. \A e \in Deletions : staged'[e] # "absent" <=> staged[e] # "absent"
  BY <1>3, <1>2 DEF IInv, Typed
<1>5. staged' \in [Deletions -> Trees \cup {"absent"}]
  BY <1>3, <1>2 DEF IInv, Typed, Trees
<1>6. Typed'
  BY <1>3, <1>4, <1>2, <1>5, <1>1 DEF IInv, Typed, Raise, Moves, Starters
<1>7. Positions' /\ StartsAlone'
  BY <1>1 DEF IInv, Moves, Positions, StartsAlone, Actors, Starters, Starting
<1>8. LocksAgree'
  BY <1>1 DEF IInv, Moves, LocksAgree, Actors
<1>9. RowTells' /\ BytesAreSomewhere'
  BY <1>3, <1>4, <1>2, <1>5, <1>1 DEF IInv, Moves, RowTells, BytesAreSomewhere, Actors
<1>10. DeletionKnows'
  BY <1>1 DEF IInv, Moves, DeletionKnows, WritersHaveTheirTree, StartsAlone, Positions,
    Actors
<1>11. RecoveryKnows' /\ WritersHaveTheirTree'
  BY <1>1 DEF IInv, Moves, WritersHaveTheirTree, RecoveryKnows, Actors
<1> QED BY <1>6, <1>7, <1>8, <1>9, <1>10, <1>11 DEF IInv

\* An intent without a journal goes; no deletion is under way.
LEMMA ClearOrphanIntentKeeps ==
  ASSUME Sheltered, IInv, ClearOrphanIntent(Owner)
  PROVE  IInv'
<1> USE Distinct DEF Sheltered, ClearOrphanIntent, files, locks, locals, bounds
<1>1. Moves(Owner, "scan")
  BY GoMoves DEF IInv, Actors, Starters, Labels, Starting
<1> HIDE DEF Go
<1>2. Typed'
  BY <1>1 DEF IInv, Typed, Moves
<1>3. Positions' /\ StartsAlone'
  BY <1>1 DEF IInv, Moves, Positions, StartsAlone, Actors, Starting
<1>4. LocksAgree'
  BY <1>1 DEF IInv, Moves, LocksAgree, Actors
<1>5. RowTells' /\ BytesAreSomewhere'
  BY <1>1 DEF IInv, Moves, RowTells, BytesAreSomewhere, Actors
<1>6. DeletionKnows'
  BY <1>1 DEF IInv, Moves, DeletionKnows, StartsAlone, Positions, Actors, Holding
<1>7. RecoveryKnows' /\ WritersHaveTheirTree'
  BY <1>1 DEF IInv, Moves, WritersHaveTheirTree, RecoveryKnows, Actors
<1> QED BY <1>2, <1>3, <1>4, <1>5, <1>6, <1>7 DEF IInv

\* A directory that no tombstone keeps away is found.
LEMMA ScanKeeps ==
  ASSUME Sheltered, IInv, Scan(Owner)
  PROVE  IInv'
<1> USE Distinct DEF Sheltered, Scan, files, locks, locals, bounds
<1>1. Moves(Owner, IF home \in Stated /\ ~tombstone THEN "register" ELSE "serving")
  <2>1. CASE home \in Stated /\ ~tombstone
    <3>1. Go(Owner, "register")
      BY <2>1
    <3> QED BY <2>1, <3>1, GoMoves DEF IInv, Actors, Starters, Labels, Starting
  <2>2. CASE ~(home \in Stated /\ ~tombstone)
    <3>1. Go(Owner, "serving")
      BY <2>2 DEF Done
    <3> QED BY <2>2, <3>1, GoMoves DEF IInv, Actors, Starters, Labels
  <2> QED BY <2>1, <2>2
<1> HIDE DEF Go
<1>2. Typed'
  BY <1>1 DEF IInv, Typed, Moves
<1>3. Positions' /\ StartsAlone'
  BY <1>1 DEF IInv, Moves, Positions, StartsAlone, Actors, Starting
<1>4. LocksAgree'
  BY <1>1 DEF IInv, Moves, LocksAgree, Actors
<1>5. RowTells' /\ BytesAreSomewhere'
  BY <1>1 DEF IInv, Moves, RowTells, BytesAreSomewhere, Actors
<1>6. DeletionKnows'
  BY <1>1 DEF IInv, Moves, DeletionKnows, StartsAlone, Positions, Actors
<1>7. RecoveryKnows' /\ WritersHaveTheirTree'
  BY <1>1 DEF IInv, Moves, WritersHaveTheirTree, RecoveryKnows, Actors
<1> QED BY <1>2, <1>3, <1>4, <1>5, <1>6, <1>7 DEF IInv

\* What the registry dropped for good has no directory, so none is registered.
LEMMA RegisterKeeps ==
  ASSUME Sheltered, IInv, Register(Owner)
  PROVE  IInv'
<1> USE Distinct DEF Sheltered, Register, files, locks, locals, bounds
<1>1. Moves(Owner, IF row = "none" /\ home \in Stated THEN "registered" ELSE "serving")
  <2>1. CASE row = "none" /\ home \in Stated
    <3>1. Go(Owner, "registered")
      BY <2>1
    <3> QED BY <2>1, <3>1, GoMoves DEF IInv, Actors, Starters, Labels, Starting
  <2>2. CASE ~(row = "none" /\ home \in Stated)
    <3>1. Go(Owner, "serving")
      BY <2>2 DEF Done
    <3> QED BY <2>2, <3>1, GoMoves DEF IInv, Actors, Starters, Labels
  <2> QED BY <2>1, <2>2
<1> HIDE DEF Go
<1>2. Typed'
  BY <1>1 DEF IInv, Typed, Moves
<1>3. Positions' /\ StartsAlone'
  BY <1>1 DEF IInv, Moves, Positions, StartsAlone, Actors, Starting
<1>4. LocksAgree'
  BY <1>1 DEF IInv, Moves, LocksAgree, Actors
<1>5. RowTells' /\ BytesAreSomewhere'
  BY <1>1 DEF IInv, Moves, RowTells, BytesAreSomewhere, Actors, Stated
<1>6. DeletionKnows'
  BY <1>1 DEF IInv, Moves, BytesAreSomewhere, DeletionKnows, StartsAlone, Positions, Actors,
    Stated
<1>7. RecoveryKnows' /\ WritersHaveTheirTree'
  BY <1>1 DEF IInv, Moves, WritersHaveTheirTree, RecoveryKnows, Actors
<1> QED BY <1>2, <1>3, <1>4, <1>5, <1>6, <1>7 DEF IInv

\* The tombstone goes after the commit.
LEMMA RegisteredKeeps ==
  ASSUME Sheltered, IInv, Registered(Owner)
  PROVE  IInv'
<1> USE Distinct DEF Sheltered, Registered, files, locks, locals, bounds
<1>1. Moves(Owner, "serving")
  BY GoMoves DEF IInv, Actors, Starters, Labels, Done
<1> HIDE DEF Go
<1>2. Typed'
  BY <1>1 DEF IInv, Typed, Moves, Starters, Trees
<1>3. Positions' /\ StartsAlone'
  BY <1>1 DEF IInv, Moves, Positions, StartsAlone, Actors
<1>4. LocksAgree'
  BY <1>1 DEF IInv, Moves, LocksAgree, Actors
<1>5. RowTells' /\ BytesAreSomewhere'
  BY <1>1 DEF IInv, Moves, RowTells, BytesAreSomewhere, Actors
<1>6. DeletionKnows'
  BY <1>1 DEF IInv, Moves, DeletionKnows, StartsAlone, Positions, Actors
<1>7. RecoveryKnows' /\ WritersHaveTheirTree'
  BY <1>1 DEF IInv, Moves, WritersHaveTheirTree, RecoveryKnows, Actors
<1> QED BY <1>2, <1>3, <1>4, <1>5, <1>6, <1>7 DEF IInv

\* A journal is judged by the row: with the row at its path the bytes go back,
\* without it they are erased; a row elsewhere is not met.
LEMMA DecideKeeps ==
  ASSUME Sheltered, IInv, Decide(Owner)
  PROVE  IInv'
<1> USE Distinct DEF Sheltered, files, locks, locals, bounds
<1>1. PICK d \in todo[Owner] :
        /\ todo' = [todo EXCEPT ![Owner] = @ \ {d}]
        /\ current' = [current EXCEPT ![Owner] = d]
        /\ retained' = [retained EXCEPT ![Owner] = IF d \in journals THEN @ ELSE @ \cup {d}]
        /\ Go(Owner, IF d \notin journals THEN "next" ELSE IF row # "none" THEN "back" ELSE "bury")
  BY DEF Decide
<1>2. /\ pc[Owner] = "next" /\ opLock = Nobody
      /\ UNCHANGED <<row, files, locks, existed, moved, listed, bounds, promised>>
  BY DEF Decide
<1>3. d \in Deletions /\ current'[Owner] = d
  BY <1>1 DEF IInv, Typed, Starters
<1>4. PICK to \in {"next", "back", "bury"} :
        /\ Go(Owner, to)
        /\ to = "back" => d \in journals /\ row = "home"
        /\ to = "bury" => d \in journals /\ row = "none"
  <2>1. CASE d \notin journals
    BY <1>1, <2>1
  <2>2. CASE d \in journals /\ row # "none"
    <3>1. row = "home"
      BY <2>2 DEF IInv, Typed, RowTells
    <3> QED BY <1>1, <2>2, <3>1
  <2>3. CASE d \in journals /\ row = "none"
    BY <1>1, <2>3
  <2> QED BY <2>1, <2>2, <2>3
<1>5. Moves(Owner, to)
  BY <1>4, GoMoves DEF IInv, Actors, Starters, Labels, Starting
<1> HIDE DEF Go
<1>6. Typed'
  BY <1>1, <1>2, <1>3 DEF IInv, Typed, Starters
<1>7. Positions' /\ StartsAlone'
  BY <1>2, <1>5 DEF IInv, Moves, Positions, StartsAlone, Actors, Starting
<1>8. LocksAgree'
  BY <1>2, <1>5 DEF IInv, Moves, LocksAgree, Actors
<1>9. RowTells' /\ BytesAreSomewhere'
  BY <1>2, <1>5 DEF IInv, Moves, RowTells, BytesAreSomewhere, Actors
<1>10. DeletionKnows'
  BY <1>2, <1>5 DEF IInv, Moves, DeletionKnows, Actors, Starters
<1>11. RecoveryKnows' /\ WritersHaveTheirTree'
  BY <1>2, <1>3, <1>4, <1>5 DEF IInv, Moves, RecoveryKnows, WritersHaveTheirTree, Actors
<1> QED BY <1>6, <1>7, <1>8, <1>9, <1>10, <1>11 DEF IInv

\* The row goes only while no deletion has a journal, so no bytes are staged.
LEMMA UnregisterKeeps ==
  ASSUME Sheltered, IInv, Unregister
  PROVE  IInv'
<1> USE Distinct DEF Sheltered, Unregister, files, locks, locals, bounds
<1>1. journals = {}
  OBVIOUS
<1>2. Typed' /\ Positions' /\ StartsAlone' /\ LocksAgree'
  BY DEF IInv, Typed, Positions, StartsAlone, LocksAgree
<1>3. \A d \in Deletions : staged[d] = "absent"
  BY <1>1 DEF IInv, BytesAreSomewhere, DeletionKnows, Undecided
<1>4. RowTells' /\ BytesAreSomewhere'
  BY <1>1, <1>3 DEF IInv, RowTells, BytesAreSomewhere
<1>5. DeletionKnows' /\ RecoveryKnows' /\ WritersHaveTheirTree'
  BY <1>1 DEF IInv, DeletionKnows, RecoveryKnows, WritersHaveTheirTree
<1> QED BY <1>2, <1>4, <1>5 DEF IInv

\* A copy is registered only once the deletion has left no journal.
LEMMA RegisterCopyKeeps ==
  ASSUME Sheltered, IInv, RegisterCopy
  PROVE  IInv'
<1> USE Distinct DEF Sheltered, RegisterCopy, files, locks, locals, bounds
<1>1. journals = {}
  OBVIOUS
<1>2. Moves(Owner, "copied")
  BY GoMoves DEF IInv, Actors, Starters, Labels
<1> HIDE DEF Go
<1>3. Typed'
  <2>1. copies' \in 0..MaxCopies /\ row' = "copy" /\ promised' = FALSE
    BY DEF IInv, Typed
  <2>2. UNCHANGED <<files, locks, locals, faults, crashes>>
    OBVIOUS
  <2> HIDE DEF RegisterCopy
  <2> QED BY <2>1, <2>2 DEF IInv, Typed
<1>4. Positions' /\ StartsAlone' /\ LocksAgree'
  BY <1>2 DEF IInv, Moves, Positions, StartsAlone, LocksAgree, Actors, Starters, Starting
<1>5. \A d \in Deletions : staged[d] = "absent"
  BY <1>1 DEF IInv, BytesAreSomewhere, DeletionKnows, Undecided
<1>6. RowTells' /\ BytesAreSomewhere'
  BY <1>1, <1>5 DEF IInv, RowTells, BytesAreSomewhere
<1>7. DeletionKnows' /\ RecoveryKnows' /\ WritersHaveTheirTree'
  BY <1>1, <1>2 DEF IInv, Moves, DeletionKnows, RecoveryKnows, WritersHaveTheirTree, Actors,
    Starters
<1> QED BY <1>3, <1>4, <1>6, <1>7 DEF IInv

\* The tombstone of the copy's repository goes after the commit.
LEMMA ClearTombstoneKeeps ==
  ASSUME Sheltered, IInv, ClearTombstone
  PROVE  IInv'
<1> USE Distinct DEF Sheltered, ClearTombstone, files, locks, locals, bounds
<1>1. Moves(Owner, "serving")
  BY GoMoves DEF IInv, Actors, Starters, Labels
<1> HIDE DEF Go
<1>2. Typed'
  BY DEF IInv, Typed
<1>3. Positions' /\ StartsAlone' /\ LocksAgree'
  BY <1>1 DEF IInv, Moves, Positions, StartsAlone, LocksAgree, Actors, Starters, Starting
<1>4. RowTells' /\ BytesAreSomewhere'
  BY <1>1 DEF IInv, Moves, RowTells, BytesAreSomewhere, Actors
<1>5. DeletionKnows' /\ RecoveryKnows' /\ WritersHaveTheirTree'
  BY <1>1 DEF IInv, Moves, DeletionKnows, RecoveryKnows, WritersHaveTheirTree, Actors,
    Starters
<1> QED BY <1>2, <1>3, <1>4, <1>5 DEF IInv

\* The process dies: the requests are gone, what is on the disk stays.
LEMMA CrashKeeps ==
  ASSUME Sheltered, IInv, Crash
  PROVE  IInv'
<1> USE Distinct DEF Sheltered, files, locks, locals, bounds
<1>1. /\ crashes < MaxCrashes /\ crashes' = crashes + 1
      /\ guard' = Nobody /\ repoLock' = Nobody /\ opLock' = Nobody
      /\ UNCHANGED <<row, files, locals, promised, faults, copies>>
  BY DEF Crash
<1>2. /\ pc' \in [Actors -> Labels] /\ pc'[Owner] = "down"
      /\ \A w \in Writers : pc'[w] = "idle"
      /\ \A d \in Deletions : pc'[d] \in {"idle", "done"}
  <2>1. pc \in [Actors -> Labels] /\ "down" \in Labels /\ "done" \in Labels /\ "idle" \in Labels
    BY DEF IInv, Positions, Labels, Starting
  <2>2. pc' = [a \in Actors |->
                 IF a \in Commands \/ (a \in Deletions /\ pc[a] = "idle") THEN pc[a]
                 ELSE IF a = Owner THEN "down"
                 ELSE IF a \in Deletions THEN "done" ELSE "idle"]
    BY DEF Crash
  <2>3. pc' \in [Actors -> Labels]
    BY <2>1, <2>2
  <2>4. pc'[Owner] = "down"
    BY <2>2 DEF Actors, Starters
  <2>5. \A w \in Writers : pc'[w] = "idle"
    BY <2>2 DEF Actors, Starters
  <2>6. \A d \in Deletions : pc'[d] \in {"idle", "done"}
    BY <2>2 DEF Actors, Starters
  <2> QED BY <2>3, <2>4, <2>5, <2>6
<1>3. \A d \in Deletions : staged[d] # "absent" => d \in journals
  BY DEF IInv, BytesAreSomewhere, DeletionKnows, Undecided
<1>4. Typed'
  BY <1>1 DEF IInv, Typed
<1>5. Positions' /\ StartsAlone' /\ LocksAgree'
  BY <1>1, <1>2 DEF Positions, StartsAlone, LocksAgree, Labels, Starting, Actors
<1>6. RowTells' /\ BytesAreSomewhere'
  BY <1>1, <1>2, <1>3 DEF IInv, RowTells, BytesAreSomewhere
<1>7. DeletionKnows' /\ RecoveryKnows' /\ WritersHaveTheirTree'
  BY <1>2 DEF DeletionKnows, RecoveryKnows, WritersHaveTheirTree, Holding, Undecided,
    Decided
<1> QED BY <1>4, <1>5, <1>6, <1>7 DEF IInv

---------------------------------------------------------------------------
(* The invariant is inductive.                                             *)

\* The repository is registered and whole, and nobody does anything.
LEMMA InitKeeps ==
  ASSUME Init
  PROVE  IInv
<1> USE Distinct DEF Init
<1>1. Typed
  BY InitTypes DEF TInv, TypeOK, Typed
<1>2. Positions /\ StartsAlone /\ LocksAgree
  BY DEF Positions, StartsAlone, LocksAgree, Actors, Starters
<1>3. RowTells /\ BytesAreSomewhere
  BY DEF RowTells, BytesAreSomewhere
<1>4. DeletionKnows /\ RecoveryKnows /\ WritersHaveTheirTree
  BY DEF DeletionKnows, RecoveryKnows, WritersHaveTheirTree, Holding, Undecided, Decided,
    Actors, Starters
<1> QED BY <1>1, <1>2, <1>3, <1>4 DEF IInv

\* Every step of a request, of the start of the process and of the owner.
LEMMA StepKeeps ==
  ASSUME Sheltered, IInv, [Next]_vars
  PROVE  IInv'
<1>1. CASE \E d \in Deletions : Delete(d)
  BY <1>1, DeleteRecordKeeps, DeleteConstructKeeps, TakeGuardKeeps, ValidateKeeps,
    PrepareKeeps, PublishIntentKeeps, PrepareFailsKeeps, EnterTwoKeeps, MoveOutKeeps,
    JournalStagedKeeps, WriteTombstoneKeeps, CommitRemovalKeeps, JournalRemovedKeeps,
    EraseKeeps, EraseFailsKeeps, KeepJournalKeeps, UnlinkKeeps, ClearIntentKeeps,
    TwoFailsKeeps, UndoTombstoneKeeps, UndoMoveKeeps, EndFailsKeeps DEF Delete
<1>2. CASE \E w \in Writers : Write(w)
  BY <1>2, OpenCheckKeeps, OpenConstructKeeps, EnterMutationKeeps, CheckSaveKeeps,
    SaveMutationKeeps DEF Write
<1>3. CASE \E s \in Starters : Recover(s)
  <2>1. Recover(Owner)
    BY <1>3 DEF Sheltered, Starters
  <2> QED BY <2>1, ListJournalsKeeps, DecideKeeps, RecoverMoveBackKeeps,
    RecoverClearTombstoneKeeps, RecoverTombstoneKeeps, RecoverEraseKeeps,
    RecoverIntentKeeps, RecoverUnlinkKeeps, RecoverFailsKeeps, ClearOrphanIntentKeeps,
    ScanKeeps, RegisterKeeps, RegisteredKeeps DEF Recover
<1>4. CASE UNCHANGED vars
  BY <1>4 DEF vars, files, locks, locals, bounds, IInv, Typed, Positions, LocksAgree,
    StartsAlone, RowTells, BytesAreSomewhere, DeletionKnows, RecoveryKnows,
    WritersHaveTheirTree
<1> QED BY <1>1, <1>2, <1>3, <1>4, UnregisterKeeps, RegisterCopyKeeps, ClearTombstoneKeeps,
  CrashKeeps DEF Next

\* The states of a behaviour satisfy it.
LEMMA Invariance ==
  ASSUME Sheltered
  PROVE  Spec => []IInv
<1>1. Init => IInv
  BY InitKeeps
<1>2. IInv /\ [Next]_vars => IInv'
  BY StepKeeps
<1> QED BY <1>1, <1>2, PTL DEF Spec

---------------------------------------------------------------------------
(* The theorems.                                                           *)

\* Whatever fails, in whatever step the process dies, and whatever recovery does
\* of it: once the process serves again and no deletion runs, a repository that no
\* committed deletion names has its whole tree at its path or staged with a journal.
THEOREM UndeletedBytesStay ==
  ASSUME Sheltered
  PROVE  Spec => []UndeletedBytesAreKept
<1>1. IInv => UndeletedBytesAreKept
  BY DEF IInv, Typed, RowTells, BytesAreSomewhere, UndeletedBytesAreKept, Settled
<1> QED BY <1>1, Invariance, PTL

\* What the registry dropped for good is not brought back: not by
\* recover_managed_repository_deletions, not by recover_startup_repositories.
THEOREM DeletionsStay ==
  ASSUME Sheltered
  PROVE  Spec => []DeletedStaysDeleted
<1>1. IInv => DeletedStaysDeleted
  BY DEF IInv, Typed, RowTells, BytesAreSomewhere, DeletedStaysDeleted, Stated
<1> QED BY <1>1, Invariance, PTL

\* Staged bytes have a journal that the next start reads, or the deletion that
\* is about to write it.
THEOREM StagedBytesAreKnown ==
  ASSUME Sheltered
  PROVE  Spec => []NoOrphanStaging
<1>1. IInv => NoOrphanStaging
  BY DEF IInv, BytesAreSomewhere, NoOrphanStaging
<1> QED BY <1>1, Invariance, PTL

\* The checks of repository_service and of save_state suffice: a mutation that has
\* been let in keeps its tree, whatever deletion begins or recovers meanwhile.
THEOREM MutationsKeepTheirTree ==
  ASSUME Sheltered
  PROVE  Spec => []MutationExcludesMove
<1>1. IInv => MutationExcludesMove
  BY DEF IInv, WritersHaveTheirTree, MutationExcludesMove
<1> QED BY <1>1, Invariance, PTL

\* A directory comes back to the managed path, by an undo or by a recovery, only
\* while the registry still has the repository there.
THEOREM ReturnsAreRegistered ==
  ASSUME Sheltered
  PROVE  Spec => BytesReturnToTheirRow
<1> DEFINE Returns == home = "absent" /\ home' \in Stated => row = "home"
<1>1. ASSUME IInv, [Next]_vars
      PROVE  Returns
  <2> SUFFICES ASSUME home = "absent", home' # home
               PROVE  row = "home"
    BY DEF Stated
  <2> USE Distinct, <1>1 DEF Sheltered, files
  <2>1. ASSUME NEW d \in Deletions, UndoMove(d)
        PROVE  row = "home"
    BY <2>1 DEF IInv, DeletionKnows, Undecided, UndoMove
  <2>2. ASSUME RecoverMoveBack(Owner)
        PROVE  row = "home"
    BY <2>2 DEF IInv, RecoveryKnows, RecoverMoveBack
  <2>3. \A w \in Writers : ~SaveMutation(w)
    BY DEF IInv, WritersHaveTheirTree, SaveMutation
  <2>4. CASE \E d \in Deletions : Delete(d)
    BY <2>1, <2>4 DEF Delete, DeleteRecord, DeleteConstruct, TakeGuard, Validate, Prepare,
      PublishIntent, PrepareFails, EnterTwo, MoveOut, JournalStaged, WriteTombstone,
      CommitRemoval, JournalRemoved, Erase, EraseFails, KeepJournal, Unlink, ClearIntent,
      TwoFails, UndoTombstone, EndFails, MakeHome
  <2>5. CASE \E w \in Writers : Write(w)
    BY <2>3, <2>5 DEF Write, OpenCheck, OpenConstruct, EnterMutation, CheckSave, MakeHome
  <2>6. CASE \E s \in Starters : Recover(s)
    BY <2>2, <2>6 DEF Starters, Recover, ListJournals, Decide, RecoverClearTombstone,
      RecoverTombstone, RecoverErase, RecoverIntent, RecoverUnlink, RecoverFails,
      ClearOrphanIntent, Scan, Register, Registered
  <2> QED BY <2>4, <2>5, <2>6 DEF Next, vars, Unregister, RegisterCopy, ClearTombstone,
    Crash
<1>2. IInv /\ [Next]_vars => [Returns]_vars
  BY <1>1
<1> QED BY <1>2, Invariance, PTL DEF Spec, BytesReturnToTheirRow
===============================================================================
