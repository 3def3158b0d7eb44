------------------------------ MODULE AccessMode ------------------------------
(***************************************************************************)
(* Who may write a repository: its access mode is kept in the registry's   *)
(* row and, embedded, in its state.json, and it is writable when both say  *)
(* "rw" (registry.py, repository.py, registry_restore.py).  The owner sets *)
(* both in set_access_mode; a service that opens the repository tightens   *)
(* the embedded copy to the record it has read; a restore replaces the     *)
(* registry and carries its modes over; a registration takes the embedded  *)
(* mode; and mutations check both under the repository's lock.             *)
(*                                                                         *)
(* Every thread is in a process of its own: the locks of one process are   *)
(* in LockHierarchy.  Modes that are missing or malformed count as "ro".   *)
(***************************************************************************)
EXTENDS FiniteSets, Naturals

CONSTANTS
    Callers,     \* request threads
    Nobody,      \* holder of a free lock
    MaxRequests, \* bound: requests in a behaviour
    MaxAborts    \* bound: exceptions and deaths in a behaviour

ASSUME ModeParameters ==
  /\ Nobody \notin Callers
  /\ MaxRequests \in Nat /\ MaxAborts \in Nat

Modes == {"rw", "ro"}

VARIABLES
    row,        \* access_mode of the registry's row, or "none"
    embedded,   \* accessMode of state.json
    repoLock,   \* holder of the repository's lock
    opLock,     \* holder of the operation lock, over several steps
    place,      \* where each thread is
    record,     \* the mode in the record that each thread has read
    selected,   \* the mode each thread is setting or restoring
    overtaken,  \* history: mutations during which the row was replaced or removed
    requests, aborts

locks      == <<repoLock, opLock>>
modeBounds == <<requests, aborts>>
modeVars   == <<row, embedded, locks, place, record, selected, overtaken, modeBounds>>

-----------------------------------------------------------------------------
Go(t, to) == place' = [place EXCEPT ![t] = to]

\* access_policy: both copies must say so.
Writable == row = "rw" /\ embedded = "rw"

\* get_access_mode takes the operation lock for as long as it reads.
CanRead(t) == opLock \in {Nobody, t}

Request == requests < MaxRequests /\ requests' = requests + 1 /\ UNCHANGED aborts
Fault   == aborts < MaxAborts /\ aborts' = aborts + 1 /\ UNCHANGED requests

Mutating == {"mutating", "changed", "saving"}
Setting  == {"embed", "commit"}

\* The mutations in progress lose their row.
Overtake == overtaken' = overtaken \cup {u \in Callers : place[u] \in Mutating}

ModeInit ==
  /\ row = "rw" /\ embedded = "rw"
  /\ repoLock = Nobody /\ opLock = Nobody
  /\ place = [t \in Callers |-> "idle"]
  /\ record = [t \in Callers |-> "rw"] /\ selected = [t \in Callers |-> "rw"]
  /\ overtaken = {}
  /\ requests = 0 /\ aborts = 0

-----------------------------------------------------------------------------
(* repository_service: the record is read, and the copy is tightened to it *)

ReadRecord(t) ==
  /\ place[t] = "idle" /\ CanRead(t) /\ row # "none"
  /\ Request
  /\ record' = [record EXCEPT ![t] = row]
  /\ Go(t, "reconcile")
  /\ UNCHANGED <<row, embedded, locks, selected, overtaken>>

\* Variant: the copy is made equal to the record.
ReconcileBothWays(t) ==
  /\ place[t] = "reconcile" /\ repoLock = Nobody
  /\ embedded' = record[t]
  /\ Go(t, "opened")
  /\ UNCHANGED <<row, locks, record, selected, overtaken, modeBounds>>

\* reconcile_access_mode never loosens.
Reconcile(t) ==
  /\ place[t] = "reconcile" /\ repoLock = Nobody
  /\ embedded' = IF record[t] = "ro" THEN "ro" ELSE embedded
  /\ Go(t, "opened")
  /\ UNCHANGED <<row, locks, record, selected, overtaken, modeBounds>>

\* A service may be kept for as long as its request lasts, and then dropped.
Drop(t) ==
  /\ place[t] = "opened"
  /\ Go(t, "idle")
  /\ UNCHANGED <<row, embedded, locks, record, selected, overtaken, modeBounds>>

-----------------------------------------------------------------------------
(* A mutation *)

\* mutation: the mode is checked inside the repository's lock.
EnterMutation(t) ==
  /\ place[t] = "opened" /\ repoLock = Nobody /\ CanRead(t)
  /\ IF Writable
       THEN repoLock' = t /\ overtaken' = overtaken \ {t} /\ Go(t, "mutating")
       ELSE Go(t, "idle") /\ UNCHANGED <<repoLock, overtaken>>
  /\ UNCHANGED <<row, embedded, opLock, record, selected, modeBounds>>

\* The files are changed.
ChangeFiles(t) ==
  /\ place[t] = "mutating"
  /\ Go(t, "changed")
  /\ UNCHANGED <<row, embedded, locks, record, selected, overtaken, modeBounds>>

\* save_state checks again; a refusal rolls the files back.
CheckSave(t) ==
  /\ place[t] = "changed" /\ CanRead(t)
  /\ IF Writable
       THEN Go(t, "saving") /\ UNCHANGED repoLock
       ELSE Go(t, "idle") /\ repoLock' = Nobody
  /\ UNCHANGED <<row, embedded, opLock, record, selected, overtaken, modeBounds>>

\* The registry is busy until the file lock times out: the mode counts as "ro".
CheckTimesOut(t) ==
  /\ place[t] = "changed" /\ ~CanRead(t)
  /\ Go(t, "idle") /\ repoLock' = Nobody
  /\ UNCHANGED <<row, embedded, opLock, record, selected, overtaken, modeBounds>>

Save(t) ==
  /\ place[t] = "saving"
  /\ Go(t, "idle") /\ repoLock' = Nobody
  /\ UNCHANGED <<row, embedded, opLock, record, selected, overtaken, modeBounds>>

-----------------------------------------------------------------------------
(* set_access_mode *)

Select(t) ==
  /\ place[t] = "idle" /\ CanRead(t) /\ row # "none"
  /\ Request
  /\ \E m \in Modes : selected' = [selected EXCEPT ![t] = m]
  /\ Go(t, "select")
  /\ UNCHANGED <<row, embedded, locks, record, overtaken>>

\* Variant: the repository's lock is left to the save.
LockBothNot(t) ==
  /\ place[t] = "select" /\ opLock = Nobody
  /\ IF row = "none" THEN Go(t, "idle") /\ UNCHANGED locks
                     ELSE opLock' = t /\ Go(t, "embed") /\ UNCHANGED repoLock
  /\ UNCHANGED <<row, embedded, record, selected, overtaken, modeBounds>>

\* The repository's lock and the registry's are taken; the row may be gone.
LockBoth(t) ==
  /\ place[t] = "select" /\ repoLock = Nobody /\ opLock = Nobody
  /\ IF row = "none"
       THEN Go(t, "idle") /\ UNCHANGED locks
       ELSE repoLock' = t /\ opLock' = t /\ Go(t, "embed")
  /\ UNCHANGED <<row, embedded, record, selected, overtaken, modeBounds>>

\* state.json is saved; the row, updated before or after, is not committed yet.
Embed(t) ==
  /\ place[t] = "embed"
  /\ embedded' = selected[t]
  /\ Go(t, "commit")
  /\ UNCHANGED <<row, locks, record, selected, overtaken, modeBounds>>

\* The transaction is committed and the locks are left.
CommitMode(t) ==
  /\ place[t] = "commit"
  /\ row' = selected[t]
  /\ repoLock' = Nobody /\ opLock' = Nobody
  /\ Go(t, "idle")
  /\ UNCHANGED <<embedded, record, selected, overtaken, modeBounds>>

-----------------------------------------------------------------------------
(* A restore of the registry, or the recovery of one *)

\* The registry is replaced under its own locks only; the backup may not list the
\* repository.  A rollback, and the recovery of a restore, are further restores.
Install(t) ==
  /\ place[t] = "idle" /\ opLock = Nobody
  /\ Request
  /\ opLock' = t
  /\ \E m \in Modes : row' = m /\ selected' = [selected EXCEPT ![t] = m]
  /\ Overtake
  /\ Go(t, "installed")
  /\ UNCHANGED <<embedded, repoLock, record>>

InstallWithout(t) ==
  /\ place[t] = "idle" /\ opLock = Nobody
  /\ Request
  /\ opLock' = t
  /\ row' = "none"
  /\ Overtake
  /\ Go(t, "finish")
  /\ UNCHANGED <<embedded, repoLock, record, selected>>

\* _reconcile_embedded_access_modes compares without the repository's lock.
Compare(t) ==
  /\ place[t] = "installed"
  /\ Go(t, IF embedded = selected[t] THEN "finish" ELSE "carry")
  /\ UNCHANGED <<row, embedded, locks, record, selected, overtaken, modeBounds>>

CarryOver(t) ==
  /\ place[t] = "carry" /\ repoLock = Nobody
  /\ embedded' = selected[t]
  /\ Go(t, "finish")
  /\ UNCHANGED <<row, locks, record, selected, overtaken, modeBounds>>

\* The repository's lock times out: the copy stays, and the report says so.
CarryPending(t) ==
  /\ place[t] = "carry" /\ repoLock # Nobody
  /\ Go(t, "finish")
  /\ UNCHANGED <<row, embedded, locks, record, selected, overtaken, modeBounds>>

FinishRestore(t) ==
  /\ place[t] = "finish"
  /\ opLock' = Nobody
  /\ Go(t, "idle")
  /\ UNCHANGED <<row, embedded, repoLock, record, selected, overtaken, modeBounds>>

-----------------------------------------------------------------------------
(* The row is removed, or made from the embedded mode *)

Unregister(t) ==
  /\ place[t] = "idle" /\ opLock = Nobody /\ row # "none"
  /\ Request
  /\ row' = "none"
  /\ Overtake
  /\ UNCHANGED <<embedded, locks, place, record, selected>>

\* The embedded mode is read before the registry's locks are taken.
Probe(t) ==
  /\ place[t] = "idle" /\ row = "none" /\ CanRead(t)
  /\ Request
  /\ record' = [record EXCEPT ![t] = embedded]
  /\ Go(t, "register")
  /\ UNCHANGED <<row, embedded, locks, selected, overtaken>>

Register(t) ==
  /\ place[t] = "register" /\ opLock = Nobody
  /\ row' = IF row = "none" THEN record[t] ELSE row
  /\ Go(t, "idle")
  /\ UNCHANGED <<embedded, locks, record, selected, overtaken, modeBounds>>

-----------------------------------------------------------------------------
\* An exception, or the death of the process: the blocks are left, and what was
\* not committed is rolled back.
Abort(t) ==
  /\ place[t] # "idle" /\ Fault
  /\ repoLock' = IF repoLock = t THEN Nobody ELSE repoLock
  /\ opLock' = IF opLock = t THEN Nobody ELSE opLock
  /\ Go(t, "idle")
  /\ UNCHANGED <<row, embedded, record, selected, overtaken>>

Step(t) ==
  \/ ReadRecord(t) \/ Reconcile(t) \/ Drop(t)
  \/ EnterMutation(t) \/ ChangeFiles(t) \/ CheckSave(t) \/ CheckTimesOut(t) \/ Save(t)
  \/ Select(t) \/ LockBoth(t) \/ Embed(t) \/ CommitMode(t)
  \/ Install(t) \/ InstallWithout(t) \/ Compare(t) \/ CarryOver(t) \/ CarryPending(t) \/ FinishRestore(t)
  \/ Unregister(t) \/ Probe(t) \/ Register(t) \/ Abort(t)

ModeNext == \E t \in Callers : Step(t)

ModeSpec == ModeInit /\ [][ModeNext]_modeVars

-----------------------------------------------------------------------------
(* Properties *)

\* Every variable holds a value of its kind, and a lock is held exactly in its block.
ModeTypeOK ==
  /\ row \in Modes \cup {"none"} /\ embedded \in Modes
  /\ repoLock \in Callers \cup {Nobody} /\ opLock \in Callers \cup {Nobody}
  /\ place \in [Callers -> {"idle", "reconcile", "opened", "select", "installed", "carry",
                         "finish", "register"} \cup Mutating \cup Setting]
  /\ record \in [Callers -> Modes] /\ selected \in [Callers -> Modes]
  /\ overtaken \in SUBSET Callers
  /\ requests \in 0..MaxRequests /\ aborts \in 0..MaxAborts
  /\ \A t \in Callers :
       /\ repoLock = t <=> place[t] \in Mutating \cup Setting
       /\ opLock = t <=> place[t] \in Setting \cup {"installed", "carry", "finish"}

\* "This lets a mode transition linearize against in-flight mutations": a mutation
\* that has been let in changes files and saves only while both copies allow it,
\* unless a restore or an unregistration, which do not wait for it, overtook it.
WritesOnlyWhileWritable ==
  \A t \in Callers : place[t] \in Mutating => Writable \/ t \in overtaken

\* What the owner does through thread t to let the repository be written.
Loosens(t) ==
  /\ place'[t] # place[t]
  /\ \/ (place[t] \in Setting \cup {"carry"} \/ place'[t] = "installed") /\ selected'[t] = "rw"
     \/ place[t] = "register" /\ record[t] = "rw"

\* "An interrupted transition never creates accidental write authority": whatever
\* is interrupted, and however stale the records of open services are, a
\* repository becomes writable only by a step the owner asked for.
LoosenedOnlyByOwner ==
  [][~Writable /\ Writable' => \E t \in Callers : Loosens(t)]_modeVars

\* The scenario of a restore that does not wait: no write after read-only.
NoWriteAfterReadOnly ==
  \A t \in Callers : place[t] \in Mutating => Writable

\* The scenario of a stale record: only the owner withdraws what he granted.
WithdrawnOnlyByOwner ==
  [][Writable /\ ~Writable' =>
       \E t \in Callers : place[t] \in Setting \cup {"idle", "carry"}
                           /\ (place'[t] # place[t] \/ row' = "none")]_modeVars
=============================================================================
