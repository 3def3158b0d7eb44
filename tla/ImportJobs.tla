------------------------------ MODULE ImportJobs ------------------------------
(***************************************************************************)
(* Background jobs of jobs.py that import a folder as a new managed        *)
(* repository (create_managed_repository_from_local_folder of registry.py) *)
(* beside the owner, who cancels, removes rows, deletes and discards,      *)
(* beside deaths and starts of the owner's process, and beside a command   *)
(* of the CLI, which starts a registry of its own.                         *)
(*                                                                         *)
(* A job makes one repository, which has its name here.  The directory it  *)
(* is staged in, .importing-*, is its own; the place it moves to is chosen *)
(* under the registry's thread lock, which other processes do not see.     *)
(* What an import does inside its staging is RepositoryTransaction's.      *)
(***************************************************************************)
EXTENDS Naturals, FiniteSets

CONSTANTS
    Jobs,        \* the jobs, and the repositories that they make
    Places,      \* the names below managed-repositories
    Staging,     \* the staging directory of a job
    Nothing,     \* no job, no place
    Retained,    \* jobs that the history keeps
    Beside,      \* a command of the CLI may run beside the owner's process
    Hasty,       \* the owner may act on a repository while its job runs
    Faults,      \* which steps may fail
    MaxFaults,   \* bound: exceptions
    MaxCrashes   \* bound: deaths of the owner's process

FaultKinds == {"start", "step", "history", "rename", "registered", "undo", "remove"}

ASSUME Parameters ==
  /\ Nothing \notin Jobs \cup Places /\ Staging \notin Places
  /\ {Beside, Hasty} \subseteq BOOLEAN /\ Faults \subseteq FaultKinds
  /\ {Retained, MaxFaults, MaxCrashes} \subseteq Nat

VARIABLES
    job,      \* the jobs in memory: status, cancel flag, whether there is a result
    listed,   \* the jobs that the manager knows
    history,  \* operation-jobs.json: status and result of the jobs it lists
    task,     \* the thread of a job: where it is, and its local variables
    holder,   \* the thread that holds the registry's lock
    staged,   \* the jobs whose staging directory exists
    tree,     \* the repository at each place
    row,      \* the path that the registry has for a repository
    deleted,  \* repositories with a tombstone
    discard,  \* a discard between its two steps: the place it will erase
    command,  \* a command of the CLI: where it is, and what it has found
    up, faults, crashes

managerVars == <<job, listed, history>>
diskVars    == <<staged, tree, row, deleted>>
vars == <<managerVars, task, holder, diskVars, discard, command, up, faults, crashes>>

Ended    == {"completed", "failed", "cancelled"}
NewJob   == [status |-> "new", cancel |-> FALSE, result |-> FALSE]
NoTask   == [at |-> "none", place |-> Nothing, registered |-> FALSE, cancelled |-> FALSE]
NoScan   == [at |-> "none", found |-> {}, rows |-> {}]
Steps    == {"none", "starting", "staging", "importing", "snapshot", "choosing", "renaming",
             "registering", "activating", "reading", "returning",
             "unregistering", "erasing", "clearing", "reporting", "ended", "gone"}

\* Every variable keeps its type.
TypeOK ==
  /\ job \in [Jobs -> [status : Ended \cup {"new", "queued", "running"}, cancel : BOOLEAN, result : BOOLEAN]]
  /\ listed \subseteq Jobs /\ DOMAIN history \subseteq Jobs
  /\ task \in [Jobs -> [at : Steps, place : Places \cup {Nothing}, registered : BOOLEAN, cancelled : BOOLEAN]]
  /\ holder \in Jobs \cup {Nothing}
  /\ staged \subseteq Jobs /\ deleted \subseteq Jobs
  /\ tree \in [Places -> Jobs \cup {Nothing}]
  /\ row \in [Jobs -> Places \cup {Staging, Nothing}]
  /\ discard \in Places \cup {Nothing}
  /\ command.at \in {"none", "scan", "register", "done"}
  /\ up \in BOOLEAN /\ faults \in 0..MaxFaults /\ crashes \in 0..MaxCrashes

Init ==
  /\ job = [j \in Jobs |-> NewJob] /\ listed = {} /\ history = [j \in {} |-> NewJob]
  /\ task = [j \in Jobs |-> NoTask] /\ holder = Nothing
  /\ staged = {} /\ tree = [p \in Places |-> Nothing]
  /\ row = [j \in Jobs |-> Nothing] /\ deleted = {}
  /\ discard = Nothing /\ command = NoScan
  /\ up = TRUE /\ faults = 0 /\ crashes = 0

Works     == UNCHANGED faults
Raises(k) == k \in Faults /\ faults < MaxFaults /\ faults' = faults + 1

Done(j)   == job[j].status \in Ended
AtIn(j, s) == {p \in Places : tree[p] = j} \cup (IF j \in s THEN {Staging} ELSE {})
At(j)     == AtIn(j, staged)
Free      == {p \in Places : tree[p] = Nothing}

---------------------------------------------------------------------------
(* The manager of the jobs.  The whole history is written every time.      *)

Public(jobs, known) == [j \in known |-> [status |-> jobs[j].status, result |-> jobs[j].result]]

Persist == Works /\ history' = Public(job', listed')
PersistRaises(k) == Raises(k) /\ UNCHANGED history

\* Jobs that ended go when there are too many, the oldest first: which these
\* are the clock tells.
Trimmed(known) ==
  LET ended == {j \in known : Done(j)} IN
  {kept \in SUBSET known :
     /\ known \ kept \subseteq ended
     /\ Cardinality(kept) > Retained => kept \cap ended = {}
     /\ kept # known => Cardinality(kept) >= Retained}

\* A job whose history cannot be written stays queued and has no thread.
Start(j) ==
  /\ up /\ task[j].at = "none"
  /\ job' = [job EXCEPT ![j].status = "queued"]
  /\ listed' \in Trimmed(listed \cup {j})
  /\ \/ Persist /\ task' = [task EXCEPT ![j].at = "starting"]
     \/ PersistRaises("start") /\ UNCHANGED task
  /\ UNCHANGED <<holder, diskVars, discard, command, up, crashes>>

Cancel(j) ==
  /\ up /\ j \in listed /\ job[j].status \in {"queued", "running"} /\ ~job[j].cancel
  /\ job' = [job EXCEPT ![j].cancel = TRUE]
  /\ UNCHANGED listed
  /\ Persist \/ PersistRaises("history")
  /\ UNCHANGED <<task, holder, diskVars, discard, command, up, crashes>>

\* This is done before the try block: an exception ends the thread.
Begin(j) ==
  /\ task[j].at = "starting"
  /\ job' = [job EXCEPT ![j].status = "running"]
  /\ UNCHANGED listed
  /\ \/ Persist /\ task' = [task EXCEPT ![j].at = "staging"]
     \/ PersistRaises("start") /\ task' = [task EXCEPT ![j].at = "ended"]
  /\ UNCHANGED <<holder, diskVars, discard, command, up, crashes>>

\* The target returned.  Its result is kept also when a cancellation came too
\* late, or when the history then cannot be written and the job failed.
Return(j) ==
  /\ task[j].at = "returning"
  /\ job' = [job EXCEPT ![j].result = TRUE,
                        ![j].status = IF job[j].cancel THEN "cancelled" ELSE "completed"]
  /\ UNCHANGED listed
  /\ \/ Persist /\ task' = [task EXCEPT ![j].at = "ended"]
     \/ PersistRaises("history") /\ task' = [task EXCEPT ![j].at = "reporting"]
  /\ UNCHANGED <<holder, diskVars, discard, command, up, crashes>>

Report(j) ==
  /\ task[j].at = "reporting"
  /\ job' = [job EXCEPT ![j].status = IF task[j].cancelled THEN "cancelled" ELSE "failed"]
  /\ UNCHANGED listed
  /\ Persist \/ PersistRaises("history")
  /\ task' = [task EXCEPT ![j].at = "ended"]
  /\ UNCHANGED <<holder, diskVars, discard, command, up, crashes>>

---------------------------------------------------------------------------
(* The target: stage, import, snapshot, then move and register under the   *)
(* registry's lock.  An exception lets go of the lock.                     *)

Goes(j, to) == task' = [task EXCEPT ![j].at = to]

Throws(j) ==
  /\ task' = [task EXCEPT ![j].at = "unregistering"]
  /\ holder' = IF holder = j THEN Nothing ELSE holder

\* A repository with its identity, in a directory of its own.
Stage(j) ==
  /\ task[j].at = "staging"
  /\ \/ Works /\ Goes(j, "importing") /\ staged' = staged \cup {j} /\ UNCHANGED holder
     \/ Raises("step") /\ Throws(j) /\ staged' \in {staged, staged \cup {j}}
  /\ UNCHANGED <<managerVars, tree, row, deleted, discard, command, up, crashes>>

\* The flag is looked at before every file, and not once they are applied.
Import(j) ==
  /\ task[j].at = "importing"
  /\ \/ ~job[j].cancel /\ j \in staged /\ Works /\ Goes(j, "snapshot") /\ UNCHANGED holder
     \/ /\ job[j].cancel /\ Works /\ UNCHANGED holder
        /\ task' = [task EXCEPT ![j].at = "unregistering", ![j].cancelled = TRUE]
     \/ j \notin staged /\ Works /\ Throws(j)
     \/ Raises("step") /\ Throws(j)
  /\ UNCHANGED <<managerVars, diskVars, discard, command, up, crashes>>

Snapshot(j) ==
  /\ task[j].at = "snapshot"
  /\ \/ j \in staged /\ Works /\ Goes(j, "choosing") /\ UNCHANGED holder
     \/ j \notin staged /\ Works /\ Throws(j)
     \/ Raises("step") /\ Throws(j)
  /\ UNCHANGED <<managerVars, diskVars, discard, command, up, crashes>>

\* Variant: the place is chosen without the lock.
ChooseUnlocked(j) ==
  /\ task[j].at = "choosing"
  /\ \E p \in Free : task' = [task EXCEPT ![j].at = "renaming", ![j].place = p]
  /\ UNCHANGED <<managerVars, holder, diskVars, discard, command, up, faults, crashes>>

Choose(j) ==
  /\ task[j].at = "choosing" /\ holder = Nothing
  /\ holder' = j
  /\ \E p \in Free : task' = [task EXCEPT ![j].at = "renaming", ![j].place = p]
  /\ UNCHANGED <<managerVars, diskVars, discard, command, up, faults, crashes>>

\* A directory does not move onto another one.
Rename(j) ==
  LET p == task[j].place IN
  /\ task[j].at = "renaming"
  /\ \/ /\ j \in staged /\ p \in Free /\ Works /\ Goes(j, "registering") /\ UNCHANGED holder
        /\ staged' = staged \ {j} /\ tree' = [tree EXCEPT ![p] = j]
     \/ /\ j \notin staged \/ p \notin Free
        /\ Works /\ Throws(j) /\ UNCHANGED <<staged, tree>>
     \/ Raises("rename") /\ Throws(j) /\ UNCHANGED <<staged, tree>>
  /\ UNCHANGED <<managerVars, row, deleted, discard, command, up, crashes>>

\* A path or an identity that is registered is refused.  The tombstone is
\* cleared after the commit, when the caller does not know of the row yet.
Register(j) ==
  LET p == task[j].place
      registered == row[j] # Nothing \/ \E i \in Jobs : row[i] = p IN
  /\ task[j].at = "registering"
  /\ \/ /\ ~registered /\ Works /\ UNCHANGED holder
        /\ task' = [task EXCEPT ![j].at = "activating", ![j].registered = TRUE]
        /\ row' = [row EXCEPT ![j] = p]
     \/ registered /\ Works /\ Throws(j) /\ UNCHANGED row
     \/ Raises("step") /\ Throws(j) /\ UNCHANGED row
     \/ ~registered /\ Raises("registered") /\ Throws(j) /\ row' = [row EXCEPT ![j] = p]
  /\ UNCHANGED <<managerVars, staged, tree, deleted, discard, command, up, crashes>>

Activate(j) ==
  /\ task[j].at = "activating"
  /\ \/ Works /\ Goes(j, "reading") /\ holder' = IF holder = j THEN Nothing ELSE holder
     \/ Raises("step") /\ Throws(j)
  /\ UNCHANGED <<managerVars, diskVars, discard, command, up, crashes>>

\* The row is read again once the lock is free.
Read(j) ==
  /\ task[j].at = "reading"
  /\ \/ row[j] # Nothing /\ Works /\ Goes(j, "returning") /\ UNCHANGED holder
     \/ row[j] = Nothing /\ Works /\ Throws(j)
     \/ Raises("step") /\ Throws(j)
  /\ UNCHANGED <<managerVars, diskVars, discard, command, up, crashes>>

---------------------------------------------------------------------------
(* The handler of any exception of the target.                             *)

\* Variant: the row is not taken back.
UnregisterForgotten(j) ==
  /\ task[j].at = "unregistering" /\ Goes(j, "erasing")
  /\ UNCHANGED <<managerVars, holder, diskVars, discard, command, up, faults, crashes>>

\* An exception here is passed over.
Unregister(j) ==
  /\ task[j].at = "unregistering"
  /\ task[j].registered => holder = Nothing
  /\ Goes(j, "erasing")
  /\ \/ Works /\ row' = IF task[j].registered THEN [row EXCEPT ![j] = Nothing] ELSE row
     \/ task[j].registered /\ Raises("undo") /\ UNCHANGED row
  /\ UNCHANGED <<managerVars, holder, staged, tree, deleted, discard, command, up, crashes>>

\* Whatever is at the place is removed; errors are ignored.
Erase(j) ==
  LET p == task[j].place IN
  /\ task[j].at = "erasing" /\ Goes(j, "clearing")
  /\ \/ Works /\ tree' = IF p = Nothing THEN tree ELSE [tree EXCEPT ![p] = Nothing]
     \/ p # Nothing /\ Raises("remove") /\ UNCHANGED tree
  /\ UNCHANGED <<managerVars, holder, staged, row, deleted, discard, command, up, crashes>>

Clear(j) ==
  /\ task[j].at = "clearing" /\ Goes(j, "reporting")
  /\ \/ Works /\ staged' = staged \ {j}
     \/ j \in staged /\ Raises("remove") /\ UNCHANGED staged
  /\ UNCHANGED <<managerVars, holder, tree, row, deleted, discard, command, up, crashes>>

Runner(j) ==
  /\ up
  /\ \/ Begin(j) \/ Stage(j) \/ Import(j) \/ Snapshot(j)
     \/ Choose(j) \/ Rename(j) \/ Register(j) \/ Activate(j) \/ Read(j)
     \/ Unregister(j) \/ Erase(j) \/ Clear(j)
     \/ Return(j) \/ Report(j)

---------------------------------------------------------------------------
(* The owner.                                                              *)

Idle(j)     == task[j].at \in {"none", "ended", "gone"}
MayTouch(j) == up /\ holder = Nothing /\ row[j] \in Places /\ (Hasty \/ Idle(j))

\* Only the row goes.
RemoveRow(j) ==
  /\ MayTouch(j) /\ discard = Nothing
  /\ row' = [row EXCEPT ![j] = Nothing]
  /\ UNCHANGED <<managerVars, task, holder, staged, tree, deleted, discard, command, up, faults, crashes>>

\* The deletion of ManagedDeletion, as a whole.
Delete(j) ==
  /\ MayTouch(j) /\ tree[row[j]] = j /\ discard = Nothing
  /\ tree' = [tree EXCEPT ![row[j]] = Nothing]
  /\ row' = [row EXCEPT ![j] = Nothing] /\ deleted' = deleted \cup {j}
  /\ UNCHANGED <<managerVars, task, holder, staged, discard, command, up, faults, crashes>>

\* A discard takes the row and then the files, and makes no tombstone.
Discard(j) ==
  /\ MayTouch(j) /\ tree[row[j]] = j /\ discard = Nothing
  /\ row' = [row EXCEPT ![j] = Nothing] /\ discard' = row[j]
  /\ UNCHANGED <<managerVars, task, holder, staged, tree, deleted, command, up, faults, crashes>>

DiscardFiles ==
  /\ up /\ discard # Nothing /\ discard' = Nothing
  /\ \/ Works /\ tree' = [tree EXCEPT ![discard] = Nothing]
     \/ Raises("remove") /\ UNCHANGED tree
  /\ UNCHANGED <<managerVars, task, holder, staged, row, deleted, command, up, crashes>>

Owner == DiscardFiles \/ \E j \in Jobs : RemoveRow(j) \/ Delete(j) \/ Discard(j)

---------------------------------------------------------------------------
(* Deaths, starts, and the start of a registry by a command.               *)

Die ==
  /\ up /\ crashes < MaxCrashes /\ crashes' = crashes + 1
  /\ up' = FALSE /\ holder' = Nothing /\ discard' = Nothing
  /\ job' = [j \in Jobs |-> NewJob] /\ listed' = {}
  /\ task' = [j \in Jobs |-> IF task[j].at = "none" THEN NoTask ELSE [NoTask EXCEPT !.at = "gone"]]
  /\ UNCHANGED <<history, diskVars, command, faults>>

\* A repository without a row is registered, and one whose path has lost it is
\* relinked, where it was found: in one place only, that no other row has.
Discovered(found, rows, s) ==
  [j \in Jobs |->
     LET at     == {p \in AtIn(j, s) : <<j, p>> \in found}
         others == at \ {row[j]}
         missing == IF j \in rows THEN row[j] # Nothing /\ row[j] \notin AtIn(j, s)
                    ELSE row[j] = Nothing
         taken  == {row[i] : i \in Jobs \ {j}}
     IN IF j \notin deleted /\ missing /\ Cardinality(others) = 1 /\ others \cap taken = {}
        THEN CHOOSE p \in others : TRUE ELSE row[j]]

Found(s) == UNION {{<<j, p>> : p \in AtIn(j, s)} : j \in Jobs}
Rows == {j \in Jobs : row[j] # Nothing}

\* Variant: a job is taken as the history tells it.
LoadedAsTold(j) ==
  IF j \notin DOMAIN history THEN NewJob
  ELSE [status |-> history[j].status, cancel |-> FALSE, result |-> history[j].result]

Loaded(j) ==
  IF j \notin DOMAIN history THEN NewJob
  ELSE [status |-> IF history[j].status \in Ended THEN history[j].status ELSE "failed",
        cancel |-> FALSE, result |-> history[j].result]

\* Variant: the places are scanned before the staging directories go.
BootScansFirst ==
  /\ ~up /\ up' = TRUE /\ (Beside \/ command.at \in {"none", "done"})
  /\ Works /\ staged' = {}
  /\ row' = Discovered(Found(staged), Rows, staged)
  /\ listed' = DOMAIN history /\ job' = [j \in Jobs |-> Loaded(j)]
  /\ UNCHANGED <<history, task, holder, tree, deleted, discard, command, crashes>>

\* The staging directories go, the places are scanned, and jobs that had not
\* ended are told as failed.
Boot ==
  /\ ~up /\ up' = TRUE /\ (Beside \/ command.at \in {"none", "done"})
  /\ \/ Works /\ staged' = {}
     \/ staged # {} /\ Raises("remove") /\ UNCHANGED staged
  /\ row' = Discovered(Found(staged'), Rows, staged')
  /\ listed' = DOMAIN history /\ job' = [j \in Jobs |-> Loaded(j)]
  /\ UNCHANGED <<history, task, holder, tree, deleted, discard, command, crashes>>

\* The same cleaning and scan, in a process of its own.
CommandCleans ==
  /\ command.at = "none"
  /\ command' = [command EXCEPT !.at = "scan"]
  /\ staged' = {}
  /\ UNCHANGED <<managerVars, task, holder, tree, row, deleted, discard, up, faults, crashes>>

CommandScans ==
  /\ command.at = "scan"
  /\ command' = [at |-> "register", found |-> Found(staged), rows |-> Rows]
  /\ UNCHANGED <<managerVars, task, holder, diskVars, discard, up, faults, crashes>>

CommandRegisters ==
  /\ command.at = "register"
  /\ command' = [NoScan EXCEPT !.at = "done"]
  /\ row' = Discovered(command.found, command.rows, staged)
  /\ UNCHANGED <<managerVars, task, holder, staged, tree, deleted, discard, up, faults, crashes>>

Command == (Beside \/ ~up) /\ (CommandCleans \/ CommandScans \/ CommandRegisters)

---------------------------------------------------------------------------
(* The system.                                                             *)

Next ==
  \/ \E j \in Jobs : Start(j) \/ Cancel(j) \/ Runner(j)
  \/ Owner
  \/ Die \/ Boot
  \/ Command

Spec == Init /\ [][Next]_vars

\* A thread goes on and so does a command, and the owner starts ForgeTrace again.
Fairness == WF_vars(Boot) /\ WF_vars(DiscardFiles) /\ WF_vars(command.at # "none" /\ Command)
            /\ \A j \in Jobs : WF_vars(Runner(j))

FairSpec == Spec /\ Fairness

---------------------------------------------------------------------------
(* What the owner relies on.                                               *)

\* A job that ended without a result left nothing: no staging directory, no
\* tree, no row; whatever step it failed at and whenever it was cancelled.  One
\* that is told as completed has its result.
ResultsTell ==
  \A j \in Jobs : task[j].at = "ended" /\ Done(j) =>
    /\ ~job[j].result => At(j) = {} /\ row[j] = Nothing
    /\ job[j].status = "completed" => job[j].result

\* Every row of the registry stands for a repository that was imported to its
\* end and is at its path, also after a death between any two steps of an
\* import, of its undo or of a discard.
RowsHaveTheirTree ==
  \A j \in Jobs : row[j] # Nothing => row[j] \in Places /\ tree[row[j]] = j

\* The undo of an import erases nothing that is not its own: the place that it
\* chose is taken by nobody else.
UndoErasesItsOwn ==
  \A j \in Jobs : task[j].at = "erasing" /\ task[j].place # Nothing =>
    tree[task[j].place] \in {j, Nothing}

\* Every job ends, is told as failed by the next start, or goes with the oldest.
JobsEnd ==
  \A j \in Jobs : job[j].status \in {"queued", "running"} ~> up /\ (j \in listed => Done(j))

\* A cancelled job left no repository: not when the flag came after the files.
CancelledLeavesNothing ==
  \A j \in Jobs : task[j].at = "ended" /\ job[j].status = "cancelled" => row[j] = Nothing

\* Nobody removes the staging directory of an import that is running: not while
\* a command starts.
StagingIsKept ==
  \A j \in Jobs : task[j].at \in {"importing", "snapshot", "choosing", "renaming"} => j \in staged

\* A discard that took the row also erases the files: not when the process dies
\* in between, and the next start registers them again.
DiscardsEnd == \A p \in Places : discard = p ~> tree[p] = Nothing

=============================================================================
