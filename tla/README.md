# ForgeTrace verification

TLA+ models of ForgeTrace (`forgetrace/*.py`), the TLC runs that check small
instances of them, and TLAPS proofs about them. Source paths below are
relative to `src/`.

1. [The system](#1-the-system)
2. [Modules](#2-modules)
3. [Runs](#3-runs)
4. [Proofs](#4-proofs)
5. [Disagreements found](#5-disagreements-found)
6. [Limits](#6-limits)
7. [Plan](#7-plan)

## 1. The system

ForgeTrace is a local web application. One process (`app.py`, `web.py`) serves
an owner with request threads (`ThreadingHTTPServer`), background threads
(`jobs.py`) and, when sharing is on, a second server for contributors. Several
processes may share an application-data directory and the repositories in it.
Everything durable is a file or an SQLite database; a process may die at any
instruction.

| Component | State | Operations | Talks to |
|---|---|---|---|
| Filesystem transactions (`transactions.py`) | `.forgetrace/transactions/<id>`: `journal.json` (status, `stateRevisionBefore`, records), `before/` backups | construct, `capture`, `rollback`, `commit`, `recover_transactions` | the workspace; called by every mutation |
| Repository service (`repository.py`) | workspace, `state.json` (revision, commits, access mode), `objects/`, `repository.lock` | open (recovers), write, rename, delete, merge, restore, snapshot, `save_state`, `ensure_identity`, `set_embedded_access_mode`, `reconcile_access_mode` | transactions, locks, the registry (`access_mode_getter`) |
| Folder import (`importing.py`) | a plan and staged files | `build_folder_import_plan` (no lock), `apply_folder_import` | repository |
| Locks (`locks.py`) | thread lock, file lock, depth per thread | `acquire`, `release`, time-out of the file lock | everyone |
| Registry (`registry.py`) | SQLite `repositories` (path, access mode), deletion intents, journals, tombstones, staging | register, unregister, `set_access_mode`, `delete_managed_repository`, startup recovery | repository, locks |
| Registry restore (`registry_restore.py`) | restore journals, staged database, backups | preview, `restore`, `rollback`, `recover_startup` | registry, repository (embedded modes) |
| Background jobs (`jobs.py`) | job table, cancel events, history file | `start`, `update`, `cancel`, finish, load history | imports, backups |
| Git writes (`git_writes.py`) | previews, transaction roots, receipts, refs, index | preview, execute (stage, commit, branch, tag), rollback, startup recovery | Git, repository lock, ledger |
| Security ledger (`security_events.py`) | active database, segments, retention checkpoint, rotation journals, anchors | append, rotate, recover, anchor | every service that audits |
| Collaboration (`collaboration.py`) | invites, pull requests, staged uploads | invite, upload, submit, review, merge, close, clean up | repository, review, conflicts |
| Review conversations (`review_conversations.py`) | immutable revisions, threads with versions | capture, comment, resolve, reopen | collaboration |
| Conflict resolution (`conflict_resolution.py`) | drafts bound to revision, workspace digest, conflict set and version | prepare, decide, confirm, merge plan | collaboration, review |
| Coordination (`project_coordination.py`), boards (`project_boards.py`), releases (`releases.py`) | topics with versions, comments, milestones; boards and ranked cards; releases, asset rows and files | create, update, moderate, delete; add, move; add an asset, publish, export, clean up | invitations, ledger |
| Gateway, health, forks, Git intelligence, switch planner, web UI | none or derived | read, plan, present | all |

What is hard about it, and what makes each part correct:

* **Transactions and repository.** A crash at any step; a crash during the
  recovery of a crash; an exception before, in or after the save; cleanup that
  stops halfway; recovery that runs at open while mutations run later; an import
  that is planned before it takes the lock.
  Correct: the tree that the next open yields is at every instant the tree that
  the saved metadata describes, and changes only at a save.
* **Locks.** Reentrant thread locks wait for ever, file locks time out; three
  locks are nested in different orders. Correct: mutual exclusion of threads
  and processes, no circular wait.
* **Access mode.** It is kept in two places (registry row and `state.json`)
  that different operations change under different locks. Correct: nothing is
  written while one of them forbids it; a failure between the two writes never
  makes the repository writable.
* **Managed deletion.** A directory move, a database commit, a journal, an
  intent and a tombstone, with a crash between any two. Correct: registered and
  in place, or unregistered and gone; recovery never loses a registered
  repository.
* **Registry restore, Git writes, ledger rotation.** The same pattern: a
  journal, an installation step, and a startup that decides from what it finds.
  Correct: what was finished is not undone, what was not is undone in full, and
  the journal, receipt or chain says which.
* **Jobs and imports.** Cancellation races completion; an import stages, moves
  and registers, and undoes itself, while the owner removes, deletes and
  discards. Correct: a job ends, its outcome says what it left, and a row of the
  registry has its tree.
* **Collaboration.** The owner merges what was reviewed while contributors
  resubmit and the workspace moves. Correct: what is merged is what was
  approved, on the tree it was approved against.
* **Project records.** Windows and contributors change what they loaded a while ago;
  cards are ranked by floats between floats; files of a release are written and
  removed apart from their rows. Correct: nothing is changed over what was not seen,
  a card lands where it was dropped, what is published stays whole.

The hazards, each at its line, are in `PROJECT.json`.

## 2. Modules

| Module | Models | Kind |
|---|---|---|
| `AtomicRepository` | what a repository promises: tree, version and history change together | abstract specification |
| `RepositoryTransaction` | transactions, mutations, recovery at open, repository lock | detailed specification, refines `AtomicRepository` |
| `LockHierarchy` | the locks of `locks.py` and how every kind of request nests them | specification |
| `ManagedDeletion` | permanent deletion, its undo, its recovery, startup discovery | specification |
| `AccessMode` | the two copies of the access mode and who changes them | specification |
| `RegistryRestore` | backups, their retention, restore, rollback, startup recovery | specification |
| `GitWrites` | previews, transactional Git writes, rollback, receipts, recovery, beside the owner's own Git | specification |
| `SecurityLedger` | the chain of security events, policy, anchors, rotation with retention, its rollback and recovery | specification |
| `PullRequests` | the life of a pull request, its quarantine, revisions and review threads | component |
| `ConflictResolution` | the owner's drafts and the merge, composed with `PullRequests` and the repository | specification |
| `ImportJobs` | background jobs, the import of a folder as a repository, the owner, deaths, starts and CLI commands | specification |
| `ProjectRecords` | discussions, a board, a release, and who may change them | specification |
| `MC...` | small instances of those that need definitions for TLC | TLC |
| `RepositoryTransaction_proofs`, `ManagedDeletion_proofs`, `RegistryRestore_proofs`, `SecurityLedger_proofs`, `ConflictResolution_proofs`, `ProjectRecords_proofs`, `ImportJobs_proofs` | theorems about the module of that name | TLAPS |
| `WriteAccess_proofs` | theorems about `LockHierarchy`, `AccessMode` and `GitWrites`, which it extends together | TLAPS |

The modules meet at these places. `RepositoryTransaction` and `AccessMode` take
the repository's lock as one variable: that two threads never hold it at once,
across processes, is `Exclusion` of `LockHierarchy`. `RepositoryTransaction`
takes the access check of a mutation as given: `AccessMode` models it.
`ManagedDeletion` sees a mutation as a holder of the lock that needs its tree
in place: `RepositoryTransaction` models what it does there. `RegistryRestore` is
the journal around what `AccessMode` sees as `Install`. `GitWrites`,
`SecurityLedger`, `ConflictResolution` and `ImportJobs` hold one lock throughout an
operation, which is again `Exclusion`. The merge of `ConflictResolution` changes the
repository in one step: that it does is `CrashConsistent` of
`RepositoryTransaction`. So does the import of `ImportJobs` inside its staging
directory, and its deletion is the whole of `ManagedDeletion`.

A definition named "Variant" in a comment is a plausible bug (a guard dropped,
a step left out); putting it in place of the definition after it must break the
property that `PROJECT.json` names.

### RepositoryTransaction

| Variable | Code |
|---|---|
| `workspace` | the files or trees that operations take as a whole |
| `image` | the tree that `state.json`'s author meant: what the operation that saved last was to leave (a ghost: the code never stores it whole) |
| `commits`, `revision` | the fields of `state.json`; a snapshot is the tree its manifest names |
| `roots` | `.forgetrace/transactions/*`: the journal's status, its `stateRevisionBefore`, its records (`captured`) and `before/` (`backups`) |
| `lockOwner` | the holder of `repository.lock` |
| `pc`, `op` | where each request stands; the local variables of the lock's holder (state loaded, transaction, paths still to capture, clear, write, undo) |
| `imports` | the plan of each request that imports a folder: its destinations, and whether one of them existed when the plan was made |
| `faults` | bound on faults |

One action stands for one file operation or one decision: `Open`,
`RetainUnreadable`, `CleanCommitted`, `StartUndo`, `UndoRecord`, `FinishUndo`,
`Opened` are `recover_transactions` record by record; `Lock` to `Return` a
mutation; `Fail`, `UndoRecord`, `MarkRolledBack`, `FinishRollback`,
`RollbackWithoutRoot` the `except` clause. A crash (`Crash`) may fall between
any two, a torn tree (`Tear`) inside each recursive copy or removal.

The repository lock is *released between open and mutation*: `__init__`
recovers under the lock and lets it go, `mutation()` takes it again and does not
recover. The model keeps the gap (label `opened`); most of the argument is about
it.

An import is *planned before it takes the lock*: `build_folder_import_plan` looks for
one destination after the other (`PlanImport`, in the same gap), and
`apply_folder_import` (`BeginImport`) decides on the safety snapshot by what the plan says
and replaces what is there by then. A destination that exists stays in the plan under the
policy `overwrite` only; `skip` leaves it out, `rename` takes a free name, and an import that
`abort` refuses is `Close`.

The operations differ in plan, not in protocol. `Begin` takes the plan: what is
captured, removed first, written, and the resulting tree. Import and restore
interleave capture and change path by path; the rest capture everything first.

### LockHierarchy

`owner` and `fileOwner` are the two halves of an `InterProcessRLock`; its depth
is the number of times the lock occurs in `held`, the stack of the thread's
`with` blocks. `want` and `inside` are a thread in `acquire`, before and between
the two halves. `Nesting` lists, for every kind of request, the chains of
blocks it may be in, read off the code: a mutation whose access check asks the
registry, a mode transition, a merge, a Git write, a deletion of a directory
that exists or is missing, a restore. `TimeOut` is `LockUnavailable`: the thread
lock is given back and the request unwinds. The thread lock has no time-out.

The locks are: the deletion guard (`guard`; a new object for each call, so only
its file is shared), the collaboration store, the repository, Git writes, the
switch planner, the registry, and the registry's operation lock.

### ManagedDeletion

| Variable | Code |
|---|---|
| `row` | the registry's row: at the managed path (`home`), at the path of a preserved copy, or none |
| `home` | the tree under `managed-repositories`: `whole`, `broken` (metadata without all bytes), `hollow` (a directory made again), or absent |
| `staged`, `journals` | the staging directory and the journal of each deletion |
| `intent`, `tombstone` | the intent file, which makes the repository read-only, and the tombstone, which keeps discovery away |
| `guard`, `repoLock`, `opLock` | the three locks |
| `existed`, `moved` | local variables of `delete_managed_repository` |
| `listed`, `todo`, `current`, `retained` | locals and report of `recover_managed_repository_deletions` |
| `promised` | history: the registry committed a deletion and no registration followed |

A deletion runs in two locked blocks: validation and intent, then (after the
repository's lock was let go) move, journal, tombstone and commit. Each file
operation is an action, each may raise, and the owner's process may die between
any two; the next start lists the journals, decides by the registry's row, and
discovers what is left. `Gaps` names what the code does *not* shut out; a
scenario switches one on, and the pass run has none:
`reopen` (a service is built after its tree was moved), `missing` (deletion of a
repository whose directory is gone), `copy` and `unregister` (the owner registers
a copy, or removes the row, while a deletion has a journal). Section 5 says what
each leads to.

### AccessMode

`row` is `access_mode` in the registry, `embedded` is `accessMode` of
`state.json`. A mutation checks both when it enters and again before it saves
(`EnterMutation`, `CheckSave`); `set_access_mode` changes both under both locks
(`LockBoth`, `Embed`, `CommitMode`), where an exception or a death leaves the
embedded copy changed and the row not; `repository_service` reads the row and
tightens the copy later (`ReadRecord`, `Reconcile`); a restore replaces the row
and carries it over (`Install` to `FinishRestore`); a registration takes the
embedded mode (`Probe`, `Register`). `overtaken` records the mutations during
which the row was replaced or removed: neither waits for the repository's lock.

### RegistryRestore

| Variable | Code |
|---|---|
| `live`, `latest` | the logical digest of `registry.sqlite3`, as a version; the newest one there has been |
| `made`, `backups`, `content` | the files of `backups/`, in the order of their age, and what each holds |
| `journal`, `started` | `restore_*.json`: state, digests before and after, safety backup, `rollbackAvailable`, the rollback's state and backup |
| `preview` | what the owner was shown: backup, mode, live digest |
| `pc`, `current`, `safety`, `todo` | the operation in progress and its local variables |
| `later`, `unreported` | history, for the properties |

Every operation holds the registry's two locks from its first step to its last,
so one runs at a time and only a death interrupts it; each write of a journal and
each replacement of the database is an action. `StepFails` is the exception in
`restore`; `Undo`, `WriteFailed` its handler, whose own calls may raise
(`UndoFails`, `WriteFailedFails`). `Protected` is what retention leaves alone;
`MakeBackup` is `create_backup` with the pruning at its end. `Restart` is the next
start, `OpenByCommand` a CLI command that opens the registry. An operation whose
journal could not be written is `unreported`: the properties speak of the others,
and section 5 says what follows from those.

### GitWrites

| Variable | Code |
|---|---|
| `git` | the version of the index, of the branch (with HEAD and the reflogs) and of a new branch or tag; 0 is a missing file |
| `native` | `index.lock` and its like, or the files of a merge or rebase: every write refuses, every recovery waits |
| `previews` | the preview documents: the operation and the Git state it was shown for |
| `journal` | `transaction.json` of each transaction: status, captured files, their bytes |
| `receipt`, `audit` | the outcome in its receipt; the outcomes the ledger was told |
| `pc`, `current`, `doing`, `todo`, `memory`, `queue` | the operation in progress and the locals of `execute`, of the rollback and of the recovery |
| `author`, `undone`, `slipped`, `left` | history |

`Authorize` to `Finish` are `execute`, one step for each journal, receipt, audit
event and Git command; `CaptureFails` (outside the `try` block), `ApplyFails`
and `ReportFails` its exceptions; `PutBack` to `EndRollback` the rollback, record by
record; `Start` to `Started` `recover_pending_transactions`. `NativeState` and
`NativeWrite` are the owner's own Git, which takes none of ForgeTrace's locks and
may come between any two steps. The receipt and the audit can disagree with each
other and with the journal for as long as a death may fall between them; `ReceiptsTell`
says what the receipt must never say. `left` marks the journals that stay
unfinished while the process goes on: `CommittedWritesStand` and `JournalsEnd`
speak of the rest, and section 5 says what follows from those.

### SecurityLedger

| Variable | Code |
|---|---|
| `active` | the active database: the segment, root and hash it is bound to, and its rows |
| `segments`, `root` | the sealed segments and the retention root |
| `policy`, `anchors`, `receipts` | the files of the protected operations |
| `journal`, `backups` | the journal of each rotation with what it will install, and the parts of its directory that are still there |
| `pc`, `doing`, `current`, `queue` | the operation in progress |
| `compromised` | the flag that blocks appends |
| `told`, `left` | history: events the program was told are recorded; a rollback failed |

A hash is the chain it stands for, so `Healthy` is `verify_integrity`: root,
segments and database continue one another. `Record` is `append`; `Authorize`,
`WriteFile`, `Confirm` the protected operations, which append before and after;
`Prepare` to `TellCompleted` the rotation, one replaced file at a time;
`RestoreActive` to `WriteRolledBack` its rollback, by the handler or by `Start`.
`StepFails` also stands after the backups went, which is where the rollback finds
them missing.

### PullRequests and ConflictResolution

| Variable | Code |
|---|---|
| `pr` | the row of the pull request: status and revision |
| `base`, `change`, `staged` | its baseline manifest, its rows of files and deletions, the bytes in its quarantine |
| `revisions`, `evidence` | rows and directories of the submitted revisions |
| `threads` | revision, state and version of each review thread |
| `invited`, `writable`, `tree` | the invitation, the repository's access mode and files |
| `draft`, `resolved` | the newest conflict draft of each path (status, decision, binding) and its `resolved.bin` |
| `merges` | how often the repository took the pull request |

A request runs under the collaboration store's lock and is one transaction of its
database, so it is one action; what it does to *files* before the transaction is
not undone by it. Each action that touches a file has therefore a second outcome
(`Fails`), the exception or the death in between: bytes staged without a row, a
revision's directory without a row, a decision's bytes without the decision, and a
repository that was merged while its pull request was not. `Merge` composes both
stores. `Gate` and `Binding` are what a draft is bound to: if a thread, a file or the
access mode changes, the draft is stale (`IsFresh`), and `Viewed` marks it.
`PullRequests` has no `Next` of its own: `ConflictResolution` says what becomes of the
drafts in each of its actions.

### ImportJobs

| Variable | Code |
|---|---|
| `job`, `listed` | the jobs in memory: status, cancel flag, whether there is a result |
| `history` | `operation-jobs.json` |
| `task` | the thread of a job: where it is, its `final_path`, whether it registered |
| `holder` | the registry's thread lock, which other processes do not see |
| `staged`, `tree` | `.importing-*` directories; the repository at each place |
| `row`, `deleted` | rows of the registry; tombstones |
| `discard` | a discard between the removal of its row and of its files |
| `command` | a CLI command: where its registry's constructor is, what it has found |

`Start`, `Cancel`, `Begin`, `Return`, `Report` are the manager, `Stage` to `Read`
the import, `Unregister`, `Erase`, `Clear` its handler, which takes whatever is at
`final_path`. `RemoveRow`, `Delete`, `Discard`, `DiscardFiles` are the owner, `Die`
and `Boot` deaths and starts, `CommandCleans` to `CommandRegisters` the same
cleaning and discovery in the process of a command. Two constants open what the
code does not shut out: with `Beside` a command runs beside the owner's process, with
`Hasty` the owner acts on a repository while its job still reads it back. `Faults`
names the steps that may fail: the start of a job, a step of the target, a write of
the history, the move, the clearing of the tombstone after the row was committed,
the handler's removal of the row, a removal of files.

### ProjectRecords

| Variable | Code |
|---|---|
| `topic`, `comment`, `milestone` | rows of `project_topics`, `project_comments`, `project_milestones` |
| `seen` | what a window of the owner has loaded (`get_topic`): the row and then the comments |
| `board`, `card` | what contributors may do; column and rank of each card |
| `release`, `rows`, `files` | row of the release, rows and files of its assets |
| `busy` | the request that holds the releases' lock with files changed and rows not committed |
| `recorded` | whether the publication is in the ledger |
| `export` | an export between its reads |
| `permitted`, `admitted`, `ledger` | the invitation, the requests it has let in, whether the ledger takes events |
| `area` | the database in use: no request changes two of them |

Requests of the first two databases hold a lock and are one transaction, so one
action each. A contributor's request is two: `Admit` looks at the invitation
(`project_participant`) before the lock is taken, the operation follows; so `Revoke` may
come in between. `Protected` requests ask the ledger first. `WriteAsset` and
`CommitAsset`, and `BeginCleaning` to `CommitCleaning`, are `add_asset_base64` and
`cleanup_retention`, whose files come apart from their rows (`Die`); `Publish` and
`RecordPublication` are the commit and the event after it; `BeginExport` and
`PackExport` the two reads of `export_release`, which takes no lock. `LastRank` and
`RankBefore` are the queries of `_move_card`, in units of a float's precision.

## 3. Runs

| Run | Instance | Shows |
|---|---|---|
| `repository` | 2 threads in 1 process; 2 paths, 2 contents, 3 transaction names; 2 faults of crash or exception | mutations are atomic on disk: `CrashConsistent`, the refinement of `AtomicRepository`, snapshots record saved trees, what a merge overwrites is snapshotted, and what an import overwrites if its plan foresaw an overwrite |
| `all_faults` | 2 processes, every fault and restore, 1 path | every path out of a mutation frees the lock (`LockIsReleased`) |
| `lock_hierarchy` | 3 threads in 2 processes, 2 requests of 3 kinds, a crash | exclusion, no ring of waits, every wait ends |
| `deletion` | 2 deletions, 1 writer, 2 exceptions, 2 deaths, 1 row removed or copy registered | a deletion happens whole or not at all, and ends |
| `access_mode` | 3 threads, 5 requests, 2 exceptions or deaths | nothing is written while a copy forbids it; only the owner loosens |
| `registry_restore` | 3 versions, 4 backups of which 2 unprotected are kept, 1 restore and its rollback, 2 exceptions, 2 deaths | the registry is the old or the new one, as the journal says; what a rollback needs is kept; later work is not erased; every restore ends |
| `git_writes` | 2 transactions, 2 versions of the index, 1 act of the owner's Git, 2 exceptions, 1 death | receipts tell what is in Git, no rollback or recovery undoes a later write, every journal ends |
| `security_ledger` | 6 events, 2 rotations, 2 policies, 1 anchor, 2 exceptions, 1 death | the chain verifies, recorded events and published heads stay on it, every rotation ends |
| `conflict_resolution` | 1 path, 2 contents, 1 thread, 5 revisions, 2 merges, 1 request that fails or dies | approvals are clean, submissions are kept, a merge writes what was decided and overwrites nothing unseen |
| `import_jobs` | 2 jobs, 2 places, a history of 1, 2 exceptions in steps and reports, 2 deaths, a command while ForgeTrace is stopped | outcomes tell what was left, rows have their tree, an undo erases its own, every job ends |
| `project_records` | 2 windows, a contributor, 1 comment; 3 cards, 2 columns; 2 assets, 1 death; 6 requests | nothing is changed over what was not seen, cards land where they were dropped, what is published stays whole |
| `stale_draft_stays` | the instance of `conflict_resolution` | violation, section 5 |

**Bounds.** `MaxRevision` 4 lets two or three mutations follow each other, and
one more after a fault, which is what the hazards need: an operation that fails,
its recovery, and an operation that builds on the outcome. Two paths tell a path
that is captured from one that is not, and a rename's source from its target.
Three transaction names leave room for an unreadable directory, a live one and a
new one together. Two faults give a crash during the recovery of a crash.
In `lock_hierarchy` a ring needs as many requests as members; the orders of the
chains are pairwise, so two requests, the third thread being a bystander in
either process, show every ring of two; longer ones are excluded by the proof.
In `deletion` two deletions are a retry of a deletion that failed, or two at
once; two exceptions a failure and a failing undo; two deaths a death during
recovery. In `access_mode` five requests are a service kept open, a transition, a
restore, a registration and a mutation. In `registry_restore` three versions tell the
registry before the restore from the one after it and from later work; of four
backups at least one is pruned unless it is protected; two exceptions are a failure and a failing
undo, two deaths a death during the recovery. In `git_writes` two transactions are a
write and a later one, which a recovery could undo; two exceptions a failure and a
failing rollback. In `security_ledger` six events fill three segments' worth: a
rotation deletes one segment and keeps another, and a second one follows it; policy 2
deletes what policy 6 keeps. In `conflict_resolution` five revisions are two
submissions with edits before, between and after them, and a thread of the first can
still be written to in the second; two merges are one that died before it was
recorded and its retry; paths do not interact, as conflict, decision and staleness are
per path, except that a merge is refused for any of them. In `import_jobs` two jobs
compete for a place, for the lock and for the history; two exceptions are a failure
and its report's, two deaths one in the import and one in what the next start made of
it. In `project_records` six requests are three cards and three moves, one more than a
rank between two moved cards needs, or a discussion, its milestone and comment and three
changes of them from two windows; `Gap` 64 can be halved six times.

Symmetry is over paths, transaction names, contents, windows, columns or assets, or over
threads that do the same;
these are only compared for equality. No run with a liveness property uses it.
The sums of requests, faults and deaths are capped by the guards; the runs of
all modules but `RepositoryTransaction` switch deadlock checking off because the system
may rest when they are used up. `RepositoryTransaction` never deadlocks.

`LocksTypeOK` of `LockHierarchy` is in its run, as it also says that the locks know their
owners. The other modules define `TypeOK` (`AccessMode`: `ModeTypeOK`) too, and it is
proved for every one of them; add it as an `INVARIANT` to a configuration to see it checked.

**Fairness.** `FairSpec` assumes weak fairness of what a thread does by itself:
a running thread is scheduled.

* `RepositoryTransaction`: the steps of the holder of the lock. Nothing is
  assumed of `Open`, `Lock`, `Close`: a request need not arrive and a wait may
  time out.
* `LockHierarchy`: the steps of each thread. A file that stays locked times out,
  which is `FileLock.acquire`'s deadline; a thread lock that stays taken does not,
  so `WaitsEnd` depends on the order of the locks alone.
* `ManagedDeletion`: each deletion and each writer, and the start of the owner's
  process: an owner whose process died starts it again. `IntentsEnd` would be
  false without the latter, as only a start removes the intent of a dead one. A
  deletion or a recovery that reports a failure has kept its promise: the property
  allows for it.
* `RegistryRestore`, `GitWrites`, `SecurityLedger`: the steps of the operation in
  progress and the next start. The owner need not ask for anything.
* `ImportJobs`: the thread of each job, a command that runs, the removal of a discard's
  files, and the next start.
* `ConflictResolution`, `ProjectRecords`: none, their properties are about safety.

### Further scenarios

Configurations that replay a scenario or another instance, run by hand as
`tlc -config X.cfg Module`:

| Configuration | Module | |
|---|---|---|
| `RepositoryRestore` | `MCRepositoryTransaction` | 2 processes, no fault: a restore lands exactly on the snapshot and starts from the saved tree (holds) |
| `RepositoryFailedUndo` | `MCRepositoryTransaction` | 1 thread, 3 faults, failing undo: undo is idempotent (holds) |
| `RepositoryTwoProcesses` | `MCRepositoryTransaction` | 2 processes, exceptions: the gap between open and lock is harmless if every rollback ends (holds) |
| `ImportRace` | `MCRepositoryTransaction` | 1 process, no fault: violates `ImportsAreSnapshotted` |
| `RestoreUncaptured`, `LateFailure`, `StaleOpen`, `TornCleanup` | `MCRepositoryTransaction` | violate `CapturesBeforeChanging`, `CrashConsistent`, `MutationsStartFromSavedTree`, `CrashConsistent` |
| `RestoreAgainstMutation`, `DeleteMissing` | `MCLockHierarchy` | violate `NoCircularWait` |
| `RecoveryByCommand`, `LateOpener` | `MCManagedDeletion` | violate `DeletedStaysDeleted`, `UndeletedBytesAreKept` |
| `DeleteOfMissing`, `PreservedCopy` | `MCManagedDeletion` | violate `MutationExcludesMove`, `BytesReturnToTheirRow` |
| `RestoreOvertakes`, `StaleRecord` | `MCAccessMode` | violate `NoWriteAfterReadOnly`, `WithdrawnOnlyByOwner` |
| `TwoRestores` | `RegistryRestore` | 2 restores, no death (holds) |
| `ChosenBackup`, `DeathDuringRollback` | `RegistryRestore` | violate `ChosenBackupStays`, `RollbacksAreFinished` |

Others are a run's configuration with one property and other constants:

| Configuration | Change | Violates |
|---|---|---|
| `RegistryRestore` | `Faults = {"step", "report"}`, `Keep = 3`, `MaxBackups = 3`, `MaxCrashes = 1` | `LaterWorkIsAlwaysKept` |
| `RegistryRestore` | `Faults = {"report"}`, `Keep = 3`, `MaxBackups = 3`, `MaxFaults = 1`, `MaxCrashes = 0` | `JournalsAlwaysTell` |
| `GitWrites` | `Spec`, `Faults = {"capture"}`, `MaxFaults = 1`, `MaxNative = 0` | `CommittedWritesAlwaysStand` |
| `GitWrites` | `Spec`, `Faults = {"report"}`, `MaxFaults = 1`, `MaxNative = 0` | `ReceiptsAlwaysTell` |
| `GitWrites` | `Spec`, `Faults = {}`, `MaxNative = 0` | `LedgerAgrees` |
| `GitWrites` | `Spec`, `Faults = {}` | `NativeWorkStands` |
| `SecurityLedger` | | `EventsAlwaysStay` |
| `SecurityLedger` | `Faults = {"append"}` | `RotationsAlwaysEnd` |
| `SecurityLedger` | `Faults = {"append", "remove"}` | `ChainAlwaysVerifies` |
| `ConflictResolution` | | `MergesAreRecorded`, `DecisionsStayReadable` |
| `ProjectRecords` | | `AcceptedIsVisible`, `RevokedStaysOut`, `PublicationsAreRecorded`, `ExportsAgree` |
| `ProjectRecords` | `Gap = 1` | `MovesLand` |
| `ImportJobs` | | `CancelledLeavesNothing`, `DiscardsEnd` |
| `ImportJobs` | `Faults = {"step", "rename", "history"}` | `UndoErasesItsOwn` |
| `ImportJobs` | `Beside = TRUE` | `StagingIsKept` |
| `ImportJobs` | `Hasty = TRUE` | `UndoErasesItsOwn` |
| `ImportJobs` | `Faults` with `"start"` | `JobsEnd` |
| `ImportJobs` | `Faults = {"registered", "history"}` or `{"remove", "history"}` | `RowsHaveTheirTree` |

## 4. Proofs

All are for any sets of threads, processes, paths and names and for any bounds.

`RepositoryTransaction_proofs` proves `TypeCorrect: Spec => []TypeOK` with no
assumption beyond those of the constants. `TypeOK` contains the two control
facts that typing rests on: a thread inside a `with` block owns the lock, and
whoever has records to undo has a transaction in hand.

It also proves

* `CrashConsistency`: `Spec => []CrashConsistent`,
* `StartFromSavedTree`: `Spec => []MutationsStartFromSavedTree`,
* `SnapshotsAreSavedTrees`: `Spec => SnapshotsRecordSavedTrees`,

under `SafeSetting`: no restore, no failure after the save, no torn cleanup, and
either one thread, or one process whose undo does not fail, or neither crash nor
failing undo. This is not a convenience: outside it TLC finds the counterexamples
of section 5. The run `repository` is inside it.

The properties are not inductive. `CrashConsistent` looks at the disk only; that
a step keeps it depends on who will touch the disk next. The invariant `IInv`
adds, each part named in the module:

* `OneIsLive`, `LiveRestores`, `QuietIsSaved` (the disk): at most one journal
  would be undone; undoing it gives the saved tree, and without it the
  workspace is the saved tree;
* `LiveIsInHand`: that journal belongs to the mutation that holds the lock, or
  nobody has an opened service, and whoever recovers has it before him. This
  closes the gap between open and lock, and is what `SafeSetting` is for;
* `LoadedIsCurrent`, `WorkIsCovered`: a mutation's loaded revision is current
  (so its journal is live until its save and dead after it), and what it has
  not yet changed or captured is as it should become;
* `RecordsAgree`, `SavedIsDone`, `UndoneIsSaved`: the object in memory and the
  journal agree; nothing is undone after a save; what is undone is as saved.

Each action has a lemma (`CaptureKeeps`, `SaveKeeps`, ...) showing that it keeps
`IInv`; `InvStep` collects them.

In the same setting it proves the refinement, `MutationsAreAtomic: Spec =>
ImplementsAtomicRepository`. `DiskIsSaved` says that by `IInv` the abstract tree
(`TreeOnDisk`, what the next open would leave) is the ghost `image`; so a step is
an abstract step only if it changes `image`, the revision or the commits, which
`OnlySavesSave` finds to be a save or a snapshot. `PlanInv` keeps, from the begin of
a mutation to its save, that its target is one that an operation of its kind makes of
the saved tree (`Plans`), so `SaveMaps` finds the abstract operation; `SnapshotMaps`
does the same for snapshots. `OverwritesAreRecorded: Spec => OverwritesAreSnapshotted` follows
from `PlanInv`, which also keeps that whoever got past the safety snapshot has the tree
that it will replace in the history (`ProtectedIsRecorded`, `OverwriteIsRecorded`). Of an import it
says nothing when the plan foresaw no overwrite: such an import begins on whatever is
there, and the abstract `Import` therefore deletes nothing but may replace what no snapshot
has.
`ChangesAreCaptured: Spec => CapturesBeforeChanging` follows from `WorkIsCovered`.

`WriteAccess_proofs` extends three modules, whose specifications are `LocksSpec`,
`ModeSpec` and `Spec`, and has a part for each.

*The locks.* `LockTypesCorrect`, `MutualExclusion: LocksSpec => []Exclusion`, and `NoRing`:
if no request is a restore or a deletion of a missing repository, no ring of waits ever
forms. `LocksTypeOK` says that the owners of the two halves are the threads in the blocks;
the invariant adds that a wanted lock is on a chain of `Nesting` (`WantsAreNested`) and that
thread locks have owners in their own process (`OwnersAreLocal`). `Rank` orders the locks,
`NestingOrdered` checks the chains against it, and in a ring the thread that owns the
highest lock would want a higher one. The two excluded kinds are those TLC finds rings
with.

*The access mode.* `ModeTypesCorrect`, `MutationsAreAllowed: ModeSpec =>
[]WritesOnlyWhileWritable` and `OwnerLoosens: ModeSpec => LoosenedOnlyByOwner`.
`ModeTypeOK`, which says in which blocks the two locks are held, is strong enough to
carry both: a transition and a carry-over need the repository's lock, so they
change nothing under a mutation, and `Reconcile` only tightens.

*The Git writes.* `GitTypesCorrect: Spec => []TypeOK`, `ReceiptsAreTrue: Spec =>
[]ReceiptsTell` and `CommittedWritesStay: Spec => CommittedWritesStand`, with no assumption
beyond those of the constants: for any transactions, versions, acts of the owner's Git,
raising calls and deaths. None of the three is inductive. A receipt is written several
steps after what it tells was settled, and in the case of `FinishTerminal` by another
process, so `ReceiptIsFinal` tracks what journal, receipt and the status in memory say of one
another: nothing that is unfinished has a receipt, and a rollback starts from a committed
status only if the terminal writes raised (`slipped`). `WritesAreCaptured` says that what a
transaction wrote is in its journal, so that a rollback that has gone through the journal
has left nothing. For `CommittedWritesStay` that is not enough: a rollback writes the captured
bytes over whatever is there. `Alone` says, while no journal was left behind, that at most one
transaction is `Open` (it may still be put back) and who will come to it (`OneOpen`), and that
whatever a transaction other than the open one made of a file the open one captured is what
was captured (`CapturedStands`): putting back does not change it. Where a journal was left
behind both fail, which is section 5's `CommittedWritesAlwaysStand`.

`ManagedDeletion_proofs` proves `TypeCorrect: Spec => []TypeOK` with every gap open
and with commands beside the owner, and under `Sheltered` (no gap, no command)
`UndeletedBytesStay`, `DeletionsStay`, `StagedBytesAreKnown`,
`MutationsKeepTheirTree` and `ReturnsAreRegistered`, one for each safety property of the
run `deletion`. `Sheltered` is again what is true: with the gap `copy` TLC finds
`BytesReturnToTheirRow` violated, with `unregister` `UndeletedBytesAreKept`, with
`reopen` that and `NoOrphanStaging`, with `missing` or a command every one of the four
invariants. No single property is inductive: that a recovery
may move bytes back depends on the row, that the row tells depends on who is between
the move and the commit. `IInv` says where the bytes are and who knows them
(`BytesAreSomewhere`), what the row tells of the journals (`RowTells`), what each
step of a deletion and of a recovery may rely on (`DeletionKnows`, `RecoveryKnows`),
and that a start is alone (`StartsAlone`). The move needs the tree that was validated
in the *first* locked block; it is still there in the second because the intent shuts out
writers (`MutationExcludesMove` is part of the induction) and the guard other deletions.

`RegistryRestore_proofs` proves `TypeCorrect`, `RollbacksArePossible`,
`LaterWorkStays` and `JournalsAreTrue`, one for each safety property of its run, with no
assumption beyond those of the constants: for any number of backups and whatever retention
keeps. A backup that is needed is one of `Protected`, so pruning passes it by, and the
one backup that is needed before it is in a journal is the newest. `InProgress` says what
the journal and the database are at each step of a restore, a rollback and a recovery;
`UnfinishedInHand` that at most one journal is unfinished, and somebody works on it or
will; `LaterIsApart` that later work is not what any journal installed, so that a rollback,
which compares the digests, refuses. The last two hold while every operation could write
how it ended (`~unreported`); section 5 (16, 17) shows what happens otherwise.

`SecurityLedger_proofs` proves `TypeCorrect`, `ChainAlwaysVerifiable: Spec => []ChainVerifies`,
`RecordedEventsStay: Spec => []EventsStay` and `AnchoredHeadsHold: Spec => []AnchorsHold`, for
any policies, events, rotations, kinds of fault, faults and deaths. The properties speak of
the moments when nothing is in progress; that they hold then depends on every
half-installed rotation before. `ChainStaysWhole` is the induction: unless a rollback failed
(`~left`), `Sound` holds. It says that the events are in the chain in the order they were made
(`Numbered`, and so old heads are prefixes: `AnchorsAreOld`); that at most one rotation is
incomplete and who works on it or will (`OneIncomplete`); that whenever none is, the chain is
`Healthy`; and that of an incomplete one everything its rollback takes is still there and is a
healthy chain in itself (`Undoable`, by `Chained`, which is `Healthy` of parts that are not
installed), and how far the rollback came (`UndoneSoFar`). `Undoable` does not depend on how
many of the three replacements happened, so a death between any two needs no case of its
own. `PrepareSound` is where a plan is sound because the chain was healthy before;
`FinishedSound` where the whole plan is installed; `UndoneVerifies` where all of it is put back.
`HealthyCovers` says that the chain leaves no event out: one of the tip that is in no segment and
not before the retention root would be in the past of a segment, and of the one with the
shortest past the links have nothing left to follow.

`ConflictResolution_proofs` proves `TypeCorrect`, `ApprovalsClean`,
`SubmissionsKept`, `NothingUnseen` and `MergesDecided`, with no assumption beyond those of
the constants. `IInv` adds to the properties that revisions and threads are not newer than the
pull request's (`RevisionsAreOld`, `ThreadsAreOld`: what a failed submission left is in
nobody's way) and that a confirmed draft has a decision (`ConfirmedIsDecided`). The rest is
in the guard of the merge, which looks at the tree, the threads and the draft's binding
under one lock.

`ProjectRecords_proofs` proves `TypeCorrect`, `PublicationsStay`, `UpdatesAreSeen` and
`CardsLand`. `VersionsTell`: a window that has the current version has the current
row and comments, also if it loaded the two at different times. `PublicationStands`: what is
published is nobody's work in progress. `CardsLand` is about ranks, which are integers in
units of a float's precision: it holds for any `Gap` that can be halved once for each
request (`Halvings` lists the halves), as each move halves at most one distance;
floats halve a distance of 1000 some fifty times, and section 5 (41) says what comes after.
`RanksApart` and `RanksFit` say that the cards of a column have different ranks, all multiples
of what is left of the distance. The neighbour a card is dropped next to is found by
`LeastNatural`, the least element of a set of numbers.

`ImportJobs_proofs` proves `TypeCorrect` for every setting; `UndoErasesOwn` under `Quiet`
(no command beside the owner, no owner who acts on a repository while its job runs, and a
move to a chosen place that does not fail); `RowsAreBacked` and `ResultsAreTrue` under
`Sheltered` (and no failure after the row's commit, in the handler, or in a removal). Exceptions
of every other step, of the history and of a job's start, deaths, starts, deletions and discards
remain. Every part of `Quiet` is needed for `UndoErasesItsOwn` and every part of `Sheltered`
for `RowsHaveTheirTree`: with any one of them given up TLC finds it violated; `ResultsTell` needs
the parts that `Sheltered` adds, and that no command runs beside. `PInv` is about
places: a thread has the only tree of its repository, at the place in its variables
(`OwnPlace`); one that is about to move has the registry's lock and a free place; what is being
discarded is of a job that ended. `RInv` is about rows: a job that has not registered has no
row, none is left when its tree is erased, and a command on its way to registering what
it found runs while the owner does not and no staging directory exists. `OnlyOwn` and `NotYetClean`
are the frames: what a step of one thread does not change for the others.

Every safety property that a run checks is a theorem. Model-checked only: the liveness
properties, as the provers do not reach `ENABLED`; what the hypotheses above leave out; and
the scenarios of section 3, which are counterexamples.

## 5. Disagreements found

`StaleDraftStays` (18) is a violation run, the others are configurations of section 3;
the trace of each is the scenario.

1. `RestoreUncaptured`: `restore_commit` copies names of the snapshot that the
   workspace lacks without capturing them (`repository.py:1436`), against
   "captures every path before it is changed" (`transactions.py:16`).
2. `LateFailure`: an exception between `save_state` and the end of the `try`
   rolls files back under metadata that stays (`repository.py:814-818`).
3. `StaleOpen`: `mutation()` does not recover. A service opened before another
   process crashed works on a half-applied tree, and its save raises the
   revision, so the crashed journal then counts as committed.
4. `RestoreAgainstMutation`: a restore holds the registry's locks and waits for
   the repository's; a mutation holds that one and asks the registry for the
   mode. In one process both wait on thread locks, for ever.
5. `RecoveryByCommand`: a command of the CLI recovers the journals of the
   deletions that the owner's process is performing.
6. `LateOpener`: a service built after its tree was moved makes the directory
   again; the undo of the deletion then leaves the staged tree without a journal.
7. `TornCleanup`: recovery ignores the status `rolled_back`; a directory half
   removed by `rmtree(ignore_errors=True)` is undone again without backups.
8. `DeleteMissing`: the deletion of a missing repository takes the operation lock
   before the registry's, the reverse of every registry update.
9. `DeleteOfMissing`: the same deletion does not hold the repository's lock when
   the directory is back, and moves it away under a mutation.
10. `PreservedCopy`: the row of a copy, registered while the bytes of a committed
    deletion are staged, makes the next start put those bytes back.
11. `Gaps = {"unregister"}`: the row is removed while a deletion is being undone,
    the process dies, and the start erases files that were only unregistered.
12. `RestoreOvertakes`: a restore makes a repository read-only under a mutation
    that was let in before, and whose save may have been checked already.
13. `StaleRecord`: a service that read the mode before the owner loosened it
    tightens the embedded copy again. It fails closed; the owner's grant is lost
    until he applies it again.
14. `ChosenBackup`: `restore` makes its safety backup after the choice was checked,
    and the pruning at the end of `create_backup` may remove the chosen backup, the
    oldest (`registry.py:1844`), against "a backup cannot disappear after restore
    validation has begun" (`registry.py:1855`). The restore then fails before it
    changes anything.
15. `DeathDuringRollback`: startup looks at unfinished restores only
    (`registry_restore.py:1222`). A process that dies while it rolls a completed one
    back leaves the journal `installing` for ever; its backup stays protected.
16. `LaterWorkIsAlwaysKept`: the handler's own write raises after the undo; the journal stays
    unfinished while the owner works on, and the next start restores the backup over
    that work.
17. `JournalsAlwaysTell`: the write that ends a rollback raises after the journal in
    memory said `rolled_back`; the rollback is undone and that state is then written
    (`registry_restore.py:1159`, `1191`).
18. `StaleDraftStays`: a draft that a view marked stale while a thread was open, or
    while other files were there, and whose binding is back, is not replaced by
    preparing (`conflict_resolution.py:815-819` look at the reasons only), and nothing
    accepts it, against "prepares missing current drafts" (`docs/API_V1.md:111`).
19. `StagingIsKept`: a command of the CLI builds a registry beside the owner's process,
    and its constructor removes the `.importing-*` directory of a running import
    (`registry.py:156`, `948-957`), which are "safe to remove at process startup"
    (`registry.py:920-922`).
20. `CommittedWritesAlwaysStand`: what is captured before the `try` block may raise and leaves its
    journal (`git_writes.py:1635`); a later write is committed, and the next start then
    rolls the old journal back over it, against "without reverting committed refs".
21. `ReceiptsAlwaysTell`: the write of the receipt raises after the journal in memory said
    committed; the rollback puts the files back and its checkpoints say committed, so
    that a death in it leaves a committed journal, and a receipt, for a write that was
    undone.
22. `LedgerAgrees`: the ledger is told of success before the journal is terminal
    (`git_writes.py:1650-1660`); a death in between rolls back what the ledger reports as
    done. The ledger then has both outcomes.
23. `NativeWorkStands`: recovery looks for native locks and operations, not for native
    work that ended: what the owner's Git did after the death is put back with the rest.
24. `EventsAlwaysStay`: a rollback that fails leaves its journal; events recorded
    since then are in the database that a later start replaces by the backup
    (`security_events.py:1325`, `1382`).
25. `RotationsAlwaysEnd`: the event that tells of a completed rotation is appended after
    the backups went; if that raises, the rollback finds none, its journal says
    `recovery_failed`, and every further rotation is refused.
26. `ChainAlwaysVerifies`: as 25, with a removal of backups that was incomplete: the
    parts that are still there are put back, and the chain is broken.
27. `MergesAreRecorded`: the repository is merged before the collaboration store
    (`collaboration.py:1266`); a failure in between leaves an approved pull request that
    the repository has. A retry finds the merged paths in conflict with their baseline and asks for
    decisions; it overwrites nothing unseen (`NoUnseenOverwrite` holds).
28. `DecisionsStayReadable`: the bytes of a decision are replaced before its row
    (`conflict_resolution.py:1207`); a failure in between leaves a draft that no request
    reads again. Nothing wrong is merged (`MergesAreDecided`).
29. The status `conflict` is set by a transaction that is rolled back by the exception that
    follows (`collaboration.py:1217`): no pull request ever has it.
30. `Faults` with `"rename"`: `final_path` is set before `os.replace` (`registry.py:1173-1174`); if
    that raises, the lock is let go, another import may take the place, and the handler
    erases it (`1195-1196`).
31. `Hasty`: the owner removes the row while the job reads it back (`1186`); the handler
    then erases files that were only unregistered, against "Never delete repository
    files" (`registry.py:1647`).
32. `Faults` with `"start"`: what `_run` does before its `try` block may raise
    (`jobs.py:139-143`); the thread ends and the job is running for ever.
33. `CancelledLeavesNothing`: a flag that arrives after the files were applied makes the
    job cancelled (`jobs.py:149`), and the browser says "Import cancelled."; the
    repository is there. The job keeps its result, which is what `ResultsTell` relies on.
34. `DiscardsEnd`: a death between the row and the files of a discard
    (`registry.py:1214-1215`) makes the next start register the repository again.
35. `Faults` with `"registered"`: the tombstone is cleared after the row was committed
    (`registry.py:1393`); if that raises, the caller does not know of the row and erases
    its tree only.
36. `Faults` with `"remove"`: the removal of a staging directory ignores its errors; what
    is left looks like a repository to a discovery, which registers it.
37. `AcceptedIsVisible`: hiding a comment keeps it as the accepted answer
    (`project_coordination.py:857`), and from then on every update of the discussion is
    refused, whatever it changes, until one takes the answer away (`796-800`).
38. `RevokedStaysOut`: the invitation is looked at before the lock is taken
    (`project_coordination.py:844`); a request that was let in is carried out after the
    invitation is revoked.
39. `PublicationsAreRecorded`: a release is published before its event is recorded
    (`releases.py:233-234`); if the ledger refuses, or the process dies, the release is
    published, the retry returns early (`224-225`), and the event is never recorded.
40. `ExportsAgree`: an export of a draft reads the release and its assets apart
    (`releases.py:292-295`): its manifest may list other assets than the archive has.
41. `Gap = 1`: a rank halfway between two cards is not between them when the precision of a
    float is used up, after some fifty moves to the same place (`project_boards.py:354`).
    The card is then shown by the order of the identities, and no request ranks the cards anew.
42. A deletion of a topic, of a milestone or of a label takes no version
    (`project_coordination.py:675`, `742`, `812`), against "All mutable existing objects
    require `expectedVersion`" (`docs/API_V1.md:43`); and the topics of a label that is
    deleted keep theirs.
43. `ImportRace`: the conflicts of a folder import are decided before it takes the lock
    (`importing.py:216-239`, called at `repository.py:973-981`), and its application asks the plan
    and not the workspace (`importing.py:314-320`, `343-359`). A file that another request
    writes in between is replaced, under any policy, and no snapshot has it, against
    "Imports preview conflicts and require abort, skip, overwrite, or rename behavior.
    Overwrite creates recovery state." (`AUDIT_CLOSURE.md:108-112`, of FT-AUD-005, "Direct folder
    import silently overwrites existing files"); the tests change nothing in between
    (`tests/test_v040_stabilization.py:131`). A rollback still puts the replaced file back.

## 6. Limits

* `RepositoryTransaction`. A path is a place that operations take as a whole, apart
  from the others: `capture` skips a path whose parent is captured, which cannot happen with these. Contents, hashes,
  objects and upload limits are left out; a snapshot's objects are assumed
  present, as no operation deletes one. A wait that times out is a request that
  stays where it is. The owner's own edits of the workspace between requests
  are not modelled. `_read_disk_revision` returns 0 for an unreadable
  `state.json`; the file is replaced atomically, so there is none. Behaviours
  start from an initialized repository.
* `LockHierarchy`. Two repositories are one: a request uses one repository at a
  time, except a restore, which takes their locks one after the other. SQLite's
  own locks have time-outs and are taken last.
* `ManagedDeletion`. One repository. The Doctor, copies inside the scanned
  roots, and re-registration under a new identity are not modelled; discards and the
  relinks of a discovery are `ImportJobs`'. The effect of a failed `fsync` is that of the call not made.
* `AccessMode`. Modes that are missing or malformed count as read-only. Every
  thread is a process of its own. A restore carries over one repository; its
  rollback and its recovery are further restores.
* `RegistryRestore`. A registry is its digest; the staged copy, its migration and its
  inspection are the step that may fail before the journal says `installing`. A death
  inside `create_backup` leaves a partial file that no journal names; that a preview
  would refuse it is not modelled. Journals are recovered in the order of the restores (the
  code sorts by the time of the last write), and old ones are not pruned.
* `GitWrites`. A file is its version, a branch the version of the index it was made
  from; HEAD and the reflogs go with it. A preview expires at any time it is not in use.
  Receipts are not pruned, journals are readable, and names and paths that the
  validation refuses are not asked for.
* `SecurityLedger`. One process, whose lock admits one operation; tampering is what
  `Verify` would find, and nobody tampers here. Old journals are not pruned, directories
  without a journal not removed, and the preview of a rotation is the one made again
  under the lock. Queries, exports and status read only.
* `PullRequests`, `ConflictResolution`. One pull request: another one's merge is work of
  the owner. Requests show the current revision and version, as others are refused. A
  contributor's thread is an owner's that does not request changes. A draft of an older
  revision counts for nothing and is dropped. Quotas, limits of invitations, the record
  of events, the context of a line and unavailable base evidence are left out, and so is
  the owner's work before and after the pull request.
* `ImportJobs`. A start and the removal of a directory are one step; a removal that
  stops half-way is a tree that stays. Which old jobs go first is open, as the clock
  tells it. A discovery finds what is below `managed-repositories`; other roots, uploads
  from a browser, and forks, which are registered the same way, are left out.
* `ProjectRecords`. Behaviours use one of the three databases. Requests that send the
  current version are those that are carried out; only the updates of a discussion send
  what a window saw. A text is one value, and every update changes the row. Labels,
  updates of a milestone, custom fields, saved views, dependencies, further columns and
  boards, quotas and the clean-up of deleted records are left out; the card's
  discussion is there. A damaged asset is a missing one. Nothing in the program calls
  `cleanup_retention` of the releases; its tests do.
* The hash index of `repository.py` (`repository.py:673`) trusts size, time and inode of
  a file. Contents here are values, so whether a snapshot records other bytes than those on
  disk is not a question any module can ask; a model of the index would need the clock's
  resolution as a parameter.
* The owner's process starts once at a time (its instance lock is not modelled).
* Git intelligence, the switch planner, the health centre and the browser interface
  keep no state of the program's own. Forks copy a tree and record where it came from.

## 7. Plan

In order of importance. A project of this size keeps a dozen runs and some forty
properties; what comes next takes the place of an instance that a theorem covers.

| Module | Content | Theorems or runs |
|---|---|---|
| `HashIndex` | size, time, inode, clock | a snapshot records what is on disk |
| Doctor, registry import, library | transactions on rows | rows agree with the disk |
