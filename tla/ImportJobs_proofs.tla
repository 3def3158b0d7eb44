--------------------------- MODULE ImportJobs_proofs ---------------------------
(***************************************************************************)
(* What an import and its undo never do to the repositories of others, and *)
(* what a job that ended has left, for any jobs, places, deaths and        *)
(* starts.  Quiet and Sheltered say what must not happen beside; TLC finds *)
(* a counterexample for each of their parts.                               *)
(***************************************************************************)
EXTENDS ImportJobs, FiniteSetTheorems, TLAPS

\* Nobody interferes with a running job, and a place that was chosen is moved to.
Quiet == ~Beside /\ ~Hasty /\ "rename" \notin Faults

\* And nothing fails after it was done, in the handler, or in a removal.
Sheltered == Quiet /\ Faults \cap {"registered", "undo", "remove"} = {}

-----------------------------------------------------------------------------
(* The types. *)

Statuses == Ended \cup {"new", "queued", "running"}

HistoryTyped ==
  \A j \in DOMAIN history : history[j].status \in Statuses /\ history[j].result \in BOOLEAN

TInv == TypeOK /\ HistoryTyped

\* A history that was written lists jobs as they are.
LEMMA PersistTypes ==
  ASSUME job' \in [Jobs -> [status : Statuses, cancel : BOOLEAN, result : BOOLEAN]],
         listed' \subseteq Jobs, history' = Public(job', listed')
  PROVE  DOMAIN history' \subseteq Jobs /\ HistoryTyped'
BY DEF Public, HistoryTyped

\* A discovery gives a repository the path where it was found, or the one it had.
LEMMA DiscoveredRow ==
  ASSUME NEW found, NEW rows, NEW s, NEW j \in Jobs
  PROVE  LET to == Discovered(found, rows, s)[j] IN to = row[j] \/ to \in AtIn(j, s)
<1> DEFINE others == {p \in AtIn(j, s) : <<j, p>> \in found} \ {row[j]}
           to == Discovered(found, rows, s)[j]
<1>1. to = row[j] \/ (Cardinality(others) = 1 /\ to = CHOOSE p \in others : TRUE)
  BY DEF Discovered
<1>2. ASSUME Cardinality(others) = 1
      PROVE  (CHOOSE p \in others : TRUE) \in others
  <2>1. Cardinality({}) = 0
    BY FS_EmptySet
  <2> HIDE DEF others
  <2>2. others # {}
    BY <1>2, <2>1
  <2> QED BY <2>2
<1> QED BY <1>1, <1>2

LEMMA DiscoveredTypes ==
  ASSUME TInv, NEW found, NEW rows, NEW s
  PROVE  Discovered(found, rows, s) \in [Jobs -> Places \cup {Staging, Nothing}]
<1>1. ASSUME NEW j \in Jobs
      PROVE  Discovered(found, rows, s)[j] \in Places \cup {Staging, Nothing}
  BY DiscoveredRow DEF AtIn, TInv, TypeOK
<1>2. Discovered(found, rows, s) = [j \in Jobs |-> Discovered(found, rows, s)[j]]
  BY DEF Discovered
<1> QED BY <1>1, <1>2

Tasks == [at : Steps, place : Places \cup {Nothing}, registered : BOOLEAN, cancelled : BOOLEAN]

\* What a step does to the variables of a thread.
LEMMA TaskTypes ==
  ASSUME task \in [Jobs -> Tasks], NEW j \in Jobs, Start(j) \/ Cancel(j) \/ Runner(j)
  PROVE  task' \in [Jobs -> Tasks]
<1>0. /\ "starting" \in Steps /\ "staging" \in Steps /\ "importing" \in Steps /\ "snapshot" \in Steps
      /\ "choosing" \in Steps /\ "renaming" \in Steps /\ "registering" \in Steps
      /\ "activating" \in Steps /\ "reading" \in Steps /\ "returning" \in Steps
      /\ "unregistering" \in Steps /\ "erasing" \in Steps /\ "clearing" \in Steps
      /\ "reporting" \in Steps /\ "ended" \in Steps
  BY DEF Steps
<1> USE <1>0 DEF Goes, Throws, Tasks
<1>1. CASE Start(j) \/ Cancel(j) \/ Begin(j) \/ Return(j) \/ Report(j)
  BY <1>1 DEF Start, Cancel, Begin, Return, Report
<1>2. CASE Stage(j) \/ Import(j) \/ Snapshot(j)
  BY <1>2 DEF Stage, Import, Snapshot
<1>3. CASE Choose(j)
  <2>1. PICK p \in Places : task' = [task EXCEPT ![j].at = "renaming", ![j].place = p]
    BY <1>3 DEF Choose, Free
  <2> QED BY <2>1
<1>4. CASE Rename(j) \/ Register(j) \/ Activate(j) \/ Read(j)
  BY <1>4 DEF Rename, Register, Activate, Read
<1>5. CASE Unregister(j) \/ Erase(j) \/ Clear(j)
  BY <1>5 DEF Unregister, Erase, Clear
<1> QED BY <1>1, <1>2, <1>3, <1>4, <1>5 DEF Runner

JobRecords == [status : Statuses, cancel : BOOLEAN, result : BOOLEAN]

\* What a step does to the jobs of the manager, and to the history.
LEMMA ManagerTypes ==
  ASSUME TInv, NEW j \in Jobs, Start(j) \/ Cancel(j) \/ Runner(j)
  PROVE  /\ job' \in [Jobs -> JobRecords] /\ listed' \subseteq Jobs
         /\ DOMAIN history' \subseteq Jobs /\ HistoryTyped'
<1>1. job \in [Jobs -> JobRecords] /\ listed \subseteq Jobs /\ DOMAIN history \subseteq Jobs /\ HistoryTyped
  BY DEF TInv, TypeOK, JobRecords, Statuses
<1>2. \A status \in Statuses :
        /\ [job EXCEPT ![j].status = status] \in [Jobs -> JobRecords]
        /\ [job EXCEPT ![j].cancel = TRUE] \in [Jobs -> JobRecords]
        /\ [job EXCEPT ![j].result = TRUE, ![j].status = status] \in [Jobs -> JobRecords]
  BY <1>1 DEF JobRecords
<1>3. {"queued", "running", "completed", "failed", "cancelled"} \subseteq Statuses
  BY DEF Statuses, Ended
<1>4. job' \in [Jobs -> JobRecords]
  <2>1. CASE Start(j)
    BY <1>2, <1>3, <2>1 DEF Start
  <2>2. CASE Cancel(j)
    BY <1>2, <1>3, <2>2 DEF Cancel
  <2>3. CASE Begin(j)
    BY <1>2, <1>3, <2>3 DEF Begin
  <2>4. CASE Return(j)
    BY <1>2, <1>3, <2>4 DEF Return
  <2>5. CASE Report(j)
    BY <1>2, <1>3, <2>5 DEF Report
  <2>6. CASE job' = job
    BY <1>1, <2>6
  <2> QED BY <2>1, <2>2, <2>3, <2>4, <2>5, <2>6 DEF Runner, managerVars, Stage, Import, Snapshot,
        Choose, Rename, Register, Activate, Read, Unregister, Erase, Clear
<1>5. listed' \subseteq Jobs
  BY <1>1 DEF Start, Cancel, Runner, managerVars, Trimmed, Begin, Return, Report, Stage, Import,
     Snapshot, Choose, Rename, Register, Activate, Read, Unregister, Erase, Clear
<1>6. history' = Public(job', listed') \/ history' = history
  BY DEF Persist, PersistRaises, Start, Cancel, Runner, managerVars, Begin, Return, Report, Stage,
     Import, Snapshot, Choose, Rename, Register, Activate, Read, Unregister, Erase, Clear
<1> QED BY <1>1, <1>4, <1>5, <1>6, PersistTypes DEF HistoryTyped, JobRecords

\* A step of the manager or of a thread.
LEMMA JobTypes ==
  ASSUME TInv, NEW j \in Jobs, Start(j) \/ Cancel(j) \/ Runner(j)
  PROVE  TInv'
<1>1. task' \in [Jobs -> Tasks]
  BY TaskTypes DEF TInv, TypeOK, Tasks
<1> USE Parameters DEF TInv, TypeOK, Works, Raises, Persist, PersistRaises, diskVars, Throws
<1>2. /\ holder' \in Jobs \cup {Nothing} /\ command'.at \in {"none", "scan", "register", "done"}
      /\ discard' \in Places \cup {Nothing}
      /\ up' \in BOOLEAN /\ faults' \in 0..MaxFaults /\ crashes' \in 0..MaxCrashes
  <2>1. CASE Start(j) \/ Cancel(j) \/ Begin(j) \/ Return(j) \/ Report(j)
    BY <2>1 DEF Start, Cancel, Begin, Return, Report
  <2>2. CASE Stage(j) \/ Import(j) \/ Snapshot(j)
    BY <2>2 DEF Stage, Import, Snapshot
  <2>3. CASE Choose(j) \/ Rename(j) \/ Register(j) \/ Activate(j) \/ Read(j)
    BY <2>3 DEF Choose, Rename, Register, Activate, Read
  <2>4. CASE Unregister(j) \/ Erase(j) \/ Clear(j)
    BY <2>4 DEF Unregister, Erase, Clear
  <2> QED BY <2>1, <2>2, <2>3, <2>4 DEF Runner
<1>3. staged' \subseteq Jobs /\ deleted' \subseteq Jobs
  <2>1. CASE Start(j) \/ Cancel(j) \/ Begin(j) \/ Return(j) \/ Report(j)
    BY <2>1 DEF Start, Cancel, Begin, Return, Report
  <2>2. CASE Stage(j) \/ Import(j) \/ Snapshot(j)
    BY <2>2 DEF Stage, Import, Snapshot
  <2>3. CASE Choose(j) \/ Rename(j) \/ Register(j) \/ Activate(j) \/ Read(j)
    BY <2>3 DEF Choose, Rename, Register, Activate, Read
  <2>4. CASE Unregister(j) \/ Erase(j) \/ Clear(j)
    BY <2>4 DEF Unregister, Erase, Clear
  <2> QED BY <2>1, <2>2, <2>3, <2>4 DEF Runner
<1>4. tree' \in [Places -> Jobs \cup {Nothing}]
  <2>1. CASE Rename(j)
    BY <2>1 DEF Rename, Free
  <2>2. CASE Erase(j)
    BY <2>2 DEF Erase
  <2>3. CASE tree' = tree
    BY <2>3
  <2> QED BY <2>1, <2>2, <2>3 DEF Start, Cancel, Runner, Begin, Return, Report, Stage, Import,
        Snapshot, Choose, Register, Activate, Read, Unregister, Clear
<1>5. row' \in [Jobs -> Places \cup {Staging, Nothing}]
  <2>1. CASE Register(j)
    <3>1. task[j].place \in Places \cup {Nothing}
      OBVIOUS
    <3> QED BY <2>1, <3>1, ZenonT(60) DEF Register
  <2>2. CASE Unregister(j)
    BY <2>2 DEF Unregister
  <2>3. CASE row' = row
    BY <2>3
  <2> QED BY <2>1, <2>2, <2>3 DEF Start, Cancel, Runner, Begin, Return, Report, Stage, Import,
        Snapshot, Choose, Rename, Activate, Read, Erase, Clear
<1> QED BY <1>1, <1>2, <1>3, <1>4, <1>5, ManagerTypes DEF Tasks, JobRecords, Statuses

\* A step of the owner.
LEMMA OwnerTypes ==
  ASSUME TInv, Owner
  PROVE  TInv'
<1> USE Parameters DEF TInv, TypeOK, Works, Raises, MayTouch, managerVars, HistoryTyped
<1>1. CASE DiscardFiles
  BY <1>1 DEF DiscardFiles
<1>2. ASSUME NEW j \in Jobs, RemoveRow(j) \/ Delete(j) \/ Discard(j)
      PROVE  TInv'
  BY <1>2, ZenonT(60) DEF RemoveRow, Delete, Discard
<1> QED BY <1>1, <1>2 DEF Owner

\* A death, a start, and a step of a command.
LEMMA ProcessTypes ==
  ASSUME TInv, Die \/ Boot \/ Command
  PROVE  TInv'
<1> USE Parameters DEF TInv, TypeOK, Works, Raises, managerVars, diskVars
<1>1. CASE Die
  <2>1. job' \in [Jobs -> JobRecords]
    BY <1>1 DEF Die, NewJob, JobRecords, Statuses
  <2>2. task' \in [Jobs -> Tasks]
    BY <1>1 DEF Die, NoTask, Steps, Tasks
  <2>3. HistoryTyped' /\ row' = row /\ tree' = tree /\ staged' = staged /\ deleted' = deleted
    BY <1>1 DEF Die, HistoryTyped
  <2>4. /\ listed' \subseteq Jobs /\ history' = history /\ holder' = Nothing /\ discard' = Nothing
        /\ command' = command /\ up' = FALSE /\ faults' = faults /\ crashes' \in 0..MaxCrashes
    BY <1>1 DEF Die
  <2> QED BY <2>1, <2>2, <2>3, <2>4 DEF JobRecords, Statuses, Tasks
<1>2. CASE Boot
  <2>1. row' \in [Jobs -> Places \cup {Staging, Nothing}]
    BY <1>2, DiscoveredTypes DEF Boot
  <2>2. job' \in [Jobs -> [status : Statuses, cancel : BOOLEAN, result : BOOLEAN]]
    BY <1>2 DEF Boot, Loaded, NewJob, HistoryTyped, Statuses, Ended
  <2> QED BY <1>2, <2>1, <2>2 DEF Boot, HistoryTyped, Statuses
<1>3. CASE Command
  <2>1. CASE CommandRegisters
    <3>1. row' \in [Jobs -> Places \cup {Staging, Nothing}]
      BY <2>1, DiscoveredTypes DEF CommandRegisters
    <3> QED BY <2>1, <3>1 DEF CommandRegisters, NoScan, HistoryTyped
  <2>2. CASE CommandCleans
    BY <2>2 DEF CommandCleans, HistoryTyped
  <2>3. CASE CommandScans
    BY <2>3 DEF CommandScans, HistoryTyped
  <2> QED BY <1>3, <2>1, <2>2, <2>3 DEF Command
<1> QED BY <1>1, <1>2, <1>3

\* The first state has the types.
LEMMA InitTypes == Init => TInv
BY Parameters DEF Init, TInv, TypeOK, HistoryTyped, NewJob, NoTask, NoScan, Steps

\* So has every next one.
LEMMA TypeStep == TInv /\ [Next]_vars => TInv'
<1> SUFFICES ASSUME TInv, [Next]_vars PROVE TInv'
  OBVIOUS
<1>1. CASE UNCHANGED vars
  BY <1>1 DEF vars, managerVars, diskVars, TInv, TypeOK, HistoryTyped
<1> QED BY <1>1, JobTypes, OwnerTypes, ProcessTypes DEF Next

\* Every variable keeps its type, whatever fails and whoever runs beside.
THEOREM TypeCorrect == Spec => []TypeOK
<1>1. TInv => TypeOK
  BY DEF TInv
<1> QED BY <1>1, InitTypes, TypeStep, PTL DEF Spec

-----------------------------------------------------------------------------
(* The inductive invariants: places and undo, then rows and results. *)

Before   == {"none", "starting", "staging", "importing", "snapshot", "choosing"}
AtPlace  == {"registering", "activating", "reading", "returning"}
Over     == {"ended", "gone"}

\* Threads run in a process, and so does the second half of a discard.
RunsWhileUp ==
  /\ \A j \in Jobs : task[j].at \notin {"none", "gone"} => up
  /\ discard # Nothing => up

\* A thread with a place has the only tree of its repository there, and one that
\* is about to move has the lock and a free place.
OwnPlace(j) ==
  /\ task[j].at \in Before => task[j].place = Nothing
  /\ task[j].at = "renaming" =>
       holder = j /\ task[j].place \in Places /\ tree[task[j].place] = Nothing
  /\ task[j].at \in AtPlace => task[j].place \in Places
  /\ task[j].at \in AtPlace \cup {"unregistering", "erasing"} /\ task[j].place # Nothing =>
       tree[task[j].place] = j
  /\ task[j].at \notin Over => \A q \in Places : tree[q] = j => q = task[j].place

PlacesAreOwn == \A j \in Jobs : OwnPlace(j)

\* What is being discarded is no running job's.
DiscardIsOver ==
  discard # Nothing => tree[discard] \in Jobs /\ task[tree[discard]].at \in Over

PInv == RunsWhileUp /\ StagingIsKept /\ PlacesAreOwn /\ DiscardIsOver

\* No row is left without its tree, and no tree is erased under its row.
RowsInv ==
  /\ RowsHaveTheirTree
  /\ \A j \in Jobs : task[j].at \notin Over /\ ~task[j].registered => row[j] = Nothing
  /\ \A j \in Jobs : task[j].at \in {"erasing", "clearing"} => row[j] = Nothing
  /\ discard # Nothing => row[tree[discard]] = Nothing
  /\ command.at \in {"scan", "register"} => ~up /\ staged = {}

\* A job without a result has cleaned up when it reports.
CleansUp ==
  /\ \A j \in Jobs : task[j].at = "clearing" => \A q \in Places : tree[q] # j
  /\ \A j \in Jobs : task[j].at = "reporting" /\ ~job[j].result => At(j) = {} /\ row[j] = Nothing

RInv == RowsInv /\ CleansUp /\ ResultsTell

\* What the invariants need of the types.
Shapes ==
  /\ task \in [Jobs -> Tasks]
  /\ tree \in [Places -> Jobs \cup {Nothing}]
  /\ row \in [Jobs -> Places \cup {Staging, Nothing}]
  /\ job \in [Jobs -> JobRecords]
  /\ discard \in Places \cup {Nothing}
  /\ staged \subseteq Jobs

LEMMA ShapesHold == TInv => Shapes
BY DEF TInv, TypeOK, Shapes, Tasks, JobRecords, Statuses

\* A step of a thread that moves no tree: the others, and a discard, stay as they are.
LEMMA OnlyOwn ==
  ASSUME Shapes, PInv, NEW j \in Jobs, task[j].at \notin Over, up, UNCHANGED <<tree, discard, up>>,
         \A i \in Jobs \ {j} :
           task'[i] = task[i] /\ (i \in staged => i \in staged') /\ (holder = i => holder' = i),
         task'[j].at \in {"importing", "snapshot", "choosing", "renaming"} => j \in staged',
         OwnPlace(j)'
  PROVE  PInv'
<1>1. \A i \in Jobs \ {j} : OwnPlace(i)'
  BY DEF PInv, PlacesAreOwn, OwnPlace
<1>2. RunsWhileUp' /\ StagingIsKept'
  BY DEF PInv, RunsWhileUp, StagingIsKept
<1>3. DiscardIsOver'
  BY DEF PInv, DiscardIsOver
<1> QED BY <1>1, <1>2, <1>3 DEF PInv, PlacesAreOwn

\* What a step does to the thread that takes it: the states it may come to, its place
\* and whether it leaves the lock.
Moves(j, to, place) ==
  /\ task'[j].at \in to /\ task'[j].place = place
  /\ \A i \in Jobs \ {j} : task'[i] = task[i] /\ (holder = i => holder' = i)
  /\ UNCHANGED <<tree, discard, up>> /\ up

\* No step of the manager or of a thread takes a place from another thread.
LEMMA JobsKeepPlaces ==
  ASSUME Quiet, Shapes, PInv, NEW j \in Jobs, Start(j) \/ Cancel(j) \/ Runner(j)
  PROVE  PInv'
<1> USE Parameters
<1>own. task \in [Jobs -> Tasks] /\ tree \in [Places -> Jobs \cup {Nothing}] /\ OwnPlace(j)
  BY DEF Shapes, PInv, PlacesAreOwn
<1>up. up
  BY DEF Start, Cancel, Runner
<1>1. CASE Start(j)
  <2>1. task[j].at = "none" /\ Moves(j, {"none", "starting"}, task[j].place)
    BY <1>own, <1>up, <1>1 DEF Start, diskVars, Moves, Tasks
  <2>2. OwnPlace(j)'
    BY <1>own, <2>1 DEF Moves, OwnPlace, Before, AtPlace, Over
  <2>3. UNCHANGED staged
    BY <1>1 DEF Start, diskVars
  <2> QED BY <2>1, <2>2, <2>3, OnlyOwn DEF Moves, Over
<1>2. CASE Cancel(j)
  BY <1>2 DEF Cancel, diskVars, PInv, RunsWhileUp, StagingIsKept, PlacesAreOwn, OwnPlace, DiscardIsOver
<1>3. CASE Begin(j)
  <2>1. task[j].at = "starting" /\ Moves(j, {"staging", "ended"}, task[j].place)
    BY <1>own, <1>up, <1>3 DEF Begin, diskVars, Moves, Tasks
  <2>2. OwnPlace(j)'
    BY <1>own, <2>1 DEF Moves, OwnPlace, Before, AtPlace, Over
  <2>3. UNCHANGED staged
    BY <1>3 DEF Begin, diskVars
  <2> QED BY <2>1, <2>2, <2>3, OnlyOwn DEF Moves, Over
<1>4. CASE Return(j)
  <2>1. task[j].at = "returning" /\ Moves(j, {"ended", "reporting"}, task[j].place)
    BY <1>own, <1>up, <1>4 DEF Return, diskVars, Moves, Tasks
  <2>2. OwnPlace(j)'
    BY <1>own, <2>1 DEF Moves, OwnPlace, Before, AtPlace, Over
  <2>3. UNCHANGED staged
    BY <1>4 DEF Return, diskVars
  <2> QED BY <2>1, <2>2, <2>3, OnlyOwn DEF Moves, Over
<1>5. CASE Report(j)
  <2>1. task[j].at = "reporting" /\ Moves(j, {"ended"}, task[j].place)
    BY <1>own, <1>up, <1>5 DEF Report, diskVars, Moves, Tasks
  <2>2. OwnPlace(j)'
    BY <1>own, <2>1 DEF Moves, OwnPlace, Before, AtPlace, Over
  <2>3. UNCHANGED staged
    BY <1>5 DEF Report, diskVars
  <2> QED BY <2>1, <2>2, <2>3, OnlyOwn DEF Moves, Over
<1>6. CASE Stage(j)
  <2>1. task[j].at = "staging" /\ Moves(j, {"importing", "unregistering"}, task[j].place)
    BY <1>own, <1>up, <1>6 DEF Stage, Goes, Throws, Moves, Tasks
  <2>2. OwnPlace(j)'
    BY <1>own, <2>1 DEF Moves, OwnPlace, Before, AtPlace, Over
  <2>3. (\A i \in Jobs \ {j} : i \in staged => i \in staged') /\ (task'[j].at = "importing" => j \in staged')
    BY <1>own, <1>6 DEF Stage, Goes, Throws, Tasks
  <2> QED BY <2>1, <2>2, <2>3, OnlyOwn DEF Moves, Over
<1>7. CASE Import(j)
  <2>1. task[j].at = "importing" /\ Moves(j, {"snapshot", "unregistering"}, task[j].place)
    BY <1>own, <1>up, <1>7 DEF Import, Goes, Throws, diskVars, Moves, Tasks
  <2>2. OwnPlace(j)'
    BY <1>own, <2>1 DEF Moves, OwnPlace, Before, AtPlace, Over
  <2>3. UNCHANGED staged
    BY <1>7 DEF Import, Goes, Throws, diskVars
  <2> QED BY <2>1, <2>2, <2>3, OnlyOwn DEF Moves, Over, PInv, StagingIsKept
<1>8. CASE Snapshot(j)
  <2>1. task[j].at = "snapshot" /\ Moves(j, {"choosing", "unregistering"}, task[j].place)
    BY <1>own, <1>up, <1>8 DEF Snapshot, Goes, Throws, diskVars, Moves, Tasks
  <2>2. OwnPlace(j)'
    BY <1>own, <2>1 DEF Moves, OwnPlace, Before, AtPlace, Over
  <2>3. UNCHANGED staged
    BY <1>8 DEF Snapshot, Goes, Throws, diskVars
  <2> QED BY <2>1, <2>2, <2>3, OnlyOwn DEF Moves, Over, PInv, StagingIsKept
<1>9. CASE Choose(j)
  <2>1. PICK p \in Places : tree[p] = Nothing /\ task' = [task EXCEPT ![j].at = "renaming", ![j].place = p]
    BY <1>9 DEF Choose, Free
  <2>2. task[j].at = "choosing" /\ holder = Nothing /\ holder' = j /\ UNCHANGED <<staged, tree, discard, up>>
    BY <1>9 DEF Choose, diskVars
  <2>3. Moves(j, {"renaming"}, p)
    BY <1>own, <1>up, <1>9, <2>1, <2>2 DEF Moves, Runner, Tasks
  <2>4. OwnPlace(j)'
    BY <1>own, <2>1, <2>2, <2>3 DEF Moves, OwnPlace, Before, AtPlace, Over
  <2> QED BY <2>2, <2>3, <2>4, OnlyOwn DEF Moves, Over, PInv, StagingIsKept
<1>10. CASE Rename(j)
  <2> DEFINE p == task[j].place
  <2>1. task[j].at = "renaming" /\ holder = j /\ p \in Places /\ tree[p] = Nothing /\ j \in staged
    BY <1>own, <1>10 DEF Rename, OwnPlace, PInv, StagingIsKept
  <2>2. /\ task' = [task EXCEPT ![j].at = "registering"] /\ tree' = [tree EXCEPT ![p] = j]
        /\ staged' = staged \ {j} /\ UNCHANGED <<holder, discard, up>>
    BY <1>10, <2>1 DEF Rename, Raises, Goes, Free, Quiet
  <2>3. /\ task'[j].at = "registering" /\ task'[j].place = p
        /\ \A i \in Jobs \ {j} : task'[i] = task[i]
    BY <1>own, <2>2 DEF Tasks
  <2>4. tree'[p] = j /\ \A q \in Places \ {p} : tree'[q] = tree[q]
    BY <1>own, <2>1, <2>2
  <2>5. OwnPlace(j)'
    BY <1>own, <2>1, <2>3, <2>4 DEF OwnPlace, Before, AtPlace, Over
  <2>6. ASSUME NEW i \in Jobs \ {j}
        PROVE  OwnPlace(i)'
    <3>1. OwnPlace(i) /\ task'[i] = task[i] /\ holder' = holder /\ holder # i
      BY <2>1, <2>2, <2>3 DEF PInv, PlacesAreOwn
    <3>2. \A q \in Places : tree'[q] = i <=> tree[q] = i
      BY <2>1, <2>4
    <3>3. task[i].place \in Places \cup {Nothing}
      BY <1>own DEF Tasks
    <3> QED BY <3>1, <3>2, <3>3 DEF OwnPlace
  <2>7. RunsWhileUp' /\ StagingIsKept'
    BY <1>up, <2>2, <2>3 DEF PInv, RunsWhileUp, StagingIsKept
  <2>8. DiscardIsOver'
    <3>1. discard # Nothing => discard \in Places \ {p} /\ tree[discard] \in Jobs \ {j}
      BY <2>1 DEF Shapes, PInv, DiscardIsOver, Over
    <3> QED BY <2>2, <2>3, <2>4, <3>1 DEF PInv, DiscardIsOver
  <2> QED BY <2>5, <2>6, <2>7, <2>8 DEF PInv, PlacesAreOwn
<1>11. CASE Register(j)
  <2>1. task[j].at = "registering" /\ Moves(j, {"activating", "unregistering"}, task[j].place)
    BY <1>own, <1>up, <1>11 DEF Register, Throws, Moves, Tasks
  <2>2. OwnPlace(j)'
    BY <1>own, <2>1 DEF Moves, OwnPlace, Before, AtPlace, Over
  <2>3. UNCHANGED staged
    BY <1>11 DEF Register, Throws
  <2> QED BY <2>1, <2>2, <2>3, OnlyOwn DEF Moves, Over
<1>12. CASE Activate(j)
  <2>1. task[j].at = "activating" /\ Moves(j, {"reading", "unregistering"}, task[j].place)
    BY <1>own, <1>up, <1>12 DEF Activate, Goes, Throws, diskVars, Moves, Tasks
  <2>2. OwnPlace(j)'
    BY <1>own, <2>1 DEF Moves, OwnPlace, Before, AtPlace, Over
  <2>3. UNCHANGED staged
    BY <1>12 DEF Activate, Goes, Throws, diskVars
  <2> QED BY <2>1, <2>2, <2>3, OnlyOwn DEF Moves, Over
<1>13. CASE Read(j)
  <2>1. task[j].at = "reading" /\ Moves(j, {"returning", "unregistering"}, task[j].place)
    BY <1>own, <1>up, <1>13 DEF Read, Goes, Throws, diskVars, Moves, Tasks
  <2>2. OwnPlace(j)'
    BY <1>own, <2>1 DEF Moves, OwnPlace, Before, AtPlace, Over
  <2>3. UNCHANGED staged
    BY <1>13 DEF Read, Goes, Throws, diskVars
  <2> QED BY <2>1, <2>2, <2>3, OnlyOwn DEF Moves, Over
<1>14. CASE Unregister(j)
  <2>1. task[j].at = "unregistering" /\ Moves(j, {"erasing"}, task[j].place)
    BY <1>own, <1>up, <1>14 DEF Unregister, Goes, Moves, Tasks
  <2>2. OwnPlace(j)'
    BY <1>own, <2>1 DEF Moves, OwnPlace, Before, AtPlace, Over
  <2>3. UNCHANGED staged
    BY <1>14 DEF Unregister, Goes
  <2> QED BY <2>1, <2>2, <2>3, OnlyOwn DEF Moves, Over
<1>15. CASE Erase(j)
  <2> DEFINE p == task[j].place
  <2>1. task[j].at = "erasing" /\ p \in Places \cup {Nothing} /\ (p # Nothing => tree[p] = j)
    BY <1>own, <1>15 DEF Erase, OwnPlace, Tasks
  <2>2. /\ task' = [task EXCEPT ![j].at = "clearing"] /\ UNCHANGED <<holder, staged, discard, up>>
        /\ tree' = tree \/ (p # Nothing /\ tree' = [tree EXCEPT ![p] = Nothing])
    BY <1>15 DEF Erase, Goes
  <2>3. /\ task'[j].at = "clearing" /\ task'[j].place = p
        /\ \A i \in Jobs \ {j} : task'[i] = task[i]
    BY <1>own, <2>2 DEF Tasks
  <2>4. \A q \in Places : tree'[q] = tree[q] \/ (q = p /\ tree[q] = j /\ tree'[q] = Nothing)
    BY <1>own, <2>1, <2>2
  <2>5. OwnPlace(j)'
    BY <1>own, <2>1, <2>3, <2>4 DEF OwnPlace, Before, AtPlace, Over
  <2>6. ASSUME NEW i \in Jobs \ {j}
        PROVE  OwnPlace(i)'
    <3>1. OwnPlace(i) /\ task'[i] = task[i] /\ holder' = holder
      BY <2>2, <2>3 DEF PInv, PlacesAreOwn
    <3>2. \A q \in Places : (tree'[q] = i <=> tree[q] = i) /\ (tree[q] = Nothing => tree'[q] = Nothing)
      BY <2>4
    <3>3. task[i].place \in Places \cup {Nothing}
      BY <1>own DEF Tasks
    <3> QED BY <3>1, <3>2, <3>3 DEF OwnPlace
  <2>7. RunsWhileUp' /\ StagingIsKept'
    BY <1>up, <2>2, <2>3 DEF PInv, RunsWhileUp, StagingIsKept
  <2>8. DiscardIsOver'
    <3>1. discard # Nothing => discard \in Places /\ tree[discard] \in Jobs \ {j}
      BY <2>1 DEF Shapes, PInv, DiscardIsOver, Over
    <3> QED BY <2>2, <2>3, <2>4, <3>1 DEF PInv, DiscardIsOver
  <2> QED BY <2>5, <2>6, <2>7, <2>8 DEF PInv, PlacesAreOwn
<1>16. CASE Clear(j)
  <2>1. task[j].at = "clearing" /\ Moves(j, {"reporting"}, task[j].place)
    BY <1>own, <1>up, <1>16 DEF Clear, Goes, Moves, Tasks
  <2>2. OwnPlace(j)'
    BY <1>own, <2>1 DEF Moves, OwnPlace, Before, AtPlace, Over
  <2>3. \A i \in Jobs \ {j} : i \in staged => i \in staged'
    BY <1>16 DEF Clear, Goes
  <2> QED BY <2>1, <2>2, <2>3, OnlyOwn DEF Moves, Over
<1> QED BY <1>1, <1>2, <1>3, <1>4, <1>5, <1>6, <1>7, <1>8, <1>9, <1>10, <1>11, <1>12, <1>13,
       <1>14, <1>15, <1>16 DEF Runner

\* Neither does the owner, a death, a start or a command.
LEMMA OthersKeepPlaces ==
  ASSUME Quiet, Shapes, PInv, Owner \/ Die \/ Boot \/ Command
  PROVE  PInv'
<1> USE Parameters DEF Quiet, Shapes, Tasks, PInv, RunsWhileUp, StagingIsKept, PlacesAreOwn, OwnPlace,
      DiscardIsOver, Before, AtPlace, Over, diskVars
<1>1. CASE DiscardFiles
  BY <1>1 DEF DiscardFiles
<1>2. ASSUME NEW j \in Jobs, RemoveRow(j)
      PROVE  PInv'
  BY <1>2 DEF RemoveRow
<1>3. ASSUME NEW j \in Jobs, Delete(j)
      PROVE  PInv'
  BY <1>3 DEF Delete, MayTouch, Idle
<1>4. ASSUME NEW j \in Jobs, Discard(j)
      PROVE  PInv'
  BY <1>4 DEF Discard, MayTouch, Idle
<1>5. CASE Die
  BY <1>5 DEF Die, NoTask
<1>6. CASE Boot
  BY <1>6 DEF Boot
<1>7. CASE Command
  BY <1>7 DEF Command, CommandCleans, CommandScans, CommandRegisters
<1> QED BY <1>1, <1>2, <1>3, <1>4, <1>5, <1>6, <1>7 DEF Owner

LEMMA InitPlaces == Init => PInv
BY Parameters DEF Init, PInv, RunsWhileUp, StagingIsKept, PlacesAreOwn, OwnPlace, DiscardIsOver,
   NoTask, Before, AtPlace, Over

\* The invariant of places holds in every reachable state.
LEMMA PlacesHold ==
  ASSUME Quiet
  PROVE  Spec => []PInv
<1>1. TInv /\ PInv /\ [Next]_vars => PInv'
  <2> SUFFICES ASSUME TInv, PInv, [Next]_vars PROVE PInv'
    OBVIOUS
  <2>1. CASE UNCHANGED vars
    BY <2>1 DEF vars, managerVars, diskVars, PInv, RunsWhileUp, StagingIsKept, PlacesAreOwn, OwnPlace,
       DiscardIsOver
  <2> QED BY <2>1, ShapesHold, JobsKeepPlaces, OthersKeepPlaces DEF Next
<1> QED BY <1>1, InitTypes, InitPlaces, TypeStep, PTL DEF Spec

\* A step of the manager or of a thread keeps rows and trees together.
LEMMA JobsKeepRows ==
  ASSUME Sheltered, Shapes, PInv, RInv, NEW j \in Jobs, Start(j) \/ Cancel(j) \/ Runner(j)
  PROVE  RowsInv'
<1> USE Parameters DEF Sheltered, Quiet, Shapes, Tasks, PInv, PlacesAreOwn, OwnPlace, RInv, RowsInv,
      RowsHaveTheirTree, DiscardIsOver, RunsWhileUp, Before, AtPlace, Over, Goes, Throws, diskVars
<1>1. CASE Start(j)
  BY <1>1 DEF Start
<1>2. CASE Cancel(j)
  BY <1>2 DEF Cancel
<1>3. CASE Begin(j)
  BY <1>3 DEF Begin
<1>4. CASE Return(j)
  <2>1. PICK to \in {"ended", "reporting"} : task' = [task EXCEPT ![j].at = to]
    BY <1>4 DEF Return
  <2> QED BY <1>4, <2>1 DEF Return
<1>5. CASE Report(j)
  BY <1>5 DEF Report
<1>6. CASE Stage(j)
  BY <1>6 DEF Stage
<1>7. CASE Import(j)
  BY <1>7 DEF Import
<1>8. CASE Snapshot(j)
  BY <1>8 DEF Snapshot
<1>9. CASE Choose(j)
  BY <1>9 DEF Choose, Free
<1>10. CASE Rename(j)
  BY <1>10, SMTT(30) DEF Rename, Free, Raises
<1>11. CASE Register(j)
  BY <1>11, SMTT(30) DEF Register, Raises
<1>12. CASE Activate(j)
  BY <1>12 DEF Activate
<1>13. CASE Read(j)
  BY <1>13 DEF Read
<1>14. CASE Unregister(j)
  BY <1>14 DEF Unregister, Raises
<1>15. CASE Erase(j)
  <2> DEFINE p == task[j].place
  <2>1. /\ task[j].at = "erasing" /\ task' = [task EXCEPT ![j].at = "clearing"]
        /\ tree' = IF p = Nothing THEN tree ELSE [tree EXCEPT ![p] = Nothing]
        /\ UNCHANGED <<row, discard, command, up, staged>>
    BY <1>15 DEF Erase, Raises
  <2>2. row[j] = Nothing /\ (p # Nothing => p \in Places /\ tree[p] = j)
    BY <2>1
  <2>3. RowsHaveTheirTree'
    BY <2>1, <2>2
  <2>4. discard' # Nothing => row'[tree'[discard']] = Nothing
    BY <2>1, <2>2
  <2> QED BY <2>1, <2>2, <2>3, <2>4
<1>16. CASE Clear(j)
  BY <1>16 DEF Clear, Raises
<1> QED BY <1>1, <1>2, <1>3, <1>4, <1>5, <1>6, <1>7, <1>8, <1>9, <1>10, <1>11, <1>12, <1>13,
       <1>14, <1>15, <1>16 DEF Runner

\* A step of a job that has not come to its end.
LEMMA NotYetClean ==
  ASSUME Shapes, RInv, NEW j \in Jobs, UNCHANGED job,
         task'[j].at \notin {"clearing", "reporting", "ended"},
         \A i \in Jobs \ {j} :
           /\ task'[i] = task[i] /\ row'[i] = row[i] /\ (i \in staged' => i \in staged)
           /\ \A q \in Places : tree'[q] = i => tree[q] = i
  PROVE  CleansUp' /\ ResultsTell'
BY Parameters DEF RInv, CleansUp, ResultsTell, Done, At, AtIn

\* A job that reports a failure has undone what it did.
LEMMA JobsCleanUp ==
  ASSUME Sheltered, Shapes, PInv, RInv, NEW j \in Jobs, Start(j) \/ Cancel(j) \/ Runner(j)
  PROVE  CleansUp' /\ ResultsTell'
<1> USE Parameters DEF Sheltered, Quiet, Shapes, Tasks, JobRecords, PInv, StagingIsKept, PlacesAreOwn, OwnPlace,
      RInv, RowsInv, Before, AtPlace, Over, Goes, Throws, diskVars, managerVars, Ended
<1>1. CASE Start(j)
  BY <1>1 DEF Start, CleansUp, ResultsTell, Done, At, AtIn
<1>2. CASE Cancel(j)
  BY <1>2 DEF Cancel, CleansUp, ResultsTell, Done, At, AtIn
<1>3. CASE Begin(j)
  <2>1. PICK to \in {"staging", "ended"} : task' = [task EXCEPT ![j].at = to]
    BY <1>3 DEF Begin
  <2> QED BY <1>3, <2>1 DEF Begin, CleansUp, ResultsTell, Done, At, AtIn
<1>4. CASE Return(j)
  <2>1. PICK to \in {"ended", "reporting"} : task' = [task EXCEPT ![j].at = to]
    BY <1>4 DEF Return
  <2>2. job'[j].result /\ \A i \in Jobs \ {j} : job'[i] = job[i]
    BY <1>4 DEF Return
  <2>3. UNCHANGED <<staged, tree, row>>
    BY <1>4 DEF Return
  <2> QED BY <2>1, <2>2, <2>3 DEF CleansUp, ResultsTell, Done, At, AtIn
<1>5. CASE Report(j)
  BY <1>5 DEF Report, CleansUp, ResultsTell, Done, At, AtIn
<1>6. CASE Stage(j)
  BY <1>6, NotYetClean DEF Stage
<1>7. CASE Import(j)
  BY <1>7, NotYetClean DEF Import
<1>8. CASE Snapshot(j)
  BY <1>8, NotYetClean DEF Snapshot
<1>9. CASE Choose(j)
  BY <1>9, NotYetClean DEF Choose, Free
<1>10. CASE Rename(j)
  BY <1>10, NotYetClean, SMTT(30) DEF Rename, Free, Raises
<1>11. CASE Register(j)
  BY <1>11, NotYetClean DEF Register, Raises
<1>12. CASE Activate(j)
  BY <1>12, NotYetClean DEF Activate
<1>13. CASE Read(j)
  BY <1>13, NotYetClean DEF Read
<1>14. CASE Unregister(j)
  BY <1>14, NotYetClean DEF Unregister, Raises
<1>15. CASE Erase(j)
  BY <1>15 DEF Erase, Raises, CleansUp, ResultsTell, Done, At, AtIn
<1>16. CASE Clear(j)
  BY <1>16 DEF Clear, Raises, CleansUp, ResultsTell, Done, At, AtIn
<1> QED BY <1>1, <1>2, <1>3, <1>4, <1>5, <1>6, <1>7, <1>8, <1>9, <1>10, <1>11, <1>12, <1>13,
       <1>14, <1>15, <1>16 DEF Runner

\* The owner, a death, a start and a command keep rows and trees together.
LEMMA OthersKeepRows ==
  ASSUME Sheltered, Shapes, PInv, RInv, Owner \/ Die \/ Boot \/ Command
  PROVE  RInv'
<1> USE Parameters DEF Sheltered, Quiet, Shapes, Tasks, JobRecords, PInv, RunsWhileUp, StagingIsKept,
      PlacesAreOwn, OwnPlace, RInv, RowsInv, RowsHaveTheirTree, CleansUp, ResultsTell, Done, At, AtIn,
      DiscardIsOver, Before, AtPlace, Over, diskVars, managerVars
<1>1. CASE DiscardFiles
  BY <1>1 DEF DiscardFiles, Raises
<1>2. ASSUME NEW j \in Jobs, RemoveRow(j)
      PROVE  RInv'
  BY <1>2 DEF RemoveRow
<1>3. ASSUME NEW j \in Jobs, Delete(j)
      PROVE  RInv'
  BY <1>3 DEF Delete, MayTouch, Idle
<1>4. ASSUME NEW j \in Jobs, Discard(j)
      PROVE  RInv'
  BY <1>4 DEF Discard, MayTouch, Idle
<1>5. CASE Die
  BY <1>5, SMTT(30) DEF Die, NoTask
<1>6. CASE Boot
  <2>1. staged' = {}
    BY <1>6 DEF Boot, Raises
  <2>2. \A j \in Jobs : row'[j] = row[j] \/ (row'[j] \in Places /\ tree[row'[j]] = j)
    BY <1>6, <2>1, DiscoveredRow DEF Boot
  <2>3. \A j \in Jobs : task'[j].at \in {"none", "gone"} /\ task'[j] = task[j]
    BY <1>6 DEF Boot
  <2>4. RowsInv'
    BY <1>6, <2>1, <2>2, <2>3 DEF Boot
  <2> QED BY <2>3, <2>4
<1>7. CASE Command
  <2>1. CASE CommandRegisters
    <3>1. \A j \in Jobs : row'[j] = row[j] \/ (row'[j] \in Places /\ tree[row'[j]] = j)
      BY <2>1, DiscoveredRow DEF CommandRegisters
    <3> QED BY <1>7, <2>1, <3>1 DEF CommandRegisters, Command, NoScan
  <2>2. CASE CommandCleans
    BY <1>7, <2>2 DEF CommandCleans, Command
  <2>3. CASE CommandScans
    BY <2>3 DEF CommandScans
  <2> QED BY <1>7, <2>1, <2>2, <2>3 DEF Command
<1> QED BY <1>1, <1>2, <1>3, <1>4, <1>5, <1>6, <1>7 DEF Owner

\* The invariant of rows holds in every reachable state.
LEMMA RowsHold ==
  ASSUME Sheltered
  PROVE  Spec => []RInv
<1>1. Init => RInv
  BY DEF Init, RInv, RowsInv, RowsHaveTheirTree, CleansUp, ResultsTell, NoTask, NoScan, Over
<1>2. TInv /\ PInv /\ RInv /\ [Next]_vars => RInv'
  <2> SUFFICES ASSUME TInv, PInv, RInv, [Next]_vars PROVE RInv'
    OBVIOUS
  <2>1. CASE UNCHANGED vars
    BY <2>1 DEF vars, managerVars, diskVars, RInv, RowsInv, RowsHaveTheirTree, CleansUp, ResultsTell, Done,
       At, AtIn
  <2> QED BY <2>1, ShapesHold, JobsKeepRows, JobsCleanUp, OthersKeepRows DEF Next, RInv
<1>3. Spec => []PInv
  BY PlacesHold DEF Sheltered
<1> QED BY <1>1, <1>2, <1>3, InitTypes, TypeStep, PTL DEF Spec

-----------------------------------------------------------------------------
(* The theorems. *)

\* The undo of an import erases only its own tree, as nobody else takes the place
\* it chose: also when a row, a removal or the handler itself fails.
THEOREM UndoErasesOwn ==
  ASSUME Quiet
  PROVE  Spec => []UndoErasesItsOwn
<1>1. PInv => UndoErasesItsOwn
  BY DEF PInv, PlacesAreOwn, OwnPlace, UndoErasesItsOwn
<1> QED BY <1>1, PlacesHold, PTL

\* A row of the registry has its repository at its path, through failures and
\* undos of imports, deletions, discards, deaths, starts and commands.
THEOREM RowsAreBacked ==
  ASSUME Sheltered
  PROVE  Spec => []RowsHaveTheirTree
<1>1. RInv => RowsHaveTheirTree
  BY DEF RInv, RowsInv
<1> QED BY <1>1, RowsHold, PTL

\* A job that ended without a result left no directory and no row, wherever it
\* failed and whenever it was cancelled.
THEOREM ResultsAreTrue ==
  ASSUME Sheltered
  PROVE  Spec => []ResultsTell
<1>1. RInv => ResultsTell
  BY DEF RInv
<1> QED BY <1>1, RowsHold, PTL

=============================================================================
