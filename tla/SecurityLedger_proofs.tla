------------------------- MODULE SecurityLedger_proofs -------------------------
(***************************************************************************)
(* For any policies, numbers of events and rotations, faults and deaths:   *)
(* the types, and that as long as no rollback failed the chain verifies,   *)
(* loses no event that it told of, and keeps the heads that anchors hold.  *)
(***************************************************************************)
EXTENDS SecurityLedger, SequenceTheorems, FiniteSetTheorems, TLAPS

-----------------------------------------------------------------------------
(* The types *)

RootTypes    == [end : Chains, segment : 0..MaxRotations]
SegmentTypes == [id : Rotations, before : 0..MaxRotations, prev : Chains, rows : Chains]
RowTypes     == [prev : Chains, segment : 0..MaxRotations, root : RootTypes, rows : Chains]
States       == Finished \cup {"none", "prepared", "installing", "installed", "recovery_failed"}
JournalTypes == [state : States, segment : SegmentTypes \cup {NoSegment}, pruned : SUBSET SegmentTypes,
                 active : RowTypes, root : RootTypes, newActive : RowTypes, newRoot : RootTypes]

Undoing   == {"undo", "undo segment", "undo pruned", "undo root", "report"}
Rotating  == Installing \cup {"prepare", "remove", "tell"}

ChainTyped ==
  /\ active \in RowTypes /\ segments \subseteq SegmentTypes /\ root \in RootTypes

FilesTyped ==
  /\ policy \in Policies /\ anchors \subseteq Chains /\ receipts \subseteq anchors

JournalsTyped ==
  /\ journal \in [Rotations -> JournalTypes] /\ backups \in [Rotations -> SUBSET Parts]
  /\ \A r \in Rotations : journal[r].state # "none" => journal[r].segment \in SegmentTypes
  /\ \A r \in Incomplete : journal[r].state # "recovery_failed" => {"active", "pruned"} \subseteq backups[r]

LocalsTyped ==
  /\ pc \in Rotating \cup Undoing \cup {"idle", "down", "recover", "write", "confirm", "failed"}
  /\ doing \in {"none", "policy", "anchor", "receipt"}
  /\ current \in 0..MaxRotations /\ queue \subseteq Rotations /\ compromised \in BOOLEAN

CountsTyped ==
  /\ made \in 0..MaxEvents /\ faults \in 0..MaxFaults /\ crashes \in 0..MaxCrashes
  /\ told \subseteq 1..made /\ left \in BOOLEAN

\* What each step may rely on: its rotation, the state of the journal, the event
\* that authorized it.
Steps ==
  /\ pc \in Rotating \cup Undoing \cup {"failed"} => current \in Rotations
  /\ pc = "prepare" => journal[current].state = "none"
  /\ pc \in Installing => journal[current].state \in {"prepared", "installing", "installed"}
  /\ pc \in {"remove", "tell"} => journal[current].state = "completed"
  /\ pc \in Undoing \cup {"failed"} => journal[current].state # "none"
  /\ \A r \in queue : journal[r].state # "none"
  /\ pc \in Rotating \cup {"write", "confirm"} => made > 0

TypesInv == ChainTyped /\ FilesTyped /\ JournalsTyped /\ LocalsTyped /\ CountsTyped /\ Steps

-----------------------------------------------------------------------------
(* The inductive invariant *)

\* Healthy, of a database, segments and a root that may not be the installed ones.
Chained(a, S, r) ==
  /\ a.root = r
  /\ \A s \in S :
       \/ s.before = r.segment /\ s.prev = r.end
       \/ \E t \in S : s.before = t.id /\ s.prev = End(t)
  /\ \A s, t \in S : s.before = t.before => s = t
  /\ \A s \in S : s.id = a.segment \/ \E t \in S : t.before = s.id
  /\ \/ S = {} /\ a.segment = r.segment /\ a.prev = r.end
     \/ \E s \in S : a.segment = s.id /\ a.prev = End(s)

Numbers(n) == [i \in 1..n |-> i]

\* The events are in the chain in the order they were made.
Numbered == End(active) = Numbers(made)

AnchorsAreOld == \A a \in anchors : \E n \in 0..made : a = Numbers(n)

\* The segments as they were before rotation r.
Base(r) == (segments \ {journal[r].segment}) \cup journal[r].pruned

Known(s) == s.rows # <<>> /\ journal[s.id].state # "none"

\* Nothing that a rollback of r needs is lost, whatever it installed.
Undoable(r) ==
  LET j == journal[r] IN
  /\ j.state # "recovery_failed"
  /\ j.root # Genesis => "root" \in backups[r]
  /\ Chained(j.active, Base(r), j.root)
  /\ active \in {j.active, j.newActive} /\ root \in {j.root, j.newRoot}
  /\ End(j.active) = End(j.newActive)
  /\ j.segment.id = r /\ j.segment.rows # <<>>
  /\ \A s \in Base(r) : s.id # r /\ Known(s)

\* At most one rotation is incomplete; somebody works on it, or the start will.
OneIncomplete ==
  /\ pc \in {"idle", "write", "confirm", "prepare", "remove", "tell"} => Incomplete = {}
  /\ pc \in Installing \cup Undoing => Incomplete = {current}
  /\ pc = "recover" => Incomplete = queue
  /\ pc \in Undoing => queue \subseteq {current}
  /\ pc \notin Undoing \cup {"recover"} => queue = {}
  /\ \A q, r \in Incomplete : q = r
  /\ pc # "failed" /\ ~compromised

\* How far a rollback came.
UndoneSoFar ==
  /\ pc \in {"undo segment", "undo pruned", "undo root", "report"} => active = journal[current].active
  /\ pc \in {"undo pruned", "undo root", "report"} => journal[current].segment \notin segments
  /\ pc \in {"undo root", "report"} => journal[current].pruned \subseteq segments
  /\ pc = "report" => root = journal[current].root

Sound ==
  /\ Numbered /\ AnchorsAreOld
  /\ OneIncomplete
  /\ Incomplete = {} => Healthy
  /\ \A s \in segments : Known(s)
  /\ \A r \in Incomplete : Undoable(r)
  /\ UndoneSoFar

ChainInv == ~left => Sound

-----------------------------------------------------------------------------
(* Lemmas on sequences *)

LEMMA ChainLength == ASSUME NEW c \in Chains PROVE Len(c) \in Nat
BY LenProperties DEF Chains

LEMMA ChainConcat ==
  ASSUME NEW c \in Chains, NEW d \in Chains
  PROVE  c \o d \in Chains /\ Len(c \o d) = Len(c) + Len(d)
BY ConcatProperties DEF Chains

LEMMA ChainsAssociate ==
  \A b, c, d \in Chains : (b \o c) \o d = b \o (c \o d)
<1> TAKE b, c, d \in Chains
<1> QED BY ConcatAssociative DEF Chains

LEMMA ChainSubSeq ==
  ASSUME NEW c \in Chains, NEW m \in Nat \ {0}, NEW n \in 0..Len(c)
  PROVE  /\ SubSeq(c, m, n) \in Chains
         /\ Len(SubSeq(c, m, n)) = IF m <= n THEN n - m + 1 ELSE 0
<1>1. Len(c) \in Nat
  BY ChainLength
<1>2. \A i \in m..n : i \in 1..Len(c)
  BY <1>1
<1>3. \A i \in m..n : c[i] \in Events
  BY <1>2, ElementOfSeq DEF Chains
<1> QED BY <1>3, SubSeqProperties DEF Chains

LEMMA EndTyped ==
  ASSUME NEW s, s.prev \in Chains, s.rows \in Chains
  PROVE  End(s) \in Chains /\ Len(End(s)) = Len(s.prev) + Len(s.rows)
BY ChainConcat DEF End

\* A sealed part and the rest of the rows are the rows.
LEMMA Divided ==
  ASSUME NEW c \in Chains, NEW d \in Chains, NEW n \in 0..Len(d)
  PROVE  (c \o SubSeq(d, 1, n)) \o SubSeq(d, n + 1, Len(d)) = c \o d
<1>1. Len(d) \in Nat
  BY ChainLength
<1>2. SubSeq(d, 1, n) \o SubSeq(d, n + 1, Len(d)) = SubSeq(d, 1, Len(d))
  <2>1. d \in Seq(Events) /\ 1 \in 1..(Len(d) + 1) /\ n \in (1 - 1)..Len(d) /\ Len(d) \in n..Len(d)
    BY <1>1 DEF Chains
  <2> QED BY <2>1, ConcatAdjacentSubSeq, Zenon
<1>3. SubSeq(d, 1, Len(d)) = d
  BY SubSeqFull DEF Chains
<1>4. SubSeq(d, 1, n) \in Chains /\ SubSeq(d, n + 1, Len(d)) \in Chains
  BY <1>1, ChainSubSeq
<1>5. (c \o SubSeq(d, 1, n)) \o SubSeq(d, n + 1, Len(d))
        = c \o (SubSeq(d, 1, n) \o SubSeq(d, n + 1, Len(d)))
  BY <1>4, ChainsAssociate
<1> QED BY <1>2, <1>3, <1>5

-----------------------------------------------------------------------------
(* The oldest segments *)

\* A set of naturals has a least element.
LEMMA LeastNatural ==
  ASSUME NEW T, T \subseteq Nat, T # {}
  PROVE  \E n \in T : \A m \in T : n <= m
<1> DEFINE U == {1..n : n \in T}
<1>1. U \subseteq FiniteSubsetsOf(Nat)
  BY FS_Interval DEF FiniteSubsetsOf
<1>2. U # {}
  OBVIOUS
<1> HIDE DEF U
<1>3. PICK u \in U : \A v \in U : <<v, u>> \notin StrictSubsetOrdering(Nat)
  BY <1>1, <1>2, FS_StrictSubsetOrderingWellFounded, WFMin
<1>4. PICK n \in T : u = 1..n
  BY DEF U
<1>5. ASSUME NEW m \in T, m < n PROVE FALSE
  <2>1. 1..m \in U
    BY DEF U
  <2>2. 1..m \subseteq 1..n /\ 1..m # 1..n
    BY <1>5
  <2>3. 1..m \in SUBSET Nat /\ 1..n \in SUBSET Nat
    OBVIOUS
  <2>4. <<1..m, 1..n>> \in StrictSubsetOrdering(Nat)
    BY <2>2, <2>3, Zenon DEF StrictSubsetOrdering
  <2> QED BY <1>3, <1>4, <2>1, <2>4
<1> QED BY <1>5

\* The newest of the segments that retention deletes is one of them.
LEMMA PrunableNewest ==
  ASSUME ChainTyped, FilesTyped, Parameters, NEW total \in Int, Prunable(total) # {}
  PROVE  LastOf(Prunable(total)) \in Prunable(total)
<1> DEFINE S == Prunable(total)
           b == total + Len(root.end)
           Depths == {b - Len(s.prev) : s \in S}
<1>1. S \subseteq segments /\ \A s \in S : Len(s.prev) \in Nat
  BY ChainLength DEF Prunable, ChainTyped, SegmentTypes
<1>2. b \in Int /\ policy \in Nat /\ Len(root.end) \in Nat
  BY ChainLength DEF ChainTyped, FilesTyped, RootTypes, Parameters
<1>3. \A s \in S : b - Len(s.prev) \in Nat
  <2> SUFFICES ASSUME NEW s \in S PROVE b - Len(s.prev) \in Nat
    OBVIOUS
  <2>1. total - (Len(s.prev) - Len(root.end)) > policy
    BY DEF Prunable
  <2>2. Len(s.prev) \in Nat
    BY <1>1
  <2>3. ASSUME NEW x \in Nat, NEW y \in Nat, NEW p \in Nat, total - (x - y) > p
        PROVE  (total + y) - x \in Nat
    BY <2>3
  <2> HIDE DEF S
  <2> QED BY <1>2, <2>1, <2>2, <2>3
<1>4. PICK d \in Depths : \A e \in Depths : d <= e
  <2>1. Depths \subseteq Nat /\ Depths # {}
    BY <1>3
  <2> HIDE DEF Depths
  <2> QED BY <2>1, LeastNatural
<1>5. PICK s \in S : d = b - Len(s.prev)
  BY <1>4
<1>6. ASSUME NEW u \in S PROVE Len(u.prev) <= Len(s.prev)
  <2>1. b - Len(u.prev) \in Depths
    OBVIOUS
  <2>2. b - Len(s.prev) <= b - Len(u.prev)
    BY <1>4, <1>5, <2>1
  <2> HIDE DEF b, S
  <2>3. Len(u.prev) \in Nat /\ Len(s.prev) \in Nat
    BY <1>1, <1>5, <1>6
  <2> QED BY <1>2, <2>2, <2>3
<1> QED BY <1>5, <1>6 DEF LastOf


LEMMA PlanTyped ==
  ASSUME ChainTyped, FilesTyped, Parameters, current \in Rotations,
         NEW count \in 1..(Len(active.rows) - 2)
  PROVE  Plan(count) \in JournalTypes /\ Plan(count).segment \in SegmentTypes
<1> DEFINE total   == Len(Tip) - 1 - Len(root.end)
           pruned  == Prunable(total)
           segment == [id |-> current, before |-> active.segment, prev |-> active.prev,
                       rows |-> SubSeq(active.rows, 1, count)]
           newRoot == IF pruned = {} THEN root
                      ELSE [end |-> End(LastOf(pruned)), segment |-> LastOf(pruned).id]
           newActive == [prev |-> End(segment), segment |-> current, root |-> newRoot,
                         rows |-> SubSeq(active.rows, count + 1, Len(active.rows))]
<1>1. active \in RowTypes /\ root \in RootTypes /\ segments \subseteq SegmentTypes
  BY DEF ChainTyped
<1>2. active.rows \in Chains /\ Len(active.rows) \in Nat /\ total \in Int
  BY <1>1, ChainLength, ChainConcat DEF Tip, RowTypes, RootTypes
<1> HIDE DEF total
<1>3. pruned \subseteq SegmentTypes
  BY <1>1 DEF Prunable
<1>4. segment \in SegmentTypes
  <2>1. count \in 0..Len(active.rows)
    BY <1>2
  <2>2. SubSeq(active.rows, 1, count) \in Chains
    BY <1>2, <2>1, ChainSubSeq
  <2> QED BY <1>1, <2>2 DEF SegmentTypes, RowTypes
<1>5. newRoot \in RootTypes
  <2>1. CASE pruned = {}
    BY <1>1, <2>1
  <2>2. CASE pruned # {}
    <3> DEFINE s == LastOf(pruned)
    <3>1. s \in SegmentTypes
      BY <1>2, <1>3, <2>2, PrunableNewest
    <3> HIDE DEF s
    <3>2. End(s) \in Chains
      BY <3>1, EndTyped DEF SegmentTypes
    <3>3. s.id \in 0..MaxRotations
      BY <3>1, Parameters DEF SegmentTypes, Rotations
    <3>4. newRoot = [end |-> End(s), segment |-> s.id]
      BY <2>2 DEF s
    <3> QED BY <3>2, <3>3, <3>4 DEF RootTypes
  <2> QED BY <2>1, <2>2
<1>6. newActive \in RowTypes
  <2>1. End(segment) \in Chains
    BY <1>4, EndTyped DEF SegmentTypes
  <2>2. SubSeq(active.rows, count + 1, Len(active.rows)) \in Chains
    BY <1>1, <1>2, ChainSubSeq DEF RowTypes
  <2>3. current \in 0..MaxRotations
    BY DEF Rotations
  <2> HIDE DEF segment, newRoot
  <2> QED BY <1>5, <2>1, <2>2, <2>3 DEF RowTypes
<1>7. Plan(count) = [state |-> "prepared", segment |-> segment, pruned |-> pruned,
                     active |-> active, root |-> root, newRoot |-> newRoot, newActive |-> newActive]
  BY DEF Plan, total
<1> HIDE DEF pruned, segment, newRoot, newActive
<1> QED BY <1>1, <1>3, <1>4, <1>5, <1>6, <1>7 DEF JournalTypes, States

-----------------------------------------------------------------------------
(* Every step keeps the types *)

LEMMA AppendTyped ==
  ASSUME Append1, ChainTyped, CountsTyped, Parameters
  PROVE  active' \in RowTypes /\ made' \in 1..MaxEvents /\ made' = made + 1
<1>1. active.rows \in Chains /\ made + 1 \in Events
  BY DEF Append1, ChainTyped, RowTypes, CountsTyped, Events, Parameters
<1>2. Append(active.rows, made + 1) \in Chains
  BY <1>1, AppendProperties DEF Chains
<1> QED BY <1>1, <1>2 DEF Append1, ChainTyped, RowTypes, CountsTyped, Events, Parameters

LEMMA JournalTyped ==
  ASSUME JournalsTyped, NEW r \in Rotations
  PROVE  /\ journal[r] \in JournalTypes /\ journal[r].state \in States
         /\ journal[r].state # "none" => journal[r].segment \in SegmentTypes
         /\ journal[r].pruned \subseteq SegmentTypes
         /\ journal[r].active \in RowTypes /\ journal[r].newActive \in RowTypes
         /\ journal[r].root \in RootTypes /\ journal[r].newRoot \in RootTypes
<1>1. journal[r] \in JournalTypes
  BY DEF JournalsTyped
<1> QED BY <1>1 DEF JournalsTyped, JournalTypes

LEMMA SetStateTyped ==
  ASSUME JournalsTyped, current \in Rotations, UNCHANGED backups,
         NEW state \in States \ {"none", "prepared"}, SetState(state),
         journal[current].state # "none",
         state \in {"installing", "installed"} =>
           journal[current].state \in {"prepared", "installing", "installed"}
  PROVE  /\ JournalsTyped' /\ journal'[current].state = state
         /\ \A r \in Rotations \ {current} : journal'[r] = journal[r]
<1>1. journal \in [Rotations -> JournalTypes]
  BY DEF JournalsTyped
<1>2. journal' = [journal EXCEPT ![current] = [journal[current] EXCEPT !.state = state]]
  BY <1>1 DEF SetState
<1>3. journal[current] \in JournalTypes /\ [journal[current] EXCEPT !.state = state] \in JournalTypes
  BY <1>1 DEF JournalTypes
<1>4. /\ journal'[current] = [journal[current] EXCEPT !.state = state]
      /\ \A r \in Rotations \ {current} : journal'[r] = journal[r]
  BY <1>1, <1>2
<1>5. journal'[current].state = state /\ journal'[current].segment = journal[current].segment
  BY <1>3, <1>4 DEF JournalTypes
<1>6. journal' \in [Rotations -> JournalTypes]
  BY <1>1, <1>2, <1>3
<1>7. \A r \in Rotations : journal'[r].state # "none" => journal'[r].segment \in SegmentTypes
  BY <1>4, <1>5 DEF JournalsTyped
<1>8. ASSUME NEW r \in Incomplete', journal'[r].state # "recovery_failed"
      PROVE  {"active", "pruned"} \subseteq backups'[r]
  <2>1. r \in Rotations /\ journal'[r].state \notin Finished \cup {"none"}
    BY <1>8 DEF Incomplete
  <2>2. r # current => journal[r].state = journal'[r].state
    BY <1>4, <2>1
  <2>3. r = current => state \in {"installing", "installed"}
    BY <1>5, <1>8, <2>1 DEF States, Finished
  <2>4. journal[r].state \notin Finished \cup {"none", "recovery_failed"}
    BY <1>8, <2>1, <2>2, <2>3 DEF Finished
  <2> QED BY <2>1, <2>4 DEF JournalsTyped, Incomplete
<1>9. backups' \in [Rotations -> SUBSET Parts]
  BY DEF JournalsTyped
<1> QED BY <1>4, <1>5, <1>6, <1>7, <1>8, <1>9 DEF JournalsTyped

LEMMA RaiseTyped ==
  ASSUME CountsTyped, Parameters, NEW kind, UNCHANGED bounds \/ Raise(kind)
  PROVE  faults' \in 0..MaxFaults /\ crashes' \in 0..MaxCrashes
BY DEF CountsTyped, Parameters, bounds, Raise

LEMMA LeaveTyped ==
  ASSUME LocalsTyped, Parameters, pc' \in {"idle", "down", "recover"},
         current' = 0, doing' = "none", queue' \subseteq queue, compromised' \in BOOLEAN
  PROVE  LocalsTyped'
BY DEF LocalsTyped

LEMMA HealthyIsBoolean == (~Healthy) \in BOOLEAN
BY DEF Healthy

LEMMA TypesStep ==
  ASSUME TypesInv, [Next]_vars, Parameters
  PROVE  TypesInv'
<1>1. ChainTyped /\ FilesTyped /\ JournalsTyped /\ LocalsTyped /\ CountsTyped /\ Steps
  BY DEF TypesInv
<1>2. CASE Record
  <2>1. ChainTyped'
    BY <1>1, <1>2, AppendTyped DEF Record, Append1, ChainTyped
  <2>2. FilesTyped'
    BY <1>1, <1>2 DEF Record, FilesTyped, files
  <2>3. JournalsTyped'
    BY <1>1, <1>2 DEF Record, JournalsTyped, rotation, Incomplete
  <2>4. LocalsTyped'
    BY <1>1, <1>2, HealthyIsBoolean, Parameters DEF Record, LocalsTyped, locals, Leave, EndUndo,
       recovering, Rotating, Installing, Undoing
  <2>5. CountsTyped'
    BY <1>1, <1>2, AppendTyped, RaiseTyped, Parameters DEF Record, CountsTyped, bounds, Append1
  <2>6. Steps'
    BY <1>1, <1>2, AppendTyped DEF Record, Steps, locals, rotation, Leave, EndUndo, recovering,
       Rotating, Installing, Undoing, Incomplete, LocalsTyped, CountsTyped
  <2> QED BY <2>1, <2>2, <2>3, <2>4, <2>5, <2>6 DEF TypesInv
<1>3. CASE RecordFails
  <2>1. ChainTyped'
    BY <1>1, <1>3, AppendTyped DEF RecordFails, Append1, ChainTyped
  <2>2. FilesTyped'
    BY <1>1, <1>3 DEF RecordFails, FilesTyped, files
  <2>3. JournalsTyped'
    BY <1>1, <1>3 DEF RecordFails, JournalsTyped, rotation, Incomplete
  <2>4. LocalsTyped'
    BY <1>1, <1>3, HealthyIsBoolean, Parameters DEF RecordFails, LocalsTyped, locals, Leave,
       EndUndo, recovering, Rotating, Installing, Undoing
  <2>5. CountsTyped'
    <3>1. made' \in 1..MaxEvents /\ made' = made + 1 /\ UNCHANGED <<told, left>>
      BY <1>1, <1>3, AppendTyped DEF RecordFails
    <3>2. faults' \in 0..MaxFaults /\ crashes' \in 0..MaxCrashes
      BY <1>1, <1>3, RaiseTyped, Parameters DEF RecordFails
    <3>3. made' \in 0..MaxEvents /\ 1..made \subseteq 1..made'
      BY <1>1, <3>1, Parameters DEF CountsTyped
    <3> QED BY <1>1, <3>1, <3>2, <3>3 DEF CountsTyped
  <2>6. Steps'
    BY <1>1, <1>3, AppendTyped DEF RecordFails, Steps, locals, rotation, Leave, EndUndo,
       recovering, Rotating, Installing, Undoing, Incomplete, LocalsTyped, CountsTyped
  <2> QED BY <2>1, <2>2, <2>3, <2>4, <2>5, <2>6 DEF TypesInv
<1>4. CASE Verify
  <2>1. ChainTyped'
    BY <1>1, <1>4 DEF Verify, ChainTyped, chain
  <2>2. FilesTyped'
    BY <1>1, <1>4 DEF Verify, FilesTyped, files
  <2>3. JournalsTyped'
    BY <1>1, <1>4 DEF Verify, JournalsTyped, rotation, Incomplete
  <2>4. LocalsTyped'
    BY <1>1, <1>4, HealthyIsBoolean, Parameters DEF Verify, LocalsTyped, locals, Leave, EndUndo,
       recovering, Rotating, Installing, Undoing
  <2>5. CountsTyped'
    BY <1>1, <1>4, Parameters DEF Verify, CountsTyped, bounds
  <2>6. Steps'
    BY <1>1, <1>4 DEF Verify, Steps, locals, rotation, Leave, EndUndo, recovering, Rotating,
       Installing, Undoing, Incomplete, LocalsTyped, CountsTyped
  <2> QED BY <2>1, <2>2, <2>3, <2>4, <2>5, <2>6 DEF TypesInv
<1>5. CASE Authorize
  <2>1. ChainTyped'
    BY <1>1, <1>5, AppendTyped DEF Authorize, Append1, ChainTyped
  <2>2. FilesTyped'
    BY <1>1, <1>5 DEF Authorize, FilesTyped, files
  <2>3. JournalsTyped'
    BY <1>1, <1>5 DEF Authorize, JournalsTyped, rotation, Incomplete
  <2>4. LocalsTyped'
    BY <1>1, <1>5, HealthyIsBoolean, Parameters DEF Authorize, LocalsTyped, locals, Leave,
       EndUndo, recovering, Rotating, Installing, Undoing
  <2>5. CountsTyped'
    BY <1>1, <1>5, AppendTyped, RaiseTyped, Parameters DEF Authorize, CountsTyped, bounds, Append1
  <2>6. Steps'
    BY <1>1, <1>5, AppendTyped DEF Authorize, Steps, locals, rotation, Leave, EndUndo,
       recovering, Rotating, Installing, Undoing, Incomplete, LocalsTyped, CountsTyped
  <2> QED BY <2>1, <2>2, <2>3, <2>4, <2>5, <2>6 DEF TypesInv
<1>6. CASE WriteFile
  <2>1. ChainTyped'
    BY <1>1, <1>6 DEF WriteFile, ChainTyped, chain
  <2>2. FilesTyped'
    BY <1>1, <1>6, ChainConcat DEF WriteFile, FilesTyped, files, Tip, ChainTyped, RowTypes
  <2>3. JournalsTyped'
    BY <1>1, <1>6 DEF WriteFile, JournalsTyped, rotation, Incomplete
  <2>4. LocalsTyped'
    BY <1>1, <1>6, HealthyIsBoolean, Parameters DEF WriteFile, LocalsTyped, locals, Leave,
       EndUndo, recovering, Rotating, Installing, Undoing
  <2>5. CountsTyped'
    BY <1>1, <1>6, Parameters DEF WriteFile, CountsTyped, bounds
  <2>6. Steps'
    BY <1>1, <1>6 DEF WriteFile, Steps, locals, rotation, Leave, EndUndo, recovering, Rotating,
       Installing, Undoing, Incomplete, LocalsTyped, CountsTyped
  <2> QED BY <2>1, <2>2, <2>3, <2>4, <2>5, <2>6 DEF TypesInv
<1>7. CASE Confirm
  <2>1. ChainTyped'
    BY <1>1, <1>7, AppendTyped DEF Confirm, Append1, ChainTyped
  <2>2. FilesTyped'
    BY <1>1, <1>7 DEF Confirm, FilesTyped, files
  <2>3. JournalsTyped'
    BY <1>1, <1>7 DEF Confirm, JournalsTyped, rotation, Incomplete
  <2>4. LocalsTyped'
    BY <1>1, <1>7, HealthyIsBoolean, Parameters DEF Confirm, LocalsTyped, locals, Leave,
       EndUndo, recovering, Rotating, Installing, Undoing
  <2>5. CountsTyped'
    BY <1>1, <1>7, AppendTyped, RaiseTyped, Parameters DEF Confirm, CountsTyped, bounds,
       Append1, Steps, Rotating
  <2>6. Steps'
    BY <1>1, <1>7, AppendTyped DEF Confirm, Steps, locals, rotation, Leave, EndUndo, recovering,
       Rotating, Installing, Undoing, Incomplete, LocalsTyped, CountsTyped
  <2> QED BY <2>1, <2>2, <2>3, <2>4, <2>5, <2>6 DEF TypesInv
<1>8. CASE ProtectedFails
  <2>1. ChainTyped'
    BY <1>1, <1>8 DEF ProtectedFails, ChainTyped, chain
  <2>2. FilesTyped'
    BY <1>1, <1>8 DEF ProtectedFails, FilesTyped, files
  <2>3. JournalsTyped'
    BY <1>1, <1>8 DEF ProtectedFails, JournalsTyped, rotation, Incomplete
  <2>4. LocalsTyped'
    BY <1>1, <1>8, LeaveTyped, HealthyIsBoolean DEF ProtectedFails, Leave, EndUndo, LocalsTyped
  <2>5. CountsTyped'
    BY <1>1, <1>8, RaiseTyped DEF ProtectedFails, CountsTyped, bounds
  <2>6. Steps'
    BY <1>1, <1>8 DEF ProtectedFails, Steps, locals, rotation, Leave, EndUndo, recovering,
       Rotating, Installing, Undoing, Incomplete, LocalsTyped, CountsTyped
  <2> QED BY <2>1, <2>2, <2>3, <2>4, <2>5, <2>6 DEF TypesInv
<1>9. CASE AuthorizeRotation
  <2>1. ChainTyped'
    BY <1>1, <1>9, AppendTyped DEF AuthorizeRotation, Append1, ChainTyped
  <2>2. FilesTyped'
    BY <1>1, <1>9 DEF AuthorizeRotation, FilesTyped, files
  <2>3. JournalsTyped'
    BY <1>1, <1>9 DEF AuthorizeRotation, JournalsTyped, rotation, Incomplete
  <2>4. LocalsTyped'
    BY <1>1, <1>9, HealthyIsBoolean, Parameters DEF AuthorizeRotation, LocalsTyped, locals,
       Leave, EndUndo, recovering, Rotating, Installing, Undoing, Rotations
  <2>5. CountsTyped'
    BY <1>1, <1>9, AppendTyped, RaiseTyped, Parameters DEF AuthorizeRotation, CountsTyped,
       bounds, Append1
  <2>6. Steps'
    BY <1>1, <1>9, AppendTyped DEF AuthorizeRotation, Steps, locals, rotation, Leave, EndUndo,
       recovering, Rotating, Installing, Undoing, Incomplete, LocalsTyped, CountsTyped,
       Rotations
  <2> QED BY <2>1, <2>2, <2>3, <2>4, <2>5, <2>6 DEF TypesInv
<1>10. CASE Prepare
  <2>1. ChainTyped'
    BY <1>1, <1>10 DEF Prepare, ChainTyped, chain
  <2>2. FilesTyped'
    BY <1>1, <1>10 DEF Prepare, FilesTyped, files
  <2>3. JournalsTyped'
    <3>1. current \in Rotations /\ journal[current].state = "none"
      BY <1>1, <1>10 DEF Prepare, Steps, Rotating
    <3>2. PICK count \in 1..(Len(active.rows) - 2) : journal' = [journal EXCEPT ![current] = Plan(count)]
      BY <1>10 DEF Prepare
    <3>3. Plan(count) \in JournalTypes /\ Plan(count).segment \in SegmentTypes
      BY <1>1, <3>1, PlanTyped
    <3>4. backups' \in [Rotations -> SUBSET Parts] /\ {"active", "pruned"} \subseteq backups'[current]
          /\ \A r \in Rotations \ {current} : backups'[r] = backups[r]
      BY <1>1, <1>10, <3>1 DEF Prepare, JournalsTyped, Parts
    <3> QED BY <1>1, <3>1, <3>2, <3>3, <3>4 DEF JournalsTyped, Incomplete
  <2>4. LocalsTyped'
    BY <1>1, <1>10, HealthyIsBoolean, Parameters DEF Prepare, LocalsTyped, locals, Leave,
       EndUndo, recovering, Rotating, Installing, Undoing
  <2>5. CountsTyped'
    BY <1>1, <1>10, Parameters DEF Prepare, CountsTyped, bounds
  <2>6. Steps'
    BY <1>1, <1>10 DEF Prepare, Steps, locals, rotation, Leave, EndUndo, recovering, Rotating,
       Installing, Undoing, Incomplete, LocalsTyped, CountsTyped, JournalsTyped, Plan
  <2> QED BY <2>1, <2>2, <2>3, <2>4, <2>5, <2>6 DEF TypesInv
<1>11. CASE WriteInstalling
  <2>1. ChainTyped'
    BY <1>1, <1>11 DEF WriteInstalling, ChainTyped, chain
  <2>2. FilesTyped'
    BY <1>1, <1>11 DEF WriteInstalling, FilesTyped, files
  <2>3. JournalsTyped'
    BY <1>1, <1>11, SetStateTyped DEF WriteInstalling, Steps, Rotating, Installing, Undoing,
       States, Finished
  <2>4. LocalsTyped'
    BY <1>1, <1>11, HealthyIsBoolean, Parameters DEF WriteInstalling, LocalsTyped, locals,
       Leave, EndUndo, recovering, Rotating, Installing, Undoing
  <2>5. CountsTyped'
    BY <1>1, <1>11, Parameters DEF WriteInstalling, CountsTyped, bounds
  <2>6. Steps'
    BY <1>1, <1>11, SetStateTyped DEF WriteInstalling, Steps, locals, rotation, Leave, EndUndo,
       recovering, Rotating, Installing, Undoing, Incomplete, LocalsTyped, CountsTyped,
       Finished, States
  <2> QED BY <2>1, <2>2, <2>3, <2>4, <2>5, <2>6 DEF TypesInv
<1>12. CASE InstallSegment
  <2>1. ChainTyped'
    BY <1>1, <1>12, JournalTyped DEF InstallSegment, Steps, ChainTyped, Rotating, Installing,
       Undoing
  <2>2. FilesTyped'
    BY <1>1, <1>12 DEF InstallSegment, FilesTyped, files
  <2>3. JournalsTyped'
    BY <1>1, <1>12 DEF InstallSegment, JournalsTyped, rotation, Incomplete
  <2>4. LocalsTyped'
    BY <1>1, <1>12, HealthyIsBoolean, Parameters DEF InstallSegment, LocalsTyped, locals, Leave,
       EndUndo, recovering, Rotating, Installing, Undoing
  <2>5. CountsTyped'
    BY <1>1, <1>12, Parameters DEF InstallSegment, CountsTyped, bounds
  <2>6. Steps'
    BY <1>1, <1>12 DEF InstallSegment, Steps, locals, rotation, Leave, EndUndo, recovering,
       Rotating, Installing, Undoing, Incomplete, LocalsTyped, CountsTyped
  <2> QED BY <2>1, <2>2, <2>3, <2>4, <2>5, <2>6 DEF TypesInv
<1>13. CASE PruneSegment
  <2>1. ChainTyped'
    BY <1>1, <1>13 DEF PruneSegment, ChainTyped, chain
  <2>2. FilesTyped'
    BY <1>1, <1>13 DEF PruneSegment, FilesTyped, files
  <2>3. JournalsTyped'
    BY <1>1, <1>13 DEF PruneSegment, JournalsTyped, rotation, Incomplete
  <2>4. LocalsTyped'
    BY <1>1, <1>13, HealthyIsBoolean, Parameters DEF PruneSegment, LocalsTyped, locals, Leave,
       EndUndo, recovering, Rotating, Installing, Undoing
  <2>5. CountsTyped'
    BY <1>1, <1>13, Parameters DEF PruneSegment, CountsTyped, bounds
  <2>6. Steps'
    BY <1>1, <1>13 DEF PruneSegment, Steps, locals, rotation, Leave, EndUndo, recovering,
       Rotating, Installing, Undoing, Incomplete, LocalsTyped, CountsTyped
  <2> QED BY <2>1, <2>2, <2>3, <2>4, <2>5, <2>6 DEF TypesInv
<1>14. CASE InstallRoot
  <2>1. ChainTyped'
    BY <1>1, <1>14, JournalTyped DEF InstallRoot, Steps, ChainTyped, Rotating, Installing, Undoing
  <2>2. FilesTyped'
    BY <1>1, <1>14 DEF InstallRoot, FilesTyped, files
  <2>3. JournalsTyped'
    BY <1>1, <1>14 DEF InstallRoot, JournalsTyped, rotation, Incomplete
  <2>4. LocalsTyped'
    BY <1>1, <1>14, HealthyIsBoolean, Parameters DEF InstallRoot, LocalsTyped, locals, Leave,
       EndUndo, recovering, Rotating, Installing, Undoing
  <2>5. CountsTyped'
    BY <1>1, <1>14, Parameters DEF InstallRoot, CountsTyped, bounds
  <2>6. Steps'
    BY <1>1, <1>14 DEF InstallRoot, Steps, locals, rotation, Leave, EndUndo, recovering,
       Rotating, Installing, Undoing, Incomplete, LocalsTyped, CountsTyped
  <2> QED BY <2>1, <2>2, <2>3, <2>4, <2>5, <2>6 DEF TypesInv
<1>15. CASE InstallActive
  <2>1. ChainTyped'
    BY <1>1, <1>15, JournalTyped DEF InstallActive, Steps, ChainTyped, Rotating, Installing,
       Undoing
  <2>2. FilesTyped'
    BY <1>1, <1>15 DEF InstallActive, FilesTyped, files
  <2>3. JournalsTyped'
    BY <1>1, <1>15 DEF InstallActive, JournalsTyped, rotation, Incomplete
  <2>4. LocalsTyped'
    BY <1>1, <1>15, HealthyIsBoolean, Parameters DEF InstallActive, LocalsTyped, locals, Leave,
       EndUndo, recovering, Rotating, Installing, Undoing
  <2>5. CountsTyped'
    BY <1>1, <1>15, Parameters DEF InstallActive, CountsTyped, bounds
  <2>6. Steps'
    BY <1>1, <1>15 DEF InstallActive, Steps, locals, rotation, Leave, EndUndo, recovering,
       Rotating, Installing, Undoing, Incomplete, LocalsTyped, CountsTyped
  <2> QED BY <2>1, <2>2, <2>3, <2>4, <2>5, <2>6 DEF TypesInv
<1>16. CASE WriteInstalled
  <2>1. ChainTyped'
    BY <1>1, <1>16 DEF WriteInstalled, ChainTyped, chain
  <2>2. FilesTyped'
    BY <1>1, <1>16 DEF WriteInstalled, FilesTyped, files
  <2>3. JournalsTyped'
    BY <1>1, <1>16, SetStateTyped DEF WriteInstalled, Steps, Rotating, Installing, Undoing,
       States, Finished
  <2>4. LocalsTyped'
    BY <1>1, <1>16, HealthyIsBoolean, Parameters DEF WriteInstalled, LocalsTyped, locals, Leave,
       EndUndo, recovering, Rotating, Installing, Undoing
  <2>5. CountsTyped'
    BY <1>1, <1>16, Parameters DEF WriteInstalled, CountsTyped, bounds
  <2>6. Steps'
    BY <1>1, <1>16, SetStateTyped DEF WriteInstalled, Steps, locals, rotation, Leave, EndUndo,
       recovering, Rotating, Installing, Undoing, Incomplete, LocalsTyped, CountsTyped,
       Finished, States
  <2> QED BY <2>1, <2>2, <2>3, <2>4, <2>5, <2>6 DEF TypesInv
<1>17. CASE WriteCompleted
  <2>1. ChainTyped'
    BY <1>1, <1>17 DEF WriteCompleted, ChainTyped, chain
  <2>2. FilesTyped'
    BY <1>1, <1>17 DEF WriteCompleted, FilesTyped, files
  <2>3. JournalsTyped'
    BY <1>1, <1>17, SetStateTyped DEF WriteCompleted, Steps, Rotating, Installing, Undoing,
       States, Finished
  <2>4. LocalsTyped'
    BY <1>1, <1>17, HealthyIsBoolean, Parameters DEF WriteCompleted, LocalsTyped, locals, Leave,
       EndUndo, recovering, Rotating, Installing, Undoing
  <2>5. CountsTyped'
    BY <1>1, <1>17, Parameters DEF WriteCompleted, CountsTyped, bounds
  <2>6. Steps'
    BY <1>1, <1>17, SetStateTyped DEF WriteCompleted, Steps, locals, rotation, Leave, EndUndo,
       recovering, Rotating, Installing, Undoing, Incomplete, LocalsTyped, CountsTyped,
       Finished, States
  <2> QED BY <2>1, <2>2, <2>3, <2>4, <2>5, <2>6 DEF TypesInv
<1>18. CASE RemoveBackups
  <2>1. ChainTyped'
    BY <1>1, <1>18 DEF RemoveBackups, ChainTyped, chain
  <2>2. FilesTyped'
    BY <1>1, <1>18 DEF RemoveBackups, FilesTyped, files
  <2>3. JournalsTyped'
    BY <1>1, <1>18 DEF RemoveBackups, JournalsTyped, rotation, Incomplete, Steps, Rotating,
       Parts, Finished
  <2>4. LocalsTyped'
    BY <1>1, <1>18, HealthyIsBoolean, Parameters DEF RemoveBackups, LocalsTyped, locals, Leave,
       EndUndo, recovering, Rotating, Installing, Undoing
  <2>5. CountsTyped'
    BY <1>1, <1>18, RaiseTyped DEF RemoveBackups, CountsTyped, bounds
  <2>6. Steps'
    BY <1>1, <1>18 DEF RemoveBackups, Steps, locals, rotation, Leave, EndUndo, recovering,
       Rotating, Installing, Undoing, Incomplete, LocalsTyped, CountsTyped, JournalsTyped, Plan
  <2> QED BY <2>1, <2>2, <2>3, <2>4, <2>5, <2>6 DEF TypesInv
<1>19. CASE TellCompleted
  <2>1. ChainTyped'
    BY <1>1, <1>19, AppendTyped DEF TellCompleted, Append1, ChainTyped
  <2>2. FilesTyped'
    BY <1>1, <1>19 DEF TellCompleted, FilesTyped, files
  <2>3. JournalsTyped'
    BY <1>1, <1>19 DEF TellCompleted, JournalsTyped, rotation, Incomplete
  <2>4. LocalsTyped'
    BY <1>1, <1>19, HealthyIsBoolean, Parameters DEF TellCompleted, LocalsTyped, locals, Leave,
       EndUndo, recovering, Rotating, Installing, Undoing
  <2>5. CountsTyped'
    BY <1>1, <1>19, AppendTyped, RaiseTyped, Parameters DEF TellCompleted, CountsTyped, bounds,
       Append1, Steps, Rotating
  <2>6. Steps'
    BY <1>1, <1>19, AppendTyped DEF TellCompleted, Steps, locals, rotation, Leave, EndUndo,
       recovering, Rotating, Installing, Undoing, Incomplete, LocalsTyped, CountsTyped
  <2> QED BY <2>1, <2>2, <2>3, <2>4, <2>5, <2>6 DEF TypesInv
<1>20. CASE StepFails
  <2>1. ChainTyped'
    BY <1>1, <1>20 DEF StepFails, ChainTyped, chain
  <2>2. FilesTyped'
    BY <1>1, <1>20 DEF StepFails, FilesTyped, files
  <2>3. JournalsTyped'
    BY <1>1, <1>20 DEF StepFails, JournalsTyped, rotation, Incomplete
  <2>4. LocalsTyped'
    BY <1>1, <1>20, HealthyIsBoolean, Parameters DEF StepFails, LocalsTyped, locals, Leave,
       EndUndo, recovering, Rotating, Installing, Undoing
  <2>5. CountsTyped'
    BY <1>1, <1>20, RaiseTyped DEF StepFails, CountsTyped, bounds
  <2>6. Steps'
    BY <1>1, <1>20 DEF StepFails, Steps, locals, rotation, Leave, EndUndo, recovering, Rotating,
       Installing, Undoing, Incomplete, LocalsTyped, CountsTyped
  <2> QED BY <2>1, <2>2, <2>3, <2>4, <2>5, <2>6 DEF TypesInv
<1>21. CASE RestoreActive
  <2>1. ChainTyped'
    BY <1>1, <1>21, JournalTyped DEF RestoreActive, Steps, ChainTyped, Rotating, Installing,
       Undoing
  <2>2. FilesTyped'
    BY <1>1, <1>21 DEF RestoreActive, FilesTyped, files
  <2>3. JournalsTyped'
    BY <1>1, <1>21 DEF RestoreActive, JournalsTyped, rotation, Incomplete
  <2>4. LocalsTyped'
    BY <1>1, <1>21, HealthyIsBoolean, Parameters DEF RestoreActive, LocalsTyped, locals, Leave,
       EndUndo, recovering, Rotating, Installing, Undoing
  <2>5. CountsTyped'
    BY <1>1, <1>21, Parameters DEF RestoreActive, CountsTyped, bounds
  <2>6. Steps'
    BY <1>1, <1>21 DEF RestoreActive, Steps, locals, rotation, Leave, EndUndo, recovering,
       Rotating, Installing, Undoing, Incomplete, LocalsTyped, CountsTyped
  <2> QED BY <2>1, <2>2, <2>3, <2>4, <2>5, <2>6 DEF TypesInv
<1>22. CASE RemoveSegment
  <2>1. ChainTyped'
    BY <1>1, <1>22 DEF RemoveSegment, ChainTyped, chain
  <2>2. FilesTyped'
    BY <1>1, <1>22 DEF RemoveSegment, FilesTyped, files
  <2>3. JournalsTyped'
    BY <1>1, <1>22 DEF RemoveSegment, JournalsTyped, rotation, Incomplete
  <2>4. LocalsTyped'
    BY <1>1, <1>22, HealthyIsBoolean, Parameters DEF RemoveSegment, LocalsTyped, locals, Leave,
       EndUndo, recovering, Rotating, Installing, Undoing
  <2>5. CountsTyped'
    BY <1>1, <1>22, Parameters DEF RemoveSegment, CountsTyped, bounds
  <2>6. Steps'
    BY <1>1, <1>22 DEF RemoveSegment, Steps, locals, rotation, Leave, EndUndo, recovering,
       Rotating, Installing, Undoing, Incomplete, LocalsTyped, CountsTyped
  <2> QED BY <2>1, <2>2, <2>3, <2>4, <2>5, <2>6 DEF TypesInv
<1>23. CASE RestorePruned
  <2>1. ChainTyped'
    BY <1>1, <1>23, JournalTyped DEF RestorePruned, Steps, ChainTyped, Rotating, Installing,
       Undoing
  <2>2. FilesTyped'
    BY <1>1, <1>23 DEF RestorePruned, FilesTyped, files
  <2>3. JournalsTyped'
    BY <1>1, <1>23 DEF RestorePruned, JournalsTyped, rotation, Incomplete
  <2>4. LocalsTyped'
    BY <1>1, <1>23, HealthyIsBoolean, Parameters DEF RestorePruned, LocalsTyped, locals, Leave,
       EndUndo, recovering, Rotating, Installing, Undoing
  <2>5. CountsTyped'
    BY <1>1, <1>23, Parameters DEF RestorePruned, CountsTyped, bounds
  <2>6. Steps'
    BY <1>1, <1>23 DEF RestorePruned, Steps, locals, rotation, Leave, EndUndo, recovering,
       Rotating, Installing, Undoing, Incomplete, LocalsTyped, CountsTyped
  <2> QED BY <2>1, <2>2, <2>3, <2>4, <2>5, <2>6 DEF TypesInv
<1>24. CASE RestoreRoot
  <2>1. ChainTyped'
    BY <1>1, <1>24, JournalTyped DEF RestoreRoot, Steps, ChainTyped, Rotating, Installing, Undoing
  <2>2. FilesTyped'
    BY <1>1, <1>24 DEF RestoreRoot, FilesTyped, files
  <2>3. JournalsTyped'
    BY <1>1, <1>24 DEF RestoreRoot, JournalsTyped, rotation, Incomplete
  <2>4. LocalsTyped'
    BY <1>1, <1>24, HealthyIsBoolean, Parameters DEF RestoreRoot, LocalsTyped, locals, Leave,
       EndUndo, recovering, Rotating, Installing, Undoing
  <2>5. CountsTyped'
    BY <1>1, <1>24, Parameters DEF RestoreRoot, CountsTyped, bounds
  <2>6. Steps'
    BY <1>1, <1>24 DEF RestoreRoot, Steps, locals, rotation, Leave, EndUndo, recovering,
       Rotating, Installing, Undoing, Incomplete, LocalsTyped, CountsTyped
  <2> QED BY <2>1, <2>2, <2>3, <2>4, <2>5, <2>6 DEF TypesInv
<1>25. CASE WriteRolledBack
  <2>1. ChainTyped'
    BY <1>1, <1>25 DEF WriteRolledBack, ChainTyped, chain
  <2>2. FilesTyped'
    BY <1>1, <1>25 DEF WriteRolledBack, FilesTyped, files
  <2>3. JournalsTyped'
    BY <1>1, <1>25, SetStateTyped DEF WriteRolledBack, Steps, Rotating, Installing, Undoing,
       States, Finished
  <2>4. LocalsTyped'
    BY <1>1, <1>25, LeaveTyped, HealthyIsBoolean DEF WriteRolledBack, Leave, EndUndo, LocalsTyped
  <2>5. CountsTyped'
    BY <1>1, <1>25, Parameters DEF WriteRolledBack, CountsTyped, bounds
  <2>6. Steps'
    BY <1>1, <1>25, SetStateTyped DEF WriteRolledBack, Steps, locals, rotation, Leave, EndUndo,
       recovering, Rotating, Installing, Undoing, Incomplete, LocalsTyped, CountsTyped,
       Finished, States
  <2> QED BY <2>1, <2>2, <2>3, <2>4, <2>5, <2>6 DEF TypesInv
<1>26. CASE UndoFails
  <2>1. ChainTyped'
    BY <1>1, <1>26 DEF UndoFails, ChainTyped, chain
  <2>2. FilesTyped'
    BY <1>1, <1>26 DEF UndoFails, FilesTyped, files
  <2>3. JournalsTyped'
    BY <1>1, <1>26 DEF UndoFails, JournalsTyped, rotation, Incomplete
  <2>4. LocalsTyped'
    <3>1. CASE EndUndo
      BY <1>1, <1>26, <3>1, LeaveTyped, HealthyIsBoolean DEF EndUndo, LocalsTyped
    <3>2. CASE pc' = "failed" /\ UNCHANGED <<doing, current, queue, compromised>>
      BY <1>1, <3>2 DEF LocalsTyped
    <3> QED BY <1>26, <3>1, <3>2 DEF UndoFails
  <2>5. CountsTyped'
    BY <1>1, <1>26, RaiseTyped DEF UndoFails, CountsTyped, bounds
  <2>6. Steps'
    BY <1>1, <1>26 DEF UndoFails, Steps, locals, rotation, Leave, EndUndo, recovering, Rotating,
       Installing, Undoing, Incomplete, LocalsTyped, CountsTyped
  <2> QED BY <2>1, <2>2, <2>3, <2>4, <2>5, <2>6 DEF TypesInv
<1>27. CASE WriteFailed
  <2>1. ChainTyped'
    BY <1>1, <1>27 DEF WriteFailed, ChainTyped, chain
  <2>2. FilesTyped'
    BY <1>1, <1>27 DEF WriteFailed, FilesTyped, files
  <2>3. JournalsTyped'
    BY <1>1, <1>27, SetStateTyped DEF WriteFailed, Steps, Rotating, Installing, Undoing, States,
       Finished
  <2>4. LocalsTyped'
    BY <1>1, <1>27, LeaveTyped, HealthyIsBoolean DEF WriteFailed, Leave, EndUndo, LocalsTyped
  <2>5. CountsTyped'
    BY <1>1, <1>27, Parameters DEF WriteFailed, CountsTyped, bounds
  <2>6. Steps'
    BY <1>1, <1>27, SetStateTyped DEF WriteFailed, Steps, locals, rotation, Leave, EndUndo,
       recovering, Rotating, Installing, Undoing, Incomplete, LocalsTyped, CountsTyped,
       Finished, States
  <2> QED BY <2>1, <2>2, <2>3, <2>4, <2>5, <2>6 DEF TypesInv
<1>28. CASE ReportFails
  <2>1. ChainTyped'
    BY <1>1, <1>28 DEF ReportFails, ChainTyped, chain
  <2>2. FilesTyped'
    BY <1>1, <1>28 DEF ReportFails, FilesTyped, files
  <2>3. JournalsTyped'
    BY <1>1, <1>28 DEF ReportFails, JournalsTyped, rotation, Incomplete
  <2>4. LocalsTyped'
    BY <1>1, <1>28, LeaveTyped, HealthyIsBoolean DEF ReportFails, Leave, EndUndo, LocalsTyped
  <2>5. CountsTyped'
    BY <1>1, <1>28, RaiseTyped DEF ReportFails, CountsTyped, bounds
  <2>6. Steps'
    BY <1>1, <1>28 DEF ReportFails, Steps, locals, rotation, Leave, EndUndo, recovering,
       Rotating, Installing, Undoing, Incomplete, LocalsTyped, CountsTyped
  <2> QED BY <2>1, <2>2, <2>3, <2>4, <2>5, <2>6 DEF TypesInv
<1>29. CASE Start
  <2>1. ChainTyped'
    BY <1>1, <1>29 DEF Start, ChainTyped, chain
  <2>2. FilesTyped'
    BY <1>1, <1>29 DEF Start, FilesTyped, files
  <2>3. JournalsTyped'
    BY <1>1, <1>29 DEF Start, JournalsTyped, rotation, Incomplete
  <2>4. LocalsTyped'
    BY <1>1, <1>29, HealthyIsBoolean, Parameters DEF Start, LocalsTyped, locals, Leave, EndUndo,
       recovering, Rotating, Installing, Undoing, Incomplete
  <2>5. CountsTyped'
    BY <1>1, <1>29, Parameters DEF Start, CountsTyped, bounds
  <2>6. Steps'
    BY <1>1, <1>29 DEF Start, Steps, locals, rotation, Leave, EndUndo, recovering, Rotating,
       Installing, Undoing, Incomplete, LocalsTyped, CountsTyped
  <2> QED BY <2>1, <2>2, <2>3, <2>4, <2>5, <2>6 DEF TypesInv
<1>30. CASE Recover
  <2>1. ChainTyped'
    BY <1>1, <1>30 DEF Recover, ChainTyped, chain
  <2>2. FilesTyped'
    BY <1>1, <1>30 DEF Recover, FilesTyped, files
  <2>3. JournalsTyped'
    BY <1>1, <1>30 DEF Recover, JournalsTyped, rotation, Incomplete
  <2>4. LocalsTyped'
    BY <1>1, <1>30 DEF Recover, LocalsTyped, Rotations, Undoing
  <2>5. CountsTyped'
    BY <1>1, <1>30, Parameters DEF Recover, CountsTyped, bounds
  <2>6. Steps'
    BY <1>1, <1>30 DEF Recover, Steps, locals, rotation, Leave, EndUndo, recovering, Rotating,
       Installing, Undoing, Incomplete, LocalsTyped, CountsTyped
  <2> QED BY <2>1, <2>2, <2>3, <2>4, <2>5, <2>6 DEF TypesInv
<1>31. CASE Started
  <2>1. ChainTyped'
    BY <1>1, <1>31 DEF Started, ChainTyped, chain
  <2>2. FilesTyped'
    BY <1>1, <1>31 DEF Started, FilesTyped, files
  <2>3. JournalsTyped'
    BY <1>1, <1>31 DEF Started, JournalsTyped, rotation, Incomplete
  <2>4. LocalsTyped'
    BY <1>1, <1>31, HealthyIsBoolean, Parameters DEF Started, LocalsTyped, locals, Leave,
       EndUndo, recovering, Rotating, Installing, Undoing
  <2>5. CountsTyped'
    BY <1>1, <1>31, Parameters DEF Started, CountsTyped, bounds
  <2>6. Steps'
    BY <1>1, <1>31 DEF Started, Steps, locals, rotation, Leave, EndUndo, recovering, Rotating,
       Installing, Undoing, Incomplete, LocalsTyped, CountsTyped
  <2> QED BY <2>1, <2>2, <2>3, <2>4, <2>5, <2>6 DEF TypesInv
<1>32. CASE Crash
  <2>1. ChainTyped'
    BY <1>1, <1>32 DEF Crash, ChainTyped, chain
  <2>2. FilesTyped'
    BY <1>1, <1>32 DEF Crash, FilesTyped, files
  <2>3. JournalsTyped'
    BY <1>1, <1>32 DEF Crash, JournalsTyped, rotation, Incomplete
  <2>4. LocalsTyped'
    BY <1>1, <1>32, LeaveTyped, HealthyIsBoolean DEF Crash, Leave, EndUndo, LocalsTyped
  <2>5. CountsTyped'
    BY <1>1, <1>32, Parameters DEF Crash, CountsTyped, bounds
  <2>6. Steps'
    BY <1>1, <1>32 DEF Crash, Steps, locals, rotation, Leave, EndUndo, recovering, Rotating,
       Installing, Undoing, Incomplete, LocalsTyped, CountsTyped
  <2> QED BY <2>1, <2>2, <2>3, <2>4, <2>5, <2>6 DEF TypesInv
<1>33. CASE UNCHANGED vars
  <2>1. ChainTyped'
    BY <1>1, <1>33 DEF vars, ChainTyped, chain
  <2>2. FilesTyped'
    BY <1>1, <1>33 DEF vars, FilesTyped, files
  <2>3. JournalsTyped'
    BY <1>1, <1>33 DEF vars, JournalsTyped, rotation, Incomplete
  <2>4. LocalsTyped'
    BY <1>1, <1>33 DEF vars, LocalsTyped, locals
  <2>5. CountsTyped'
    BY <1>1, <1>33 DEF vars, CountsTyped, bounds
  <2>6. Steps'
    BY <1>1, <1>33 DEF vars, Steps, locals, rotation
  <2> QED BY <2>1, <2>2, <2>3, <2>4, <2>5, <2>6 DEF TypesInv
<1> QED BY <1>2, <1>3, <1>4, <1>5, <1>6, <1>7, <1>8, <1>9, <1>10, <1>11, <1>12, <1>13, <1>14,
           <1>15, <1>16, <1>17, <1>18, <1>19, <1>20, <1>21, <1>22, <1>23, <1>24, <1>25, <1>26,
           <1>27, <1>28, <1>29, <1>30, <1>31, <1>32, <1>33 DEF Next, Rotate, Rollback

-----------------------------------------------------------------------------
(* The numbered chain *)

LEMMA NumbersFacts ==
  ASSUME Parameters, NEW n \in 0..MaxEvents
  PROVE  Numbers(n) \in Chains /\ Len(Numbers(n)) = n /\ \A i \in 1..n : Numbers(n)[i] = i
<1>1. Numbers(n) \in Seq(Events)
  BY DEF Numbers, Events, Parameters
<1>2. Len(Numbers(n)) = n
  BY DEF Numbers, Parameters
<1> QED BY <1>1, <1>2 DEF Numbers, Chains

LEMMA NumbersNext ==
  ASSUME Parameters, NEW n \in 0..MaxEvents, n < MaxEvents
  PROVE  Append(Numbers(n), n + 1) = Numbers(n + 1)
<1>1. n \in Nat /\ n + 1 \in 0..MaxEvents /\ n + 1 \in Events
  BY DEF Parameters, Events
<1>2. /\ Numbers(n) \in Chains /\ Len(Numbers(n)) = n /\ \A i \in 1..n : Numbers(n)[i] = i
      /\ Numbers(n + 1) \in Chains /\ Len(Numbers(n + 1)) = n + 1
      /\ \A i \in 1..(n + 1) : Numbers(n + 1)[i] = i
  BY <1>1, NumbersFacts
<1> DEFINE s == Numbers(n)
           t == Append(s, n + 1)
<1> HIDE DEF s
<1>3. /\ t \in Seq(Events) /\ Len(t) = n + 1 /\ t[n + 1] = n + 1
      /\ \A i \in 1..n : t[i] = s[i]
  BY <1>1, <1>2, AppendProperties DEF s, Chains
<1> HIDE DEF t
<1>4. \A i \in 1..(n + 1) : t[i] = i
  BY <1>1, <1>2, <1>3 DEF s
<1>5. t = Numbers(n + 1)
  BY <1>2, <1>3, <1>4, SeqEqual DEF Chains
<1> QED BY <1>5 DEF t, s

LEMMA NumbersPrefix ==
  ASSUME Parameters, NEW m \in 0..MaxEvents, NEW n \in 0..m
  PROVE  Numbers(n) = SubSeq(Numbers(m), 1, n)
<1> DEFINE s == Numbers(m)
           t == SubSeq(s, 1, n)
<1>1. n \in 0..MaxEvents
  BY DEF Parameters
<1>2. /\ s \in Chains /\ Len(s) = m /\ \A i \in 1..m : s[i] = i
      /\ Numbers(n) \in Chains /\ Len(Numbers(n)) = n /\ \A i \in 1..n : Numbers(n)[i] = i
  BY <1>1, NumbersFacts
<1> HIDE DEF s
<1>3. \A i \in 1..n : s[i] \in Events
  BY <1>1, <1>2 DEF Events, Parameters
<1>4. t \in Seq(Events) /\ Len(t) = n /\ \A i \in 1..n : t[i] = s[i]
  BY <1>1, <1>3, SubSeqProperties
<1> HIDE DEF t
<1>5. t = Numbers(n)
  BY <1>1, <1>2, <1>4, SeqEqual DEF Chains
<1> QED BY <1>5 DEF t, s

LEMMA AppendToEnd ==
  ASSUME NEW c \in Chains, NEW d \in Chains, NEW e \in Events
  PROVE  c \o Append(d, e) = Append(c \o d, e)
<1>1. <<e>> \in Chains /\ c \o d \in Chains
  BY ChainConcat DEF Chains
<1>2. Append(d, e) = d \o <<e>> /\ Append(c \o d, e) = (c \o d) \o <<e>>
  BY <1>1, AppendIsConcat DEF Chains
<1> QED BY <1>1, <1>2, ChainsAssociate

\* The events of two parts are the events of the whole.
LEMMA ElementsOfConcat ==
  ASSUME NEW c \in Chains, NEW d \in Chains
  PROVE  Elements(c \o d) \subseteq Elements(c) \cup Elements(d)
<1> SUFFICES ASSUME NEW i \in DOMAIN (c \o d)
             PROVE  (c \o d)[i] \in Elements(c) \cup Elements(d)
  BY DEF Elements
<1>1. /\ DOMAIN (c \o d) = 1..(Len(c) + Len(d)) /\ Len(c) \in Nat /\ Len(d) \in Nat
      /\ DOMAIN c = 1..Len(c) /\ DOMAIN d = 1..Len(d)
      /\ (c \o d)[i] = IF i <= Len(c) THEN c[i] ELSE d[i - Len(c)]
  <2>1. c \in Seq(Events) /\ d \in Seq(Events)
    BY DEF Chains
  <2>2. c \o d \in Seq(Events) /\ Len(c \o d) = Len(c) + Len(d)
    BY <2>1, ConcatProperties
  <2>3. DOMAIN (c \o d) = 1..(Len(c) + Len(d)) /\ DOMAIN c = 1..Len(c) /\ DOMAIN d = 1..Len(d)
    BY <2>1, <2>2, LenProperties
  <2> QED BY <2>1, <2>3, LenProperties, ConcatProperties
<1>2. CASE i <= Len(c)
  BY <1>1, <1>2 DEF Elements
<1>3. CASE ~(i <= Len(c))
  <2>1. i - Len(c) \in DOMAIN d
    BY <1>1, <1>3
  <2> QED BY <1>1, <1>3, <2>1 DEF Elements
<1> QED BY <1>2, <1>3

-----------------------------------------------------------------------------
(* What a step changes and what it leaves *)

\* An append lengthens the chain by the next number, and binds nothing anew.
LEMMA AppendSound ==
  ASSUME TypesInv, Sound, Parameters, Append1, UNCHANGED <<anchors, journal, backups>>,
         Incomplete = {}, OneIncomplete', UndoneSoFar'
  PROVE  Sound'
<1>1. active \in RowTypes /\ made \in 0..MaxEvents /\ made < MaxEvents /\ made + 1 \in Events
  BY DEF TypesInv, ChainTyped, CountsTyped, Append1, Events, Parameters
<1>2. /\ active'.prev = active.prev /\ active'.segment = active.segment /\ active'.root = active.root
      /\ active'.rows = Append(active.rows, made + 1)
      /\ segments' = segments /\ root' = root /\ made' = made + 1
  BY <1>1 DEF Append1, RowTypes
<1>3. Numbered'
  <2>1. active.prev \in Chains /\ active.rows \in Chains
    BY <1>1 DEF RowTypes
  <2>2. End(active) = Numbers(made)
    BY DEF Sound, Numbered
  <2>3. active.prev \o Append(active.rows, made + 1) = Append(active.prev \o active.rows, made + 1)
    BY <1>1, <2>1, AppendToEnd
  <2>4. active.prev \o Append(active.rows, made + 1) = Numbers(made + 1)
    BY <1>1, <2>2, <2>3, NumbersNext DEF End
  <2> QED BY <1>2, <2>4 DEF Numbered, End
<1>4. AnchorsAreOld'
  BY <1>1, <1>2 DEF Sound, AnchorsAreOld
<1>5. Incomplete' = {}
  BY DEF Incomplete
<1>6. Healthy'
  BY <1>2 DEF Sound, Healthy
<1>7. \A s \in segments' : Known(s)'
  BY <1>2 DEF Sound, Known
<1> QED BY <1>3, <1>4, <1>5, <1>6, <1>7 DEF Sound

\* A step that leaves the chain and the journals.
LEMMA StillSound ==
  ASSUME Sound, UNCHANGED <<chain, journal, made>>,
         UNCHANGED backups \/ Incomplete = {},
         AnchorsAreOld', OneIncomplete', UndoneSoFar'
  PROVE  Sound'
<1>1. active' = active /\ segments' = segments /\ root' = root /\ journal' = journal /\ made' = made
  BY DEF chain
<1>2. Incomplete' = Incomplete
  BY <1>1 DEF Incomplete
<1>3. Numbered'
  BY <1>1 DEF Sound, Numbered
<1>4. Incomplete' = {} => Healthy'
  BY <1>1, <1>2 DEF Sound, Healthy
<1>5. \A s \in segments' : Known(s)'
  BY <1>1 DEF Sound, Known
<1>6. \A r \in Incomplete' : Undoable(r)'
  BY <1>1, <1>2 DEF Sound, Undoable, Base, Known
<1> QED BY <1>3, <1>4, <1>5, <1>6 DEF Sound

\* A file that a rotation or its rollback replaces takes nothing away from the rollback.
LEMMA FileSound ==
  ASSUME Sound, UNCHANGED <<journal, backups, made, anchors, current>>,
         Incomplete = {current},
         active' = active \/ active' \in {journal[current].active, journal[current].newActive},
         root' = root \/ root' \in {journal[current].root, journal[current].newRoot},
         Base(current)' = Base(current),
         segments' \subseteq segments \cup {journal[current].segment} \cup Base(current),
         OneIncomplete', UndoneSoFar'
  PROVE  Sound'
<1> DEFINE j == journal[current]
<1>1. current \in Rotations /\ j.state # "none" /\ Undoable(current)
  <2>1. current \in Incomplete
    OBVIOUS
  <2> QED BY <2>1 DEF Incomplete, Sound
<1>2. Incomplete' = {current}
  BY DEF Incomplete
<1>3. /\ active \in {j.active, j.newActive} /\ root \in {j.root, j.newRoot}
      /\ End(j.active) = End(j.newActive)
      /\ j.segment.id = current /\ j.segment.rows # <<>>
  BY <1>1 DEF Undoable
<1>4. Numbered'
  <2>1. End(active') = End(active)
    BY <1>3
  <2> QED BY <2>1 DEF Sound, Numbered, End
<1>5. AnchorsAreOld'
  BY DEF Sound, AnchorsAreOld
<1>6. \A s \in segments' : Known(s)'
  <2>1. \A s \in segments \cup Base(current) : Known(s)
    BY <1>1 DEF Sound, Undoable
  <2>2. Known(j.segment)
    BY <1>1, <1>3 DEF Known
  <2>3. \A s \in segments' : Known(s)
    BY <2>1, <2>2
  <2> QED BY <2>3 DEF Known
<1>7. Undoable(current)'
  <2>1. /\ j.state # "recovery_failed"
        /\ j.root # Genesis => "root" \in backups[current]
        /\ Chained(j.active, Base(current), j.root)
        /\ \A s \in Base(current) : s.id # current /\ Known(s)
    BY <1>1 DEF Undoable
  <2>2. \A s \in Base(current)' : s.id # current /\ Known(s)'
    BY <2>1 DEF Known
  <2>3. Chained(j.active, Base(current), j.root)'
    BY <2>1 DEF Chained
  <2>4. active' \in {j.active, j.newActive} /\ root' \in {j.root, j.newRoot}
    BY <1>3
  <2> QED BY <1>3, <2>1, <2>2, <2>3, <2>4 DEF Undoable
<1> QED BY <1>2, <1>4, <1>5, <1>6, <1>7 DEF Sound

\* A journal that goes on with the same rotation.
LEMMA GoesOnSound ==
  ASSUME TypesInv, Sound, UNCHANGED <<chain, made, anchors, backups>>, current \in Incomplete,
         NEW state \in {"installing", "installed"}, SetState(state),
         Incomplete' = Incomplete => OneIncomplete', UndoneSoFar'
  PROVE  Sound'
<1>1. current \in Rotations /\ journal \in [Rotations -> JournalTypes]
  BY DEF TypesInv, JournalsTyped, Incomplete
<1>2. journal[current] \in JournalTypes
  BY <1>1
<1>3. journal'[current] = [journal[current] EXCEPT !.state = state]
  BY <1>1 DEF SetState
<1>4. \A r \in Rotations \ {current} : journal'[r] = journal[r]
  BY <1>1 DEF SetState
<1>5. /\ journal'[current].state = state
      /\ journal'[current].segment = journal[current].segment
      /\ journal'[current].pruned = journal[current].pruned
      /\ journal'[current].active = journal[current].active
      /\ journal'[current].root = journal[current].root
      /\ journal'[current].newActive = journal[current].newActive
      /\ journal'[current].newRoot = journal[current].newRoot
  BY <1>2, <1>3 DEF JournalTypes
<1>6. Incomplete' = Incomplete
  BY <1>1, <1>4, <1>5 DEF Incomplete, Finished
<1>7. active' = active /\ segments' = segments /\ root' = root
  BY DEF chain
<1>8. ASSUME NEW s, Known(s), s.id \in Rotations
      PROVE  Known(s)'
  BY <1>4, <1>5, <1>8 DEF Known
<1>9. \A s \in segments' : Known(s)'
  BY <1>7, <1>8 DEF Sound, TypesInv, ChainTyped, SegmentTypes
<1>10. ASSUME NEW r \in Incomplete' PROVE Undoable(r)'
  <2>1. r \in Rotations /\ Undoable(r)
    BY <1>6, <1>10 DEF Sound, Incomplete
  <2>2. /\ journal'[r].segment = journal[r].segment /\ journal'[r].pruned = journal[r].pruned
        /\ journal'[r].active = journal[r].active /\ journal'[r].root = journal[r].root
        /\ journal'[r].newActive = journal[r].newActive /\ journal'[r].newRoot = journal[r].newRoot
        /\ journal'[r].state # "recovery_failed"
    BY <1>4, <1>5, <2>1 DEF Undoable
  <2>3. Base(r)' = Base(r)
    BY <1>7, <2>2 DEF Base
  <2>4. Base(r) \subseteq SegmentTypes
    BY <2>1, JournalTyped DEF TypesInv, ChainTyped, Base
  <2>5. \A s \in Base(r)' : s.id # r /\ Known(s)'
    BY <1>8, <2>1, <2>3, <2>4 DEF Undoable, SegmentTypes
  <2>6. Chained(journal'[r].active, Base(r)', journal'[r].root)
    BY <2>1, <2>2, <2>3 DEF Undoable
  <2> QED BY <1>7, <2>1, <2>2, <2>5, <2>6 DEF Undoable, Chained
<1>11. Numbered' /\ AnchorsAreOld' /\ (Incomplete' = {} => Healthy')
  BY <1>6, <1>7 DEF Sound, Numbered, AnchorsAreOld, Healthy
<1> QED BY <1>6, <1>9, <1>10, <1>11 DEF Sound

\* A journal that is finished, on a chain that verifies.
LEMMA FinishedSound ==
  ASSUME TypesInv, Sound, UNCHANGED <<chain, made, anchors, backups>>, Incomplete = {current},
         NEW state \in Finished, SetState(state), Healthy,
         Incomplete' = {} => OneIncomplete', UndoneSoFar'
  PROVE  Sound'
<1>1. current \in Rotations /\ journal \in [Rotations -> JournalTypes]
  <2>1. current \in Incomplete
    OBVIOUS
  <2> QED BY <2>1 DEF TypesInv, JournalsTyped, Incomplete
<1>2. journal[current] \in JournalTypes
  BY <1>1
<1>3. journal'[current].state = state /\ \A r \in Rotations \ {current} : journal'[r] = journal[r]
  BY <1>1, <1>2 DEF SetState, JournalTypes
<1>4. Incomplete' = {}
  BY <1>3 DEF Incomplete
<1>5. active' = active /\ segments' = segments /\ root' = root
  BY DEF chain
<1>6. Healthy'
  BY <1>5 DEF Healthy
<1>7. \A s \in segments' : Known(s)'
  <2> SUFFICES ASSUME NEW s \in segments PROVE Known(s)'
    BY <1>5
  <2>1. s.id \in Rotations /\ Known(s)
    BY DEF Sound, TypesInv, ChainTyped, SegmentTypes
  <2> QED BY <1>3, <2>1 DEF Known, Finished
<1>8. Numbered' /\ AnchorsAreOld'
  BY <1>5 DEF Sound, Numbered, AnchorsAreOld
<1> QED BY <1>4, <1>6, <1>7, <1>8 DEF Sound

\* What a rotation is going to install ends where the chain ends now.
LEMMA PlanEnds ==
  ASSUME ChainTyped, NEW count \in 1..(Len(active.rows) - 2)
  PROVE  /\ End(Plan(count).newActive) = End(active)
         /\ Plan(count).segment.id = current /\ Plan(count).segment.rows # <<>>
         /\ Plan(count).pruned \subseteq segments
         /\ Plan(count).active = active /\ Plan(count).root = root
         /\ Plan(count).state = "prepared"
<1>1. active.prev \in Chains /\ active.rows \in Chains /\ Len(active.rows) \in Nat
  BY ChainLength DEF ChainTyped, RowTypes
<1>2. count \in 0..Len(active.rows) /\ count > 0
  BY <1>1
<1>3. /\ Plan(count).newActive.prev = active.prev \o SubSeq(active.rows, 1, count)
      /\ Plan(count).newActive.rows = SubSeq(active.rows, count + 1, Len(active.rows))
  BY DEF Plan, End
<1>4. End(Plan(count).newActive) = End(active)
  BY <1>1, <1>2, <1>3, Divided DEF End
<1>5. Plan(count).segment.rows # <<>>
  <2>1. Len(SubSeq(active.rows, 1, count)) = count
    BY <1>1, <1>2, ChainSubSeq
  <2>2. SubSeq(active.rows, 1, count) # <<>>
    BY <1>2, <2>1
  <2> QED BY <2>2 DEF Plan
<1>6. Plan(count).pruned \subseteq segments
  BY DEF Plan, Prunable
<1> QED BY <1>4, <1>5, <1>6 DEF Plan

LEMMA PrepareSound ==
  ASSUME TypesInv, Sound, Prepare
  PROVE  Sound'
<1>1. /\ current \in Rotations /\ journal[current].state = "none"
      /\ journal \in [Rotations -> JournalTypes] /\ backups \in [Rotations -> SUBSET Parts]
      /\ Incomplete = {}
  BY DEF Prepare, TypesInv, Steps, JournalsTyped, Rotating, Sound, OneIncomplete
<1>2. PICK count \in 1..(Len(active.rows) - 2) : journal' = [journal EXCEPT ![current] = Plan(count)]
  BY DEF Prepare
<1> DEFINE j == Plan(count)
<1>3. /\ End(j.newActive) = End(active)
      /\ j.segment.id = current /\ j.segment.rows # <<>>
      /\ j.pruned \subseteq segments /\ j.active = active /\ j.root = root
      /\ j.state = "prepared"
  BY PlanEnds DEF TypesInv
<1> HIDE DEF j
<1>4. journal'[current] = j /\ \A r \in Rotations \ {current} : journal'[r] = journal[r]
  BY <1>1, <1>2 DEF j
<1>5. active' = active /\ segments' = segments /\ root' = root /\ made' = made /\ anchors' = anchors
  BY DEF Prepare, chain, files
<1>6. Healthy
  BY <1>1 DEF Sound
<1>7. \A s \in segments : s.id # current /\ s.id \in Rotations /\ Known(s)
  BY <1>1 DEF Sound, Known, TypesInv, ChainTyped, SegmentTypes
<1>8. Incomplete' = {current}
  BY <1>1, <1>3, <1>4 DEF Incomplete, Finished
<1>9. \A s \in segments' : Known(s)'
  BY <1>4, <1>5, <1>7 DEF Known
<1>10. Undoable(current)'
  <2>1. Base(current)' = segments
    BY <1>3, <1>4, <1>5, <1>7 DEF Base, Prepare
  <2>2. current' = current
    BY DEF Prepare
  <2>3. Chained(j.active, segments, j.root)
    BY <1>3, <1>6 DEF Healthy, Chained
  <2>4. root # Genesis => "root" \in backups'[current]
    BY <1>1 DEF Prepare, Parts
  <2> QED BY <1>3, <1>4, <1>5, <1>7, <1>9, <2>1, <2>2, <2>3, <2>4 DEF Undoable
<1>11. Numbered' /\ AnchorsAreOld'
  BY <1>5 DEF Sound, Numbered, AnchorsAreOld
<1>12. current' = current /\ pc' = "prepared"
  BY DEF Prepare
<1>13. OneIncomplete'
  BY <1>8, <1>12 DEF Prepare, Sound, OneIncomplete, Installing, Undoing
<1>14. UndoneSoFar'
  BY <1>12 DEF UndoneSoFar
<1> QED BY <1>8, <1>9, <1>10, <1>11, <1>12, <1>13, <1>14 DEF Sound

\* When the rollback has put everything back, the chain verifies as it did before.
LEMMA UndoneVerifies ==
  ASSUME Sound, pc = "report"
  PROVE  Healthy
<1>1. Incomplete = {current}
  BY DEF Sound, OneIncomplete, Undoing
<1>2. Undoable(current)
  BY <1>1 DEF Sound
<1>3. /\ active = journal[current].active /\ root = journal[current].root
      /\ segments = Base(current)
  BY DEF Sound, UndoneSoFar, Base
<1>4. Chained(active, segments, root)
  BY <1>2, <1>3 DEF Undoable
<1> QED BY <1>4 DEF Chained, Healthy

LEMMA SoundStep ==
  ASSUME TypesInv, ChainInv, [Next]_vars, Parameters, ~left'
  PROVE  Sound'
<1>1. ~left /\ Sound
  BY DEF ChainInv, Next, Rotate, Rollback, vars, Record, RecordFails, Verify, Authorize,
     WriteFile, Confirm,
         ProtectedFails, AuthorizeRotation, Prepare, WriteInstalling, InstallSegment, PruneSegment,
         InstallRoot, InstallActive, WriteInstalled, WriteCompleted, RemoveBackups, TellCompleted,
         StepFails, RestoreActive, RemoveSegment, RestorePruned, RestoreRoot, WriteRolledBack,
         UndoFails, WriteFailed, ReportFails, Start, Recover, Started, Crash, TypesInv, CountsTyped
<1>2. OneIncomplete /\ UndoneSoFar /\ (Incomplete = {} => Healthy)
  BY <1>1 DEF Sound
<1>3. CASE Record
  <2>1. Incomplete = {} /\ ~compromised /\ UNCHANGED <<journal, backups, anchors>>
    BY <1>2, <1>3 DEF Record, OneIncomplete, rotation, files
  <2>2. OneIncomplete'
    BY <1>2, <1>3, <2>1 DEF Record, OneIncomplete, Installing, Undoing, Incomplete, Leave, locals
  <2>3. UndoneSoFar'
    BY <1>3 DEF Record, UndoneSoFar, Leave, locals
  <2> QED BY <1>1, <1>3, <2>1, <2>2, <2>3, AppendSound DEF Record
<1>4. CASE RecordFails
  <2>1. Incomplete = {} /\ ~compromised /\ UNCHANGED <<journal, backups, anchors>>
    BY <1>2, <1>4 DEF RecordFails, OneIncomplete, rotation, files
  <2>2. OneIncomplete'
    BY <1>2, <1>4, <2>1 DEF RecordFails, OneIncomplete, Installing, Undoing, Incomplete, Leave,
       locals
  <2>3. UndoneSoFar'
    BY <1>4 DEF RecordFails, UndoneSoFar, Leave, locals
  <2> QED BY <1>1, <1>4, <2>1, <2>2, <2>3, AppendSound DEF RecordFails
<1>5. CASE Verify
  <2>1. UNCHANGED <<chain, journal, made>> /\ (UNCHANGED backups \/ Incomplete = {})
    BY <1>2, <1>5 DEF Verify, rotation, OneIncomplete
  <2>2. AnchorsAreOld'
    BY <1>1, <1>5 DEF Verify, files, Sound, AnchorsAreOld
  <2>3. OneIncomplete'
    BY <1>1, <1>2, <1>5, <2>1 DEF Verify, OneIncomplete, Installing, Undoing, Incomplete, Leave,
       locals
  <2>4. UndoneSoFar'
    BY <1>2, <1>5 DEF Verify, UndoneSoFar, Leave, locals, chain, rotation
  <2> QED BY <1>1, <2>1, <2>2, <2>3, <2>4, StillSound
<1>6. CASE Authorize
  <2>1. Incomplete = {} /\ ~compromised /\ UNCHANGED <<journal, backups, anchors>>
    BY <1>2, <1>6 DEF Authorize, OneIncomplete, rotation, files
  <2>2. OneIncomplete'
    BY <1>2, <1>6, <2>1 DEF Authorize, OneIncomplete, Installing, Undoing, Incomplete, Leave,
       locals
  <2>3. UndoneSoFar'
    BY <1>6 DEF Authorize, UndoneSoFar, Leave, locals
  <2> QED BY <1>1, <1>6, <2>1, <2>2, <2>3, AppendSound DEF Authorize
<1>7. CASE WriteFile
  <2>1. UNCHANGED <<chain, journal, made>> /\ (UNCHANGED backups \/ Incomplete = {})
    BY <1>2, <1>7 DEF WriteFile, rotation, OneIncomplete
  <2>2. AnchorsAreOld'
    BY <1>1, <1>7, Parameters DEF WriteFile, files, Sound, AnchorsAreOld, Numbered, Tip, End,
       TypesInv, CountsTyped
  <2>3. OneIncomplete'
    BY <1>1, <1>2, <1>7, <2>1 DEF WriteFile, OneIncomplete, Installing, Undoing, Incomplete,
       Leave, locals
  <2>4. UndoneSoFar'
    BY <1>2, <1>7 DEF WriteFile, UndoneSoFar, Leave, locals, chain, rotation
  <2> QED BY <1>1, <2>1, <2>2, <2>3, <2>4, StillSound
<1>8. CASE Confirm
  <2>1. Incomplete = {} /\ ~compromised /\ UNCHANGED <<journal, backups, anchors>>
    BY <1>2, <1>8 DEF Confirm, OneIncomplete, rotation, files
  <2>2. OneIncomplete'
    BY <1>2, <1>8, <2>1 DEF Confirm, OneIncomplete, Installing, Undoing, Incomplete, Leave, locals
  <2>3. UndoneSoFar'
    BY <1>8 DEF Confirm, UndoneSoFar, Leave, locals
  <2> QED BY <1>1, <1>8, <2>1, <2>2, <2>3, AppendSound DEF Confirm
<1>9. CASE ProtectedFails
  <2>1. UNCHANGED <<chain, journal, made>> /\ (UNCHANGED backups \/ Incomplete = {})
    BY <1>2, <1>9 DEF ProtectedFails, rotation, OneIncomplete
  <2>2. AnchorsAreOld'
    BY <1>1, <1>9 DEF ProtectedFails, files, Sound, AnchorsAreOld
  <2>3. OneIncomplete'
    BY <1>1, <1>2, <1>9, <2>1 DEF ProtectedFails, OneIncomplete, Installing, Undoing,
       Incomplete, Leave, locals
  <2>4. UndoneSoFar'
    BY <1>2, <1>9 DEF ProtectedFails, UndoneSoFar, Leave, locals, chain, rotation
  <2> QED BY <1>1, <2>1, <2>2, <2>3, <2>4, StillSound
<1>10. CASE AuthorizeRotation
  <2>1. Incomplete = {} /\ ~compromised /\ UNCHANGED <<journal, backups, anchors>>
    BY <1>2, <1>10 DEF AuthorizeRotation, OneIncomplete, rotation, files
  <2>2. OneIncomplete'
    BY <1>2, <1>10, <2>1 DEF AuthorizeRotation, OneIncomplete, Installing, Undoing, Incomplete,
       Leave, locals
  <2>3. UndoneSoFar'
    BY <1>10 DEF AuthorizeRotation, UndoneSoFar, Leave, locals
  <2> QED BY <1>1, <1>10, <2>1, <2>2, <2>3, AppendSound DEF AuthorizeRotation
<1>11. CASE Prepare
  BY <1>1, <1>11, PrepareSound
<1>12. CASE WriteInstalling
  <2>1. /\ Incomplete = {current} /\ current \in Incomplete /\ UNCHANGED <<chain, made, anchors, backups>>
        /\ current \in Rotations /\ JournalsTyped
    BY <1>2, <1>12 DEF WriteInstalling, OneIncomplete, Installing, files, Incomplete, TypesInv
  <2>2. Incomplete' = Incomplete => OneIncomplete'
    BY <1>2, <1>12, <2>1 DEF WriteInstalling, OneIncomplete, Installing, Undoing
  <2>3. UndoneSoFar'
    BY <1>12 DEF WriteInstalling, UndoneSoFar
  <2> QED BY <1>1, <1>12, <2>1, <2>2, <2>3, GoesOnSound DEF WriteInstalling
<1>13. CASE InstallSegment
  <2>1. UNCHANGED <<journal, backups, made, anchors, current>> /\ Incomplete = {current}
    BY <1>2, <1>13 DEF InstallSegment, OneIncomplete, Installing, Undoing, rotation, files, locals
  <2>2. OneIncomplete'
    BY <1>2, <1>13, <2>1 DEF InstallSegment, OneIncomplete, Installing, Undoing, Incomplete,
       locals
  <2>3. UndoneSoFar'
    BY <1>2, <1>13 DEF InstallSegment, UndoneSoFar, locals, rotation
  <2>4. /\ Base(current)' = Base(current)
        /\ segments' \subseteq segments \cup {journal[current].segment} \cup Base(current)
    BY <1>13, <2>1 DEF InstallSegment, Base
  <2> QED BY <1>1, <1>13, <2>1, <2>2, <2>3, <2>4, FileSound DEF InstallSegment
<1>14. CASE PruneSegment
  <2>1. UNCHANGED <<journal, backups, made, anchors, current>> /\ Incomplete = {current}
    BY <1>2, <1>14 DEF PruneSegment, OneIncomplete, Installing, Undoing, rotation, files, locals
  <2>2. OneIncomplete'
    BY <1>2, <1>14, <2>1 DEF PruneSegment, OneIncomplete, Installing, Undoing, Incomplete, locals
  <2>3. UndoneSoFar'
    BY <1>2, <1>14 DEF PruneSegment, UndoneSoFar, locals, rotation
  <2>4. /\ Base(current)' = Base(current)
        /\ segments' \subseteq segments \cup {journal[current].segment} \cup Base(current)
    BY <1>14, <2>1 DEF PruneSegment, Base
  <2> QED BY <1>1, <1>14, <2>1, <2>2, <2>3, <2>4, FileSound DEF PruneSegment
<1>15. CASE InstallRoot
  <2>1. UNCHANGED <<journal, backups, made, anchors, current>> /\ Incomplete = {current}
    BY <1>2, <1>15 DEF InstallRoot, OneIncomplete, Installing, Undoing, rotation, files, locals
  <2>2. OneIncomplete'
    BY <1>2, <1>15, <2>1 DEF InstallRoot, OneIncomplete, Installing, Undoing, Incomplete, locals
  <2>3. UndoneSoFar'
    BY <1>2, <1>15 DEF InstallRoot, UndoneSoFar, locals, rotation
  <2>4. /\ Base(current)' = Base(current)
        /\ segments' \subseteq segments \cup {journal[current].segment} \cup Base(current)
    BY <1>15, <2>1 DEF InstallRoot, Base
  <2> QED BY <1>1, <1>15, <2>1, <2>2, <2>3, <2>4, FileSound DEF InstallRoot
<1>16. CASE InstallActive
  <2>1. UNCHANGED <<journal, backups, made, anchors, current>> /\ Incomplete = {current}
    BY <1>2, <1>16 DEF InstallActive, OneIncomplete, Installing, Undoing, rotation, files, locals
  <2>2. OneIncomplete'
    BY <1>2, <1>16, <2>1 DEF InstallActive, OneIncomplete, Installing, Undoing, Incomplete, locals
  <2>3. UndoneSoFar'
    BY <1>2, <1>16 DEF InstallActive, UndoneSoFar, locals, rotation
  <2>4. /\ Base(current)' = Base(current)
        /\ segments' \subseteq segments \cup {journal[current].segment} \cup Base(current)
    BY <1>16, <2>1 DEF InstallActive, Base
  <2> QED BY <1>1, <1>16, <2>1, <2>2, <2>3, <2>4, FileSound DEF InstallActive
<1>17. CASE WriteInstalled
  <2>1. /\ Incomplete = {current} /\ current \in Incomplete /\ UNCHANGED <<chain, made, anchors, backups>>
        /\ current \in Rotations /\ JournalsTyped
    BY <1>2, <1>17 DEF WriteInstalled, OneIncomplete, Installing, files, Incomplete, TypesInv
  <2>2. Incomplete' = Incomplete => OneIncomplete'
    BY <1>2, <1>17, <2>1 DEF WriteInstalled, OneIncomplete, Installing, Undoing
  <2>3. UndoneSoFar'
    BY <1>17 DEF WriteInstalled, UndoneSoFar
  <2> QED BY <1>1, <1>17, <2>1, <2>2, <2>3, GoesOnSound DEF WriteInstalled
<1>18. CASE WriteCompleted
  <2>1. /\ Incomplete = {current} /\ UNCHANGED <<chain, made, anchors, backups>>
    BY <1>2, <1>18 DEF WriteCompleted, OneIncomplete, Installing, Undoing, files
  <2>2. Healthy
    BY <1>1, <1>18 DEF WriteCompleted
  <2>3. Incomplete' = {} => OneIncomplete'
    BY <1>2, <1>18, <2>1, <2>2 DEF WriteCompleted, OneIncomplete, Installing, Undoing, EndUndo,
       recovering
  <2>4. UndoneSoFar'
    BY <1>18 DEF WriteCompleted, UndoneSoFar, EndUndo
  <2> QED BY <1>1, <1>18, <2>1, <2>2, <2>3, <2>4, FinishedSound DEF WriteCompleted, Finished
<1>19. CASE RemoveBackups
  <2>1. UNCHANGED <<chain, journal, made>> /\ (UNCHANGED backups \/ Incomplete = {})
    BY <1>2, <1>19 DEF RemoveBackups, rotation, OneIncomplete
  <2>2. AnchorsAreOld'
    BY <1>1, <1>19 DEF RemoveBackups, files, Sound, AnchorsAreOld
  <2>3. OneIncomplete'
    BY <1>1, <1>2, <1>19, <2>1 DEF RemoveBackups, OneIncomplete, Installing, Undoing,
       Incomplete, Leave, locals
  <2>4. UndoneSoFar'
    BY <1>2, <1>19 DEF RemoveBackups, UndoneSoFar, Leave, locals, chain, rotation
  <2> QED BY <1>1, <2>1, <2>2, <2>3, <2>4, StillSound
<1>20. CASE TellCompleted
  <2>1. Incomplete = {} /\ ~compromised /\ UNCHANGED <<journal, backups, anchors>>
    BY <1>2, <1>20 DEF TellCompleted, OneIncomplete, rotation, files
  <2>2. OneIncomplete'
    BY <1>2, <1>20, <2>1 DEF TellCompleted, OneIncomplete, Installing, Undoing, Incomplete,
       Leave, locals
  <2>3. UndoneSoFar'
    BY <1>20 DEF TellCompleted, UndoneSoFar, Leave, locals
  <2> QED BY <1>1, <1>20, <2>1, <2>2, <2>3, AppendSound DEF TellCompleted
<1>21. CASE StepFails
  <2>1. UNCHANGED <<chain, journal, made>> /\ (UNCHANGED backups \/ Incomplete = {})
    BY <1>2, <1>21 DEF StepFails, rotation, OneIncomplete
  <2>2. AnchorsAreOld'
    BY <1>1, <1>21 DEF StepFails, files, Sound, AnchorsAreOld
  <2>3. OneIncomplete'
    BY <1>1, <1>2, <1>21, <2>1 DEF StepFails, OneIncomplete, Installing, Undoing, Incomplete,
       Leave, locals, TypesInv, Steps
  <2>4. UndoneSoFar'
    BY <1>2, <1>21 DEF StepFails, UndoneSoFar, Leave, locals, chain, rotation
  <2> QED BY <1>1, <2>1, <2>2, <2>3, <2>4, StillSound
<1>22. CASE RestoreActive
  <2>1. UNCHANGED <<journal, backups, made, anchors, current>> /\ Incomplete = {current}
    BY <1>2, <1>22 DEF RestoreActive, OneIncomplete, Installing, Undoing, rotation, files, locals
  <2>2. OneIncomplete'
    BY <1>2, <1>22, <2>1 DEF RestoreActive, OneIncomplete, Installing, Undoing, Incomplete, locals
  <2>3. UndoneSoFar'
    BY <1>2, <1>22 DEF RestoreActive, UndoneSoFar, locals, rotation
  <2>4. /\ Base(current)' = Base(current)
        /\ segments' \subseteq segments \cup {journal[current].segment} \cup Base(current)
    BY <1>22, <2>1 DEF RestoreActive, Base
  <2> QED BY <1>1, <1>22, <2>1, <2>2, <2>3, <2>4, FileSound DEF RestoreActive
<1>23. CASE RemoveSegment
  <2>1. UNCHANGED <<journal, backups, made, anchors, current>> /\ Incomplete = {current}
    BY <1>2, <1>23 DEF RemoveSegment, OneIncomplete, Installing, Undoing, rotation, files, locals
  <2>2. OneIncomplete'
    BY <1>2, <1>23, <2>1 DEF RemoveSegment, OneIncomplete, Installing, Undoing, Incomplete, locals
  <2>3. UndoneSoFar'
    BY <1>2, <1>23 DEF RemoveSegment, UndoneSoFar, locals, rotation
  <2>4. /\ Base(current)' = Base(current)
        /\ segments' \subseteq segments \cup {journal[current].segment} \cup Base(current)
    BY <1>23, <2>1 DEF RemoveSegment, Base
  <2> QED BY <1>1, <1>23, <2>1, <2>2, <2>3, <2>4, FileSound DEF RemoveSegment
<1>24. CASE RestorePruned
  <2> DEFINE j == journal[current]
  <2>1. UNCHANGED <<journal, backups, made, anchors, current>> /\ Incomplete = {current}
    BY <1>2, <1>24 DEF RestorePruned, OneIncomplete, Undoing, rotation, files
  <2>2. OneIncomplete'
    BY <1>2, <1>24, <2>1 DEF RestorePruned, OneIncomplete, Installing, Undoing, Incomplete
  <2>3. /\ Undoable(current) /\ "pruned" \in backups[current] /\ j.segment \notin j.pruned
    <3>1. current \in Incomplete /\ Undoable(current)
      BY <1>1, <2>1 DEF Sound
    <3>2. j.state # "recovery_failed" /\ j.segment.id = current /\ \A s \in j.pruned : s.id # current
      BY <3>1 DEF Undoable, Base
    <3> QED BY <3>1, <3>2 DEF TypesInv, JournalsTyped
  <2>4. CASE j.pruned \subseteq segments
    <3>1. segments' = segments /\ pc' = "undo root"
      BY <1>24, <2>4 DEF RestorePruned
    <3>2. UndoneSoFar'
      BY <1>2, <1>24, <2>1, <2>4, <3>1 DEF RestorePruned, UndoneSoFar
    <3>3. Base(current)' = Base(current)
      BY <2>1, <3>1 DEF Base
    <3> QED BY <1>1, <1>24, <2>1, <2>2, <3>1, <3>2, <3>3, FileSound DEF RestorePruned
  <2>5. CASE ~(j.pruned \subseteq segments)
    <3>1. PICK s \in j.pruned \ segments : segments' = segments \cup {s} /\ UNCHANGED pc
      BY <1>24, <2>3, <2>5 DEF RestorePruned
    <3>2. UndoneSoFar'
      BY <1>2, <1>24, <2>1, <2>3, <3>1 DEF RestorePruned, UndoneSoFar
    <3>3. /\ Base(current)' = Base(current)
          /\ segments' \subseteq segments \cup {j.segment} \cup Base(current)
      BY <2>1, <3>1 DEF Base
    <3> QED BY <1>1, <1>24, <2>1, <2>2, <3>2, <3>3, FileSound DEF RestorePruned
  <2> QED BY <2>4, <2>5
<1>25. CASE RestoreRoot
  <2>1. UNCHANGED <<journal, backups, made, anchors, current>> /\ Incomplete = {current}
    BY <1>2, <1>25 DEF RestoreRoot, OneIncomplete, Installing, Undoing, rotation, files, locals
  <2>2. OneIncomplete'
    BY <1>2, <1>25, <2>1 DEF RestoreRoot, OneIncomplete, Installing, Undoing, Incomplete, locals
  <2>3. UndoneSoFar'
    BY <1>2, <1>25 DEF RestoreRoot, UndoneSoFar, locals, rotation
  <2>4. /\ Base(current)' = Base(current)
        /\ segments' \subseteq segments \cup {journal[current].segment} \cup Base(current)
    BY <1>25, <2>1 DEF RestoreRoot, Base
  <2> QED BY <1>1, <1>25, <2>1, <2>2, <2>3, <2>4, FileSound DEF RestoreRoot
<1>26. CASE WriteRolledBack
  <2>1. /\ Incomplete = {current} /\ UNCHANGED <<chain, made, anchors, backups>>
    BY <1>2, <1>26 DEF WriteRolledBack, OneIncomplete, Installing, Undoing, files
  <2>2. Healthy
    BY <1>1, <1>26, UndoneVerifies DEF WriteRolledBack
  <2>3. Incomplete' = {} => OneIncomplete'
    BY <1>2, <1>26, <2>1, <2>2 DEF WriteRolledBack, OneIncomplete, Installing, Undoing, EndUndo,
       recovering
  <2>4. UndoneSoFar'
    BY <1>26 DEF WriteRolledBack, UndoneSoFar, EndUndo
  <2> QED BY <1>1, <1>26, <2>1, <2>2, <2>3, <2>4, FinishedSound DEF WriteRolledBack, Finished
<1>27. CASE UndoFails
  BY <1>27 DEF UndoFails
<1>28. CASE WriteFailed
  BY <1>2, <1>28 DEF WriteFailed, OneIncomplete
<1>29. CASE ReportFails
  BY <1>29 DEF ReportFails
<1>30. CASE Start
  <2>1. UNCHANGED <<chain, journal, made>> /\ (UNCHANGED backups \/ Incomplete = {})
    BY <1>2, <1>30 DEF Start, rotation, OneIncomplete
  <2>2. AnchorsAreOld'
    BY <1>1, <1>30 DEF Start, files, Sound, AnchorsAreOld
  <2>3. OneIncomplete'
    BY <1>1, <1>2, <1>30, <2>1 DEF Start, OneIncomplete, Installing, Undoing, Incomplete, Leave,
       locals
  <2>4. UndoneSoFar'
    BY <1>2, <1>30 DEF Start, UndoneSoFar, Leave, locals, chain, rotation
  <2> QED BY <1>1, <2>1, <2>2, <2>3, <2>4, StillSound
<1>31. CASE Recover
  <2>1. UNCHANGED <<chain, journal, made>> /\ (UNCHANGED backups \/ Incomplete = {})
    BY <1>2, <1>31 DEF Recover, rotation, OneIncomplete
  <2>2. AnchorsAreOld'
    BY <1>1, <1>31 DEF Recover, files, Sound, AnchorsAreOld
  <2>3. OneIncomplete'
    BY <1>1, <1>2, <1>31, <2>1 DEF Recover, OneIncomplete, Installing, Undoing, Incomplete,
       Leave, locals
  <2>4. UndoneSoFar'
    BY <1>2, <1>31 DEF Recover, UndoneSoFar, Leave, locals, chain, rotation
  <2> QED BY <1>1, <2>1, <2>2, <2>3, <2>4, StillSound
<1>32. CASE Started
  <2>1. UNCHANGED <<chain, journal, made>> /\ (UNCHANGED backups \/ Incomplete = {})
    BY <1>2, <1>32 DEF Started, rotation, OneIncomplete
  <2>2. AnchorsAreOld'
    BY <1>1, <1>32 DEF Started, files, Sound, AnchorsAreOld
  <2>3. OneIncomplete'
    BY <1>1, <1>2, <1>32, <2>1 DEF Started, OneIncomplete, Installing, Undoing, Incomplete,
       Leave, locals
  <2>4. UndoneSoFar'
    BY <1>2, <1>32 DEF Started, UndoneSoFar, Leave, locals, chain, rotation
  <2> QED BY <1>1, <2>1, <2>2, <2>3, <2>4, StillSound
<1>33. CASE Crash
  <2>1. UNCHANGED <<chain, journal, made>> /\ (UNCHANGED backups \/ Incomplete = {})
    BY <1>2, <1>33 DEF Crash, rotation, OneIncomplete
  <2>2. AnchorsAreOld'
    BY <1>1, <1>33 DEF Crash, files, Sound, AnchorsAreOld
  <2>3. OneIncomplete'
    BY <1>1, <1>2, <1>33, <2>1 DEF Crash, OneIncomplete, Installing, Undoing, Incomplete, Leave,
       locals
  <2>4. UndoneSoFar'
    BY <1>2, <1>33 DEF Crash, UndoneSoFar, Leave, locals, chain, rotation
  <2> QED BY <1>1, <2>1, <2>2, <2>3, <2>4, StillSound
<1>34. CASE UNCHANGED vars
  BY <1>1, <1>2, <1>34, StillSound DEF vars, chain, files, rotation, locals, OneIncomplete,
     UndoneSoFar, Sound, AnchorsAreOld, Incomplete
<1> QED BY <1>3, <1>4, <1>5, <1>6, <1>7, <1>8, <1>9, <1>10, <1>11, <1>12, <1>13, <1>14, <1>15,
           <1>16, <1>17, <1>18, <1>19, <1>20, <1>21, <1>22, <1>23, <1>24, <1>25, <1>26, <1>27,
           <1>28, <1>29, <1>30, <1>31, <1>32, <1>33, <1>34 DEF Next, Rotate, Rollback

-----------------------------------------------------------------------------
(* What readers of the chain rely on *)

\* On a chain that verifies, every event is in the rows, in a segment or before the root.
LEMMA HealthyCovers ==
  ASSUME TypesInv, Healthy, \A s \in segments : s.rows # <<>>
  PROVE  Elements(Tip) \subseteq Kept \cup Elements(root.end)
<1>1. /\ active.prev \in Chains /\ active.rows \in Chains
      /\ \A s \in segments : s.prev \in Chains /\ s.rows \in Chains
  BY DEF TypesInv, ChainTyped, RowTypes, SegmentTypes
<1>2. ASSUME NEW e, e \notin Kept, e \notin Elements(root.end)
      PROVE  \A s \in segments : e \notin Elements(End(s))
  <2> DEFINE Bad   == {s \in segments : e \in Elements(End(s))}
             Sizes == {Len(s.prev) : s \in Bad}
  <2>1. SUFFICES ASSUME Bad # {} PROVE FALSE
    OBVIOUS
  <2>2. PICK m \in Sizes : \A n \in Sizes : m <= n
    <3>1. Sizes \subseteq Nat /\ Sizes # {}
      BY <1>1, <2>1, ChainLength
    <3> HIDE DEF Sizes
    <3> QED BY <3>1, LeastNatural
  <2>3. PICK s \in Bad : m = Len(s.prev)
    BY <2>2
  <2>4. s \in segments /\ e \in Elements(s.prev \o s.rows)
    BY <2>3 DEF End
  <2>5. e \notin Elements(s.rows)
    BY <1>2, <2>4 DEF Kept
  <2>6. e \in Elements(s.prev)
    BY <1>1, <2>4, <2>5, ElementsOfConcat
  <2>7. PICK t \in segments : s.prev = End(t)
    BY <1>2, <2>4, <2>6 DEF Healthy
  <2>8. Len(t.prev) \in Sizes
    BY <2>6, <2>7
  <2>9. m <= Len(t.prev)
    BY <2>2, <2>8
  <2>10. Len(t.rows) \in Nat \ {0}
    BY <1>1, <2>7, EmptySeq DEF Chains
  <2>11. Len(s.prev) = Len(t.prev) + Len(t.rows) /\ Len(t.prev) \in Nat
    BY <1>1, <2>7, EndTyped, ChainLength
  <2>12. m = Len(t.prev) + Len(t.rows)
    BY <2>3, <2>11
  <2>13. ASSUME NEW x \in Nat, NEW y \in Nat \ {0} PROVE ~(x + y <= x)
    OBVIOUS
  <2> HIDE DEF Sizes, Bad
  <2> QED BY <2>9, <2>10, <2>11, <2>12, <2>13
<1>3. ASSUME NEW e \in Elements(Tip), e \notin Kept, e \notin Elements(root.end)
      PROVE  FALSE
  <2>1. e \in Elements(active.prev) \cup Elements(active.rows)
    BY <1>1, ElementsOfConcat DEF Tip
  <2>2. e \in Elements(active.prev)
    BY <1>3, <2>1 DEF Kept
  <2>3. active.prev = root.end \/ \E s \in segments : active.prev = End(s)
    BY DEF Healthy
  <2> QED BY <1>2, <1>3, <2>2, <2>3
<1> QED BY <1>3

\* The events of the chain are the numbers up to the newest.
LEMMA TipIsNumbered ==
  ASSUME TypesInv, Sound, Parameters
  PROVE  /\ Tip = Numbers(made) /\ Len(Tip) = made /\ Elements(Tip) = 1..made
<1>1. made \in 0..MaxEvents /\ Tip = Numbers(made)
  BY DEF TypesInv, CountsTyped, Sound, Numbered, Tip, End
<1>2. Len(Numbers(made)) = made
  BY <1>1, NumbersFacts
<1>3. Elements(Numbers(made)) = 1..made
  BY DEF Elements, Numbers
<1> QED BY <1>1, <1>2, <1>3

LEMMA SoundVerifies ==
  ASSUME TypesInv, ChainInv, Parameters
  PROVE  ChainVerifies /\ EventsStay /\ AnchorsHold
<1> SUFFICES ASSUME pc = "idle", ~left PROVE ChainVerifies /\ EventsStay /\ AnchorsHold
  BY DEF ChainVerifies, EventsStay, AnchorsHold
<1>1. Sound /\ Healthy /\ ~compromised
  BY DEF ChainInv, Sound, OneIncomplete
<1>2. EventsStay
  <2>1. told \subseteq Elements(Tip)
    BY <1>1, TipIsNumbered DEF TypesInv, CountsTyped
  <2>2. Elements(Tip) \subseteq Kept \cup Elements(root.end)
    BY <1>1, HealthyCovers DEF Sound, Known
  <2> QED BY <2>1, <2>2 DEF EventsStay
<1>3. AnchorsHold
  <2> SUFFICES ASSUME NEW a \in anchors
               PROVE  Len(a) <= Len(Tip) /\ a = SubSeq(Tip, 1, Len(a))
    BY DEF AnchorsHold
  <2>1. made \in 0..MaxEvents
    BY DEF TypesInv, CountsTyped
  <2>2. PICK n \in 0..made : a = Numbers(n)
    BY <1>1 DEF Sound, AnchorsAreOld
  <2>3. Len(a) = n
    BY <2>1, <2>2, NumbersFacts, Parameters
  <2>4. a = SubSeq(Numbers(made), 1, n)
    BY <2>1, <2>2, NumbersPrefix
  <2> QED BY <1>1, <2>1, <2>3, <2>4, TipIsNumbered
<1> QED BY <1>1, <1>2, <1>3 DEF ChainVerifies

-----------------------------------------------------------------------------
(* The theorems *)

LEMMA Initially ==
  ASSUME Init, Parameters
  PROVE  TypesInv /\ ChainInv
<1>1. <<>> \in Chains /\ 0 \in 0..MaxRotations /\ {} \in SUBSET SegmentTypes
  BY EmptySeq, Parameters DEF Chains
<1>2. Genesis \in RootTypes /\ NoRows \in RowTypes
  BY <1>1 DEF Genesis, NoRows, RootTypes, RowTypes
<1>3. NoJournal \in JournalTypes /\ NoJournal.state = "none"
  BY <1>1, <1>2 DEF NoJournal, JournalTypes, States
<1>4. Incomplete = {}
  BY <1>3 DEF Init, Incomplete
<1>5. ChainTyped /\ FilesTyped
  BY <1>2, Parameters DEF Init, ChainTyped, FilesTyped
<1>6. JournalsTyped
  BY <1>3, <1>4 DEF Init, JournalsTyped
<1>7. LocalsTyped /\ CountsTyped /\ Steps
  <2>1. LocalsTyped
    BY <1>1 DEF Init, LocalsTyped
  <2>2. CountsTyped
    <3>1. made = 0 /\ faults = 0 /\ crashes = 0 /\ told = {} /\ left = FALSE
      BY DEF Init
    <3>2. MaxEvents \in Nat /\ MaxFaults \in Nat /\ MaxCrashes \in Nat
      BY Parameters
    <3>3. 0 \in 0..MaxEvents /\ 0 \in 0..MaxFaults /\ 0 \in 0..MaxCrashes
      BY <3>2
    <3>4. {} \subseteq 1..0 /\ FALSE \in BOOLEAN
      OBVIOUS
    <3> QED BY <3>1, <3>3, <3>4, Zenon DEF CountsTyped
  <2>3. Steps
    BY DEF Init, Steps, Rotating, Undoing, Installing
  <2> QED BY <2>1, <2>2, <2>3
<1>8. Numbered
  <2>1. Numbers(0) \in Chains /\ Len(Numbers(0)) = 0
    BY NumbersFacts, Parameters
  <2>2. Numbers(0) = <<>>
    BY <2>1, EmptySeq DEF Chains
  <2>3. End(active) = <<>>
    BY <1>1, ConcatEmptySeq DEF Init, NoRows, End, Chains
  <2> QED BY <2>2, <2>3 DEF Numbered, Init
<1>9. Healthy
  BY DEF Init, Healthy, NoRows, Genesis
<1> QED BY <1>4, <1>5, <1>6, <1>7, <1>8, <1>9
        DEF Init, TypesInv, ChainInv, Sound, AnchorsAreOld, OneIncomplete, UndoneSoFar, Installing, Undoing

\* Every variable holds a value of its kind, and a rotation that is not finished still
\* has the backups that its rollback takes.
THEOREM TypeCorrect == Spec => []TypeOK
<1>1. Init => TypesInv
  BY Initially, Parameters
<1>2. TypesInv /\ [Next]_vars => TypesInv'
  BY TypesStep, Parameters
<1>3. TypesInv => TypeOK
  <2> SUFFICES ASSUME TypesInv PROVE TypeOK
    OBVIOUS
  <2>1. \A s \in segments : s.id \in Rotations /\ s.before \in 0..MaxRotations
    BY DEF TypesInv, ChainTyped, SegmentTypes
  <2>2. \A r \in Rotations : journal[r].state \in States
    BY JournalTyped DEF TypesInv
  <2> QED BY <2>1, <2>2 DEF TypesInv, ChainTyped, FilesTyped, JournalsTyped, LocalsTyped,
             CountsTyped,
               TypeOK, RowTypes, RootTypes, States, Rotating, Undoing
<1> QED BY <1>1, <1>2, <1>3, PTL DEF Spec

\* As long as no rollback failed, the chain is numbered, what an incomplete rotation
\* replaced can be put back, and what one that ended left verifies.
THEOREM ChainStaysWhole == Spec => [](TypesInv /\ ChainInv)
<1>1. Init => TypesInv /\ ChainInv
  BY Initially, Parameters
<1>2. TypesInv /\ ChainInv /\ [Next]_vars => TypesInv' /\ ChainInv'
  BY TypesStep, SoundStep, Parameters DEF ChainInv
<1> QED BY <1>1, <1>2, PTL DEF Spec

\* Whatever rotations did, failed at or died in, the chain verifies and appends are open
\* when no operation is in progress, unless a rollback failed.
THEOREM ChainAlwaysVerifiable == Spec => []ChainVerifies
<1>1. TypesInv /\ ChainInv => ChainVerifies
  BY SoundVerifies, Parameters
<1> QED BY <1>1, ChainStaysWhole, PTL

\* An event that the program was told is recorded stays in the chain, and can be read
\* unless retention deleted it.
THEOREM RecordedEventsStay == Spec => []EventsStay
<1>1. TypesInv /\ ChainInv => EventsStay
  BY SoundVerifies, Parameters
<1> QED BY <1>1, ChainStaysWhole, PTL

\* The head that an anchor request holds is a prefix of every later chain.
THEOREM AnchoredHeadsHold == Spec => []AnchorsHold
<1>1. TypesInv /\ ChainInv => AnchorsHold
  BY SoundVerifies, Parameters
<1> QED BY <1>1, ChainStaysWhole, PTL

=============================================================================
