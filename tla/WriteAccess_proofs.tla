--------------------------- MODULE WriteAccess_proofs ---------------------------
(***************************************************************************)
(* What stands between a request and the repository that it writes: the    *)
(* locks it nests, the access mode it is checked against, and the          *)
(* transaction that its Git write is.  For any number of threads,          *)
(* processes, transactions and versions, and any bounds:                   *)
(*                                                                         *)
(*  - the locks exclude, and requests that nest them in the order of Rank  *)
(*    never wait in a ring;                                                *)
(*  - mutations write only while both copies of the mode allow it, and     *)
(*    only the owner's steps let a repository be written;                  *)
(*  - a receipt tells what became of a Git write, and no rollback takes a  *)
(*    write back that has a receipt.                                       *)
(***************************************************************************)
EXTENDS LockHierarchy, AccessMode, GitWrites, TLAPS

-----------------------------------------------------------------------------
(* PART I: THE LOCKS (LockHierarchy)                                         *)

-----------------------------------------------------------------------------
(* The order *)

\* The order in which nested blocks take the locks.
Rank == [guard |-> 1, collaboration |-> 2, repository |-> 3, git |-> 4, switch |-> 5,
         registry |-> 6, operation |-> 7]

\* Each lock of the chain is there already or ranks above all that are.
Ordered(chain) ==
  \A j \in DOMAIN chain :
    \/ \E i \in 1..(j - 1) : chain[i] = chain[j]
    \/ \A i \in 1..(j - 1) : Rank[chain[i]] < Rank[chain[j]]

\* The two kinds of request that break the order are left out.
OrderedRequests == Requests \cap {"delete_missing", "restore"} = {}

LEMMA NestingOrdered ==
  ASSUME OrderedRequests, NEW r \in Requests, NEW chain \in Nesting[r]
  PROVE  Ordered(chain)
<1> USE LockParameters DEF Nesting, SetAccessMode, OrderedRequests, Ordered, Rank
<1>1. r \in {"open", "mutation", "registry_update", "set_access_mode", "discard",
             "git_write", "switch_plan", "merge", "delete_present"}
  OBVIOUS
<1>2. CASE r = "open"            BY <1>2
<1>3. CASE r = "mutation"        BY <1>3
<1>4. CASE r = "registry_update" BY <1>4
<1>5. CASE r = "set_access_mode" BY <1>5
<1>6. CASE r = "discard"         BY <1>6
<1>7. CASE r = "git_write"       BY <1>7
<1>8. CASE r = "switch_plan"     BY <1>8
<1>9. CASE r = "merge"           BY <1>9
<1>10. CASE r = "delete_present" BY <1>10
<1> QED BY <1>1, <1>2, <1>3, <1>4, <1>5, <1>6, <1>7, <1>8, <1>9, <1>10

-----------------------------------------------------------------------------
(* The inductive invariant *)

\* A lock is wanted by a request that may want it, and a file is waited for by
\* who is not yet in a block of its lock.
WantsAreNested ==
  \A p \in Threads :
    /\ want[p] # NoLock => request[p] \in Requests /\ MayWant(p, want[p])
    /\ p \in inside => want[p] \in FileLocks \ Held(p)

\* Only threads of the process own its thread locks.
OwnersAreLocal ==
  \A h \in Processes, l \in Locks :
    owner[h][l] # NoThread => Host[owner[h][l]] = h /\ l \notin PerCall

LocksInv == LocksTypeOK /\ WantsAreNested /\ OwnersAreLocal

LEMMA AppendFacts ==
  ASSUME NEW s \in Seq(Locks), NEW l \in Locks
  PROVE  /\ Append(s, l) \in Seq(Locks)
         /\ \A m : (\E i \in DOMAIN Append(s, l) : Append(s, l)[i] = m)
                     <=> (\E i \in DOMAIN s : s[i] = m) \/ m = l
<1>1. DOMAIN Append(s, l) = 1..(Len(s) + 1) /\ DOMAIN s = 1..Len(s)
  OBVIOUS
<1>2. Append(s, l)[Len(s) + 1] = l /\ \A i \in 1..Len(s) : Append(s, l)[i] = s[i]
  OBVIOUS
<1> QED BY <1>1, <1>2

-----------------------------------------------------------------------------
(* The steps *)

\* The variables but for the owners.
Kinds ==
  /\ owner \in [Processes -> [Locks -> Threads \cup {NoThread}]]
  /\ fileOwner \in [FileLocks -> Threads \cup {NoThread}]
  /\ request \in [Threads -> Requests \cup {NoRequest}]
  /\ held \in [Threads -> Seq(Locks)]
  /\ want \in [Threads -> Locks \cup {NoLock}]
  /\ inside \in SUBSET Threads
  /\ takes \in [Threads -> Nat]
  /\ starts \in Nat /\ deaths \in Nat

LEMMA LocksInvInit == LocksInit => LocksInv
<1> SUFFICES ASSUME LocksInit PROVE LocksInv
  OBVIOUS
<1> USE LockParameters, Sentinels DEF LocksInit
<1>1. Kinds
  BY DEF Kinds, Locks, FileLocks, ThreadLocks
<1>2. OwnersAgree /\ WantsAreNested /\ OwnersAreLocal
  BY DEF OwnersAgree, WantsAreNested, OwnersAreLocal, ThreadOwner, Held, Locks, FileLocks,
    ThreadLocks
<1> QED BY <1>1, <1>2 DEF LocksInv, LocksTypeOK, Kinds

LEMMA KindsHold == ASSUME LocksInv PROVE Kinds
BY DEF LocksInv, LocksTypeOK, Kinds

LEMMA OwnerSet ==
  ASSUME Kinds, NEW p \in Threads, NEW l \in Locks, NEW q \in Threads \cup {NoThread},
         SetOwner(p, l, q)
  PROVE  /\ owner' \in [Processes -> [Locks -> Threads \cup {NoThread}]]
         /\ \A h \in Processes, m \in Locks :
              owner'[h][m] = IF h = Host[p] /\ m = l THEN q ELSE owner[h][m]
<1>1. Host[p] \in Processes /\ owner \in [Processes -> [Locks -> Threads \cup {NoThread}]]
  BY LockParameters DEF Kinds
<1>2. owner' = [owner EXCEPT ![Host[p]] = [owner[Host[p]] EXCEPT ![l] = q]]
  BY DEF SetOwner
<1>3. [owner[Host[p]] EXCEPT ![l] = q] \in [Locks -> Threads \cup {NoThread}]
  BY <1>1
<1> QED BY <1>1, <1>2, <1>3

\* What the invariant says of one thread.
AgreesAt(p) ==
  /\ \A l \in Locks \ PerCall :
       owner[Host[p]][l] = p <=> l \in Held(p) \/ (p \in inside /\ l = want[p])
  /\ \A l \in FileLocks : fileOwner[l] = p <=> l \in Held(p)

NestedAt(p) ==
  /\ want[p] # NoLock => request[p] \in Requests /\ MayWant(p, want[p])
  /\ p \in inside => want[p] \in FileLocks \ Held(p)

LEMMA LocksInvAt ==
  ASSUME LocksInv, NEW p \in Threads
  PROVE  AgreesAt(p) /\ NestedAt(p)
BY DEF LocksInv, LocksTypeOK, OwnersAgree, WantsAreNested, AgreesAt, NestedAt, ThreadOwner

\* A step of p leaves the other threads where they are, and their locks theirs.
LEMMA OneMoves ==
  ASSUME LocksInv, Kinds', NEW p \in Threads, AgreesAt(p)', NestedAt(p)', OwnersAreLocal',
         \A q \in Threads \ {p} :
           /\ request'[q] = request[q] /\ held'[q] = held[q] /\ want'[q] = want[q]
           /\ q \in inside' <=> q \in inside
           /\ \A l \in Locks : owner'[Host[q]][l] = q <=> owner[Host[q]][l] = q
           /\ \A l \in FileLocks : fileOwner'[l] = q <=> fileOwner[l] = q
  PROVE  LocksInv'
<1>1. ASSUME NEW q \in Threads PROVE AgreesAt(q)'
  BY <1>1, LocksInvAt DEF AgreesAt, Held
<1>2. ASSUME NEW q \in Threads PROVE NestedAt(q)'
  <2>1. CASE q = p
    BY <2>1
  <2>2. CASE q # p
    <3>1. /\ request'[q] = request[q] /\ held'[q] = held[q] /\ want'[q] = want[q]
          /\ q \in inside' <=> q \in inside
      BY <2>2
    <3>2. NestedAt(q)
      BY LocksInvAt
    <3> QED BY <3>1, <3>2 DEF NestedAt, Held, MayWant
  <2> QED BY <2>1, <2>2
<1>3. OwnersAgree'
  BY <1>1 DEF OwnersAgree, AgreesAt, ThreadOwner
<1>4. WantsAreNested'
  BY <1>2 DEF WantsAreNested, NestedAt
<1> QED BY <1>3, <1>4 DEF LocksInv, LocksTypeOK, Kinds

LEMMA BeginOrReturnKeeps ==
  ASSUME LocksInv, NEW p \in Threads, (\E r \in Requests : Begin(p, r)) \/ Return(p)
  PROVE  LocksInv'
<1> USE LockParameters, Sentinels DEF Begin, Return
<1>1. Kinds'
  <2>1. CASE \E r \in Requests : Begin(p, r)
    BY <2>1, KindsHold DEF Kinds
  <2>2. CASE Return(p)
    BY <2>2, KindsHold DEF Kinds
  <2> QED BY <2>1, <2>2
<1>2. AgreesAt(p)' /\ OwnersAreLocal'
  BY LocksInvAt DEF LocksInv, OwnersAreLocal, AgreesAt, Held
<1>3. want[p] = NoLock
  BY LocksInvAt DEF NestedAt
<1>4. NestedAt(p)'
  BY <1>3, LocksInvAt DEF NestedAt, Held, FileLocks, Locks
<1> QED BY <1>1, <1>2, <1>4, OneMoves DEF LocksInv, LocksTypeOK

LEMMA WantKeeps ==
  ASSUME LocksInv, NEW p \in Threads, NEW l \in Locks, Want(p, l)
  PROVE  LocksInv'
<1> USE LockParameters, Sentinels DEF Want
<1>1. Kinds'
  BY DEF LocksInv, LocksTypeOK, Kinds
<1>2. p \notin inside
  BY LocksInvAt DEF NestedAt, Locks
<1>3. AgreesAt(p)' /\ OwnersAreLocal'
  BY <1>2, LocksInvAt DEF LocksInv, OwnersAreLocal, AgreesAt, Held
<1>4. request[p] \in Requests /\ want'[p] = l
  BY DEF LocksInv, LocksTypeOK
<1>5. NestedAt(p)'
  BY <1>2, <1>4 DEF NestedAt, MayWant
<1> QED BY <1>1, <1>3, <1>5, OneMoves DEF LocksInv, LocksTypeOK

LEMMA TakeThreadLockKeeps ==
  ASSUME LocksInv, NEW p \in Threads, TakeThreadLock(p)
  PROVE  LocksInv'
<1> USE LockParameters, Sentinels DEF TakeThreadLock
<1> DEFINE l == want[p]
<1>1. l \in Locks /\ p \notin inside /\ held[p] \in Seq(Locks) /\ Host[p] \in Processes
  BY DEF LocksInv, LocksTypeOK
<1>2. l \notin PerCall => owner[Host[p]][l] \in {NoThread, p}
  BY <1>1 DEF Blocked, ThreadOwner
<1>3. /\ owner' \in [Processes -> [Locks -> Threads \cup {NoThread}]]
      /\ \A h \in Processes, m \in Locks :
           owner'[h][m] = IF h = Host[p] /\ m = l /\ l \notin PerCall THEN p ELSE owner[h][m]
  BY <1>1, KindsHold, OwnerSet DEF Kinds
<1>4. OwnersAreLocal'
  BY <1>1, <1>3 DEF LocksInv, OwnersAreLocal
<1>5. \A q \in Threads \ {p}, m \in Locks :
         owner'[Host[q]][m] = q <=> owner[Host[q]][m] = q
  BY <1>1, <1>2, <1>3
<1>6. CASE l \in FileLocks \ Held(p)
  <2>1. /\ inside' = inside \cup {p} /\ held' = held /\ want' = want
        /\ fileOwner' = fileOwner /\ request' = request
    BY <1>6
  <2>2. Kinds'
    BY <1>3, <2>1, KindsHold DEF Kinds
  <2>3. AgreesAt(p)'
    BY <1>1, <1>3, <1>6, <2>1, LocksInvAt DEF AgreesAt, Held
  <2>4. NestedAt(p)'
    BY <1>1, <1>6, <2>1, LocksInvAt DEF NestedAt, Held, MayWant
  <2> QED BY <1>4, <1>5, <2>1, <2>2, <2>3, <2>4, OneMoves
<1>7. CASE l \notin FileLocks \ Held(p)
  <2>1. /\ inside' = inside /\ held' = [held EXCEPT ![p] = Append(held[p], l)]
        /\ want' = [want EXCEPT ![p] = NoLock]
        /\ fileOwner' = fileOwner /\ request' = request
    BY <1>7 DEF Got
  <2>2. Append(held[p], l) \in Seq(Locks) /\ held'[p] = Append(held[p], l)
    BY <1>1, <2>1, KindsHold DEF Kinds
  <2>3. \A m : m \in Held(p)' <=> m \in Held(p) \/ m = l
    <3>1. \A m : m \in Held(p) <=> \E i \in DOMAIN held[p] : held[p][i] = m
      BY DEF Held
    <3>2. \A m : m \in Held(p)' <=> \E i \in DOMAIN held'[p] : held'[p][i] = m
      BY DEF Held
    <3>3. \A m : (\E i \in DOMAIN Append(held[p], l) : Append(held[p], l)[i] = m)
                   <=> (\E i \in DOMAIN held[p] : held[p][i] = m) \/ m = l
      BY <1>1, AppendFacts
    <3> QED BY <2>2, <3>1, <3>2, <3>3, Zenon
  <2>4. Kinds'
    BY <1>1, <1>3, <2>1, <2>2, KindsHold DEF Kinds
  <2>5. l \in FileLocks => l \in Held(p)
    BY <1>7
  <2>6. p \notin inside' /\ want'[p] = NoLock
    BY <1>1, <2>1, KindsHold DEF Kinds
  <2>7. AgreesAt(p)'
    BY <1>1, <1>3, <2>1, <2>3, <2>5, <2>6, LocksInvAt DEF AgreesAt
  <2>8. NestedAt(p)'
    BY <2>6 DEF NestedAt
  <2>9. \A q \in Threads \ {p} : held'[q] = held[q] /\ want'[q] = want[q]
    BY <2>1, KindsHold DEF Kinds
  <2> QED BY <1>4, <1>5, <2>1, <2>4, <2>7, <2>8, <2>9, OneMoves
<1> QED BY <1>6, <1>7

LEMMA TakeFileLockKeeps ==
  ASSUME LocksInv, NEW p \in Threads, TakeFileLock(p)
  PROVE  LocksInv'
<1> USE LockParameters, Sentinels DEF TakeFileLock
<1> DEFINE l == want[p]
<1>1. /\ l \in FileLocks /\ l \notin Held(p) /\ l \in Locks
      /\ held[p] \in Seq(Locks) /\ fileOwner[l] = NoThread
  BY LocksInvAt DEF LocksInv, LocksTypeOK, NestedAt, Locks
<1>2. /\ inside' = inside \ {p} /\ held' = [held EXCEPT ![p] = Append(held[p], l)]
      /\ want' = [want EXCEPT ![p] = NoLock]
      /\ owner' = owner /\ request' = request
  BY DEF Got
<1>3. Append(held[p], l) \in Seq(Locks) /\ held'[p] = Append(held[p], l)
  BY <1>1, <1>2, KindsHold DEF Kinds
<1>4. \A m : m \in Held(p)' <=> m \in Held(p) \/ m = l
  <2>1. \A m : (\E i \in DOMAIN Append(held[p], l) : Append(held[p], l)[i] = m)
                <=> (\E i \in DOMAIN held[p] : held[p][i] = m) \/ m = l
    BY <1>1, AppendFacts
  <2> QED BY <1>3, <2>1 DEF Held
<1>5. Kinds'
  BY <1>1, <1>2, <1>3, KindsHold DEF Kinds
<1>6. p \notin inside' /\ want'[p] = NoLock /\ OwnersAreLocal'
  BY <1>1, <1>2, KindsHold DEF Kinds, LocksInv, OwnersAreLocal
<1>7. \A m \in FileLocks : fileOwner'[m] = IF m = l THEN p ELSE fileOwner[m]
  BY <1>1, KindsHold DEF Kinds
<1>8. AgreesAt(p)' /\ NestedAt(p)'
  BY <1>1, <1>2, <1>4, <1>6, <1>7, LocksInvAt DEF AgreesAt, NestedAt
<1>9. \A q \in Threads \ {p} : held'[q] = held[q] /\ want'[q] = want[q]
  BY <1>2, KindsHold DEF Kinds
<1>10. \A q \in Threads \ {p}, m \in FileLocks : fileOwner'[m] = q <=> fileOwner[m] = q
  BY <1>1, <1>7
<1> QED BY <1>2, <1>5, <1>6, <1>8, <1>9, <1>10, OneMoves

LEMMA TimeOutKeeps ==
  ASSUME LocksInv, NEW p \in Threads, TimeOut(p)
  PROVE  LocksInv'
<1> USE LockParameters, Sentinels DEF TimeOut
<1> DEFINE l == want[p]
<1>1. /\ l \in FileLocks /\ l \notin Held(p) /\ l \in Locks /\ Host[p] \in Processes
      /\ l \notin PerCall => owner[Host[p]][l] = p
  BY LocksInvAt DEF LocksInv, LocksTypeOK, NestedAt, AgreesAt, Locks
<1>2. /\ owner' \in [Processes -> [Locks -> Threads \cup {NoThread}]]
      /\ \A h \in Processes, m \in Locks :
           owner'[h][m] = IF h = Host[p] /\ m = l /\ l \notin PerCall THEN NoThread
                                                                     ELSE owner[h][m]
  BY <1>1, KindsHold, OwnerSet DEF Kinds
<1>3. /\ inside' = inside \ {p} /\ held' = held /\ fileOwner' = fileOwner
      /\ want' = [want EXCEPT ![p] = NoLock] /\ request' = [request EXCEPT ![p] = NoRequest]
  OBVIOUS
<1>4. Kinds'
  BY <1>2, <1>3, KindsHold DEF Kinds
<1>5. p \notin inside' /\ want'[p] = NoLock
  BY <1>3, KindsHold DEF Kinds
<1>6. OwnersAreLocal'
  BY <1>2 DEF LocksInv, OwnersAreLocal
<1>7. AgreesAt(p)' /\ NestedAt(p)'
  BY <1>1, <1>2, <1>3, <1>5, LocksInvAt DEF AgreesAt, NestedAt, Held
<1>8. \A q \in Threads \ {p} : request'[q] = request[q] /\ want'[q] = want[q]
  BY <1>3, KindsHold DEF Kinds
<1>9. \A q \in Threads \ {p}, m \in Locks :
         owner'[Host[q]][m] = q <=> owner[Host[q]][m] = q
  BY <1>1, <1>2
<1> QED BY <1>3, <1>4, <1>6, <1>7, <1>8, <1>9, OneMoves

\* The last lock of the sequence is left; it may occur before, and stay held.
LEMMA ReleaseKeeps ==
  ASSUME LocksInv, NEW p \in Threads, Release(p)
  PROVE  LocksInv'
<1> USE LockParameters, Sentinels DEF Release
<1>1. PICK l, rest : l = held[p][Len(held[p])] /\ rest = SubSeq(held[p], 1, Len(held[p]) - 1)
  OBVIOUS
<1>2. /\ held[p] \in Seq(Locks) /\ held[p] # << >> /\ want[p] = NoLock /\ p \notin inside
      /\ Host[p] \in Processes
  BY LocksInvAt DEF LocksInv, LocksTypeOK, NestedAt, Locks
<1>3. /\ l \in Locks /\ rest \in Seq(Locks)
      /\ \A m : m \in Held(p) <=> (\E i \in DOMAIN rest : rest[i] = m) \/ m = l
  <2>1. /\ rest \in Seq(Locks)
        /\ held[p][Len(held[p])] \in Locks
        /\ \A m : (\E i \in DOMAIN held[p] : held[p][i] = m)
                    <=> (\E i \in DOMAIN rest : rest[i] = m) \/ m = held[p][Len(held[p])]
    <3>1. PICK s \in Seq(Locks) : s = held[p]
      BY <1>2
    <3>2. s # << >> /\ rest = SubSeq(s, 1, Len(s) - 1)
      BY <1>1, <1>2, <3>1
    <3>3. Len(s) \in Nat \ {0} /\ DOMAIN s = 1..Len(s)
      BY <3>2
    <3>4. rest \in Seq(Locks) /\ DOMAIN rest = 1..(Len(s) - 1)
      BY <3>2, <3>3
    <3>5. \A i \in 1..(Len(s) - 1) : rest[i] = s[i]
      BY <3>2, <3>3
    <3>6. 1..Len(s) = 1..(Len(s) - 1) \cup {Len(s)} /\ s[Len(s)] \in Locks
      BY <3>3
    <3>7. ASSUME NEW m
          PROVE  (\E i \in DOMAIN s : s[i] = m)
                   <=> (\E i \in DOMAIN rest : rest[i] = m) \/ m = s[Len(s)]
      <4>1. (\E i \in DOMAIN s : s[i] = m)
              <=> (\E i \in 1..(Len(s) - 1) : s[i] = m) \/ m = s[Len(s)]
        BY <3>3, <3>6
      <4> QED BY <4>1, <3>4, <3>5
    <3>8. held[p][Len(held[p])] = s[Len(s)]
      BY <3>1
    <3>9. \A m : (\E i \in DOMAIN s : s[i] = m)
                 <=> (\E i \in DOMAIN rest : rest[i] = m) \/ m = s[Len(s)]
      BY <3>7
    <3> QED BY <3>1, <3>4, <3>6, <3>8, <3>9, Zenon
  <2>2. \A m : m \in Held(p) <=> \E i \in DOMAIN held[p] : held[p][i] = m
    BY DEF Held
  <2> QED BY <1>1, <2>1, <2>2, Zenon
<1>4. /\ held' = [held EXCEPT ![p] = rest] /\ request' = request /\ want' = want
      /\ inside' = inside
  BY <1>1
<1>5. \A m : m \in Held(p)' <=> \E i \in DOMAIN rest : rest[i] = m
  BY <1>4, KindsHold DEF Kinds, Held
<1>6. /\ owner' \in [Processes -> [Locks -> Threads \cup {NoThread}]]
      /\ \A h \in Processes, m \in Locks :
           owner'[h][m] = IF h = Host[p] /\ m = l /\ l \notin PerCall \cup Held(p)'
                            THEN NoThread ELSE owner[h][m]
  BY <1>1, <1>3, <1>5, KindsHold, OwnerSet DEF Kinds
<1>7. /\ fileOwner' \in [FileLocks -> Threads \cup {NoThread}]
      /\ \A m \in FileLocks :
           fileOwner'[m] = IF m = l /\ l \notin Held(p)' THEN NoThread ELSE fileOwner[m]
  <2>1. CASE l \in Held(p)'
    BY <1>1, <1>5, <2>1, KindsHold DEF Kinds
  <2>2. CASE l \notin Held(p)' /\ l \in FileLocks
    BY <1>1, <1>5, <2>2, KindsHold DEF Kinds
  <2>3. CASE l \notin Held(p)' /\ l \notin FileLocks
    BY <1>1, <1>5, <2>3, KindsHold DEF Kinds
  <2> QED BY <2>1, <2>2, <2>3
<1>8. Kinds'
  BY <1>3, <1>4, <1>6, <1>7, KindsHold DEF Kinds
<1>9. OwnersAreLocal'
  BY <1>6 DEF LocksInv, OwnersAreLocal
<1>10. AgreesAt(p)' /\ NestedAt(p)'
  <2>1. \A m : m \in Held(p) <=> m \in Held(p)' \/ m = l
    BY <1>3, <1>5
  <2>2. AgreesAt(p)
    BY LocksInvAt
  <2>3. want'[p] = NoLock /\ p \notin inside'
    BY <1>2, <1>4
  <2>4. \A m \in Locks \ PerCall : owner'[Host[p]][m] = p <=> m \in Held(p)'
    BY <1>2, <1>6, <2>1, <2>2 DEF AgreesAt
  <2>5. \A m \in FileLocks : fileOwner'[m] = p <=> m \in Held(p)'
    BY <1>7, <2>1, <2>2 DEF AgreesAt
  <2> QED BY <2>3, <2>4, <2>5 DEF AgreesAt, NestedAt
<1>11. \A q \in Threads \ {p} : held'[q] = held[q]
  BY <1>4, KindsHold DEF Kinds
<1>12. /\ l \notin PerCall => owner[Host[p]][l] = p
       /\ l \in FileLocks => fileOwner[l] = p
  BY <1>3, LocksInvAt DEF AgreesAt
<1>13. \A q \in Threads \ {p} :
         /\ \A m \in Locks : owner'[Host[q]][m] = q <=> owner[Host[q]][m] = q
         /\ \A m \in FileLocks : fileOwner'[m] = q <=> fileOwner[m] = q
  BY <1>6, <1>7, <1>12
<1> QED BY <1>4, <1>8, <1>9, <1>10, <1>11, <1>13, OneMoves

LEMMA DieKeeps ==
  ASSUME LocksInv, NEW h \in Processes, Die(h)
  PROVE  LocksInv'
<1> USE LockParameters, Sentinels DEF Die
<1>1. Kinds'
  BY KindsHold DEF Kinds
<1>2. \A g \in Processes, m \in Locks :
        owner'[g][m] = IF g = h THEN NoThread ELSE owner[g][m]
  BY KindsHold DEF Kinds
<1>3. OwnersAreLocal'
  BY <1>2 DEF LocksInv, OwnersAreLocal
<1>4. ASSUME NEW q \in Threads, Host[q] = h
      PROVE  AgreesAt(q)' /\ NestedAt(q)'
  <2>1. held'[q] = << >> /\ want'[q] = NoLock /\ q \notin inside'
    BY <1>4
  <2>2. \A m \in FileLocks : fileOwner'[m] # q
    BY <1>4
  <2> QED BY <1>2, <1>4, <2>1, <2>2 DEF AgreesAt, NestedAt, Held
<1>5. ASSUME NEW q \in Threads, Host[q] # h
      PROVE  AgreesAt(q)' /\ NestedAt(q)'
  <2>1. /\ held'[q] = held[q] /\ want'[q] = want[q] /\ request'[q] = request[q]
        /\ q \in inside' <=> q \in inside
    BY <1>5
  <2>2. \A m \in FileLocks : fileOwner'[m] = q <=> fileOwner[m] = q
    BY <1>5
  <2>3. AgreesAt(q) /\ NestedAt(q)
    BY LocksInvAt
  <2>4. AgreesAt(q)'
    BY <1>2, <1>5, <2>1, <2>2, <2>3 DEF AgreesAt, Held
  <2>5. NestedAt(q)'
    BY <2>1, <2>3 DEF NestedAt, Held, MayWant
  <2> QED BY <2>4, <2>5
<1>6. OwnersAgree'
  BY <1>4, <1>5 DEF OwnersAgree, AgreesAt, ThreadOwner
<1>7. WantsAreNested'
  BY <1>4, <1>5 DEF WantsAreNested, NestedAt
<1> QED BY <1>1, <1>3, <1>6, <1>7 DEF LocksInv, LocksTypeOK, Kinds

LEMMA LocksInvStep == LocksInv /\ [LocksNext]_lockVars => LocksInv'
<1> SUFFICES ASSUME LocksInv, [LocksNext]_lockVars PROVE LocksInv'
  OBVIOUS
<1>1. ASSUME NEW p \in Threads, (\E r \in Requests : Begin(p, r)) \/ Work(p)
      PROVE  LocksInv'
  BY <1>1, BeginOrReturnKeeps, WantKeeps, TakeThreadLockKeeps, TakeFileLockKeeps,
     TimeOutKeeps, ReleaseKeeps DEF Work
<1>2. ASSUME NEW h \in Processes, Die(h)
      PROVE  LocksInv'
  BY <1>2, DieKeeps
<1>3. CASE UNCHANGED lockVars
  BY <1>3 DEF lockVars, LocksInv, LocksTypeOK, OwnersAgree, WantsAreNested, OwnersAreLocal, ThreadOwner,
     Held, MayWant
<1> QED BY <1>1, <1>2, <1>3 DEF LocksNext

\* The invariant holds in every behaviour, for every choice of requests.
THEOREM LocksInvHolds == LocksSpec => []LocksInv
<1>1. LocksInv /\ [LocksNext]_lockVars => LocksInv'
  BY LocksInvStep
<1> QED BY <1>1, LocksInvInit, PTL DEF LocksSpec

-----------------------------------------------------------------------------
(* What the reader wants to know *)

\* Types, and the bookkeeping of InterProcessRLock: thread lock, file lock and
\* depth always agree, whatever times out or dies.
THEOREM LockTypesCorrect == LocksSpec => []LocksTypeOK
<1>1. LocksInv => LocksTypeOK
  BY DEF LocksInv
<1> QED BY <1>1, LocksInvHolds, PTL

\* A lock shuts out every other thread that shares it, across processes if it
\* has a file, whatever the requests and in whatever order they nest.
THEOREM MutualExclusion == LocksSpec => []Exclusion
<1>1. LocksInv => Exclusion
  <2> SUFFICES ASSUME LocksInv, NEW p \in Threads, NEW q \in Threads, p # q,
                      NEW l \in Held(p) \cap Held(q)
               PROVE  l \in ThreadLocks /\ Host[p] # Host[q]
    BY DEF Exclusion
  <2>1. l \in Locks
    BY DEF LocksInv, LocksTypeOK, Held
  <2>2. l \notin FileLocks
    BY LocksInvAt DEF AgreesAt
  <2>3. l \in ThreadLocks /\ l \notin PerCall
    BY <2>1, <2>2 DEF Locks, PerCall, FileLocks
  <2>4. Host[p] # Host[q]
    BY <2>1, <2>3, LocksInvAt DEF AgreesAt
  <2> QED BY <2>3, <2>4
<1> QED BY <1>1, LocksInvHolds, PTL

\* A blocked thread waits for a lock above all those it holds.
LEMMA WantRanksAbove ==
  ASSUME LocksInv, OrderedRequests, NEW p \in Threads, Blocked(p), NEW l \in Held(p)
  PROVE  Rank[l] < Rank[want[p]]
<1>1. want[p] \in Locks \ PerCall /\ want[p] \notin Held(p)
  BY LocksInvAt DEF Blocked, AgreesAt, ThreadOwner
<1>2. request[p] \in Requests /\ MayWant(p, want[p])
  BY <1>1, LocksInvAt, Sentinels DEF NestedAt
<1>3. PICK chain \in Nesting[request[p]] :
        /\ Len(held[p]) + 1 \in DOMAIN chain
        /\ \A i \in DOMAIN held[p] : held[p][i] = chain[i]
        /\ want[p] = chain[Len(held[p]) + 1]
  BY <1>2 DEF MayWant
<1>4. PICK i \in DOMAIN held[p] : held[p][i] = l
  BY DEF Held
<1>5. held[p] \in Seq(Locks) /\ Len(held[p]) \in Nat /\ DOMAIN held[p] = 1..Len(held[p])
  BY DEF LocksInv, LocksTypeOK
<1>6. Ordered(chain)
  BY <1>2, NestingOrdered
<1>7. \A k \in 1..Len(held[p]) : chain[k] # want[p]
  BY <1>1, <1>3, <1>5 DEF Held
<1> QED BY <1>3, <1>4, <1>5, <1>6, <1>7 DEF Ordered

\* Of the locks that are waited for, one ranks highest.
LEMMA HighestRank ==
  ASSUME NEW W \in SUBSET Locks, W # {}
  PROVE  \E l \in W : \A m \in W : Rank[m] <= Rank[l]
<1> USE DEF Locks, FileLocks, ThreadLocks
<1>1. CASE "operation" \in W      BY <1>1 DEF Rank
<1>2. CASE "operation" \notin W /\ "registry" \in W
  BY <1>2 DEF Rank
<1>3. CASE W \subseteq {"guard", "collaboration", "repository", "git", "switch"} /\ "switch" \in W
  BY <1>3 DEF Rank
<1>4. CASE W \subseteq {"guard", "collaboration", "repository", "git"} /\ "git" \in W
  BY <1>4 DEF Rank
<1>5. CASE W \subseteq {"guard", "collaboration", "repository"} /\ "repository" \in W
  BY <1>5 DEF Rank
<1>6. CASE W \subseteq {"guard", "collaboration"} /\ "collaboration" \in W
  BY <1>6 DEF Rank
<1>7. CASE W \subseteq {"guard"}
  <2>1. W = {"guard"}
    BY <1>7
  <2> QED BY <2>1 DEF Rank
<1> QED BY <1>1, <1>2, <1>3, <1>4, <1>5, <1>6, <1>7

\* Threads whose requests take the locks in order never wait in a ring: somebody
\* can always go on or give up.
THEOREM NoRing ==
  ASSUME OrderedRequests
  PROVE  LocksSpec => []NoCircularWait
<1>1. LocksInv => NoCircularWait
  <2> SUFFICES ASSUME LocksInv, NEW S \in (SUBSET Threads) \ {{}},
                      \A p \in S : Blocked(p) /\ ThreadOwner(p, want[p]) \in S
               PROVE  FALSE
    BY DEF NoCircularWait
  <2>1. PICK p \in S : \A q \in S : Rank[want[q]] <= Rank[want[p]]
    <3>1. \A q \in S : want[q] \in Locks
      BY DEF Blocked
    <3>2. PICK W \in SUBSET Locks : W = {want[q] : q \in S}
      BY <3>1
    <3>3. W # {}
      BY <3>2
    <3>4. PICK l \in W : \A m \in W : Rank[m] <= Rank[l]
      BY <3>3, HighestRank
    <3>5. PICK p \in S : want[p] = l
      BY <3>2, <3>4
    <3>6. \A q \in S : want[q] \in W
      BY <3>2
    <3> QED BY <3>4, <3>5, <3>6
  <2>2. PICK q \in S : q = ThreadOwner(p, want[p])
    OBVIOUS
  <2>3. p \in Threads /\ q \in Threads /\ want[p] \in Locks \ PerCall /\ Blocked(q)
    BY DEF Blocked
  <2>4. owner[Host[q]][want[p]] = q
    <3>1. owner[Host[p]][want[p]] = q /\ q # NoThread /\ Host[p] \in Processes
      BY <2>2, <2>3, LockParameters, Sentinels DEF ThreadOwner
    <3>2. Host[q] = Host[p]
      BY <2>3, <3>1 DEF LocksInv, OwnersAreLocal
    <3> QED BY <3>1, <3>2
  <2>5. want[p] \in Held(q)
    BY <2>3, <2>4, LocksInvAt DEF AgreesAt, Blocked
  <2>6. Rank[want[p]] < Rank[want[q]]
    BY <2>3, <2>5, WantRanksAbove
  <2>7. Rank[want[p]] \in Nat /\ Rank[want[q]] \in Nat
    BY <2>3 DEF Blocked, Rank, Locks, FileLocks, ThreadLocks
  <2> QED BY <2>1, <2>6, <2>7
<1> QED BY <1>1, LocksInvHolds, PTL

-----------------------------------------------------------------------------
(* PART II: THE ACCESS MODE (AccessMode)                                     *)

THEOREM ModeInitially == ModeInit => ModeTypeOK /\ WritesOnlyWhileWritable
  BY ModeParameters DEF ModeInit, ModeTypeOK, WritesOnlyWhileWritable, Modes, Mutating, Setting, Writable

-----------------------------------------------------------------------------
(* Types and locks *)

LEMMA OpeningTyped ==
  ASSUME ModeTypeOK, NEW t \in Callers, ReadRecord(t) \/ Reconcile(t) \/ Drop(t)
  PROVE  ModeTypeOK'
  <1>1. CASE ReadRecord(t)
    BY <1>1, ModeParameters DEF ReadRecord, ModeTypeOK, Go, locks, Request, Mutating, Setting, Modes
  <1>2. CASE Reconcile(t)
    BY <1>2 DEF Reconcile, ModeTypeOK, Go, locks, modeBounds, Mutating, Setting, Modes
  <1>3. CASE Drop(t)
    BY <1>3 DEF Drop, ModeTypeOK, Go, locks, modeBounds, Mutating, Setting
  <1> QED  BY <1>1, <1>2, <1>3

LEMMA MutationTyped ==
  ASSUME ModeTypeOK, NEW t \in Callers,
         EnterMutation(t) \/ ChangeFiles(t) \/ CheckSave(t) \/ CheckTimesOut(t) \/ Save(t)
  PROVE  ModeTypeOK'
  <1>1. CASE EnterMutation(t)
    <2>1. CASE Writable
      BY <1>1, <2>1, ModeParameters DEF EnterMutation, ModeTypeOK, Go, modeBounds, Mutating, Setting
    <2>2. CASE ~Writable
      BY <1>1, <2>2 DEF EnterMutation, ModeTypeOK, Go, modeBounds, Mutating, Setting
    <2> QED  BY <2>1, <2>2
  <1>2. CASE ChangeFiles(t)
    BY <1>2 DEF ChangeFiles, ModeTypeOK, Go, locks, modeBounds, Mutating, Setting
  <1>3. CASE CheckSave(t)
    <2>1. CASE Writable
      BY <1>3, <2>1 DEF CheckSave, ModeTypeOK, Go, modeBounds, Mutating, Setting
    <2>2. CASE ~Writable
      BY <1>3, <2>2, ModeParameters DEF CheckSave, ModeTypeOK, Go, modeBounds, Mutating, Setting
    <2> QED  BY <2>1, <2>2
  <1>4. CASE CheckTimesOut(t)
    BY <1>4, ModeParameters DEF CheckTimesOut, ModeTypeOK, Go, modeBounds, Mutating, Setting
  <1>5. CASE Save(t)
    BY <1>5, ModeParameters DEF Save, ModeTypeOK, Go, modeBounds, Mutating, Setting
  <1> QED  BY <1>1, <1>2, <1>3, <1>4, <1>5

LEMMA SettingTyped ==
  ASSUME ModeTypeOK, NEW t \in Callers, Select(t) \/ LockBoth(t) \/ Embed(t) \/ CommitMode(t)
  PROVE  ModeTypeOK'
  <1>1. CASE Select(t)
    BY <1>1, ModeParameters DEF Select, ModeTypeOK, Go, locks, Request, Mutating, Setting, Modes
  <1>2. CASE LockBoth(t)
    <2>1. CASE row = "none"
      BY <1>2, <2>1 DEF LockBoth, ModeTypeOK, Go, locks, modeBounds, Mutating, Setting
    <2>2. CASE row # "none"
      BY <1>2, <2>2, ModeParameters DEF LockBoth, ModeTypeOK, Go, modeBounds, Mutating, Setting
    <2> QED  BY <2>1, <2>2
  <1>3. CASE Embed(t)
    BY <1>3 DEF Embed, ModeTypeOK, Go, locks, modeBounds, Mutating, Setting, Modes
  <1>4. CASE CommitMode(t)
    BY <1>4, ModeParameters DEF CommitMode, ModeTypeOK, Go, modeBounds, Mutating, Setting, Modes
  <1> QED  BY <1>1, <1>2, <1>3, <1>4

LEMMA RestoreTyped ==
  ASSUME ModeTypeOK, NEW t \in Callers,
         \/ Install(t) \/ InstallWithout(t)
         \/ Compare(t) \/ CarryOver(t) \/ CarryPending(t) \/ FinishRestore(t)
  PROVE  ModeTypeOK'
  <1>1. CASE Install(t)
    <2> PICK m \in Modes : row' = m /\ selected' = [selected EXCEPT ![t] = m]
      BY <1>1 DEF Install
    <2> QED
      BY <1>1, ModeParameters DEF Install, Overtake, ModeTypeOK, Go, Request, Mutating, Setting, Modes
  <1>2. CASE Compare(t)
    BY <1>2 DEF Compare, ModeTypeOK, Go, locks, modeBounds, Mutating, Setting
  <1>3. CASE CarryOver(t)
    BY <1>3 DEF CarryOver, ModeTypeOK, Go, locks, modeBounds, Mutating, Setting, Modes
  <1>4. CASE CarryPending(t)
    BY <1>4 DEF CarryPending, ModeTypeOK, Go, locks, modeBounds, Mutating, Setting
  <1>5. CASE FinishRestore(t)
    BY <1>5, ModeParameters DEF FinishRestore, ModeTypeOK, Go, modeBounds, Mutating, Setting
  <1>6. CASE InstallWithout(t)
    BY <1>6, ModeParameters DEF InstallWithout, Overtake, ModeTypeOK, Go, Request, Mutating, Setting, Modes
  <1> QED  BY <1>1, <1>2, <1>3, <1>4, <1>5, <1>6

LEMMA RowTyped ==
  ASSUME ModeTypeOK, NEW t \in Callers, Unregister(t) \/ Probe(t) \/ Register(t) \/ Abort(t)
  PROVE  ModeTypeOK'
  <1>1. CASE Unregister(t)
    BY <1>1, ModeParameters DEF Unregister, Overtake, ModeTypeOK, locks, Request, Modes
  <1>2. CASE Probe(t)
    BY <1>2, ModeParameters DEF Probe, ModeTypeOK, Go, locks, Request, Mutating, Setting, Modes
  <1>3. CASE Register(t)
    BY <1>3 DEF Register, ModeTypeOK, Go, locks, modeBounds, Mutating, Setting, Modes
  <1>4. CASE Abort(t)
    BY <1>4, ModeParameters DEF Abort, ModeTypeOK, Go, Fault, Mutating, Setting
  <1> QED  BY <1>1, <1>2, <1>3, <1>4

LEMMA ModeTypeStep == ASSUME ModeTypeOK, [ModeNext]_modeVars PROVE ModeTypeOK'
  <1>1. CASE UNCHANGED modeVars
    BY <1>1 DEF ModeTypeOK, modeVars, locks, modeBounds
  <1>2. CASE ModeNext
    <2> PICK t \in Callers : Step(t)
      BY <1>2 DEF ModeNext
    <2> QED
      BY OpeningTyped, MutationTyped, SettingTyped, RestoreTyped, RowTyped DEF Step
  <1> QED  BY <1>1, <1>2

\* Every variable keeps its type, and the repository's lock and the operation lock
\* are held exactly inside the "with" blocks of registry.py and repository.py.
THEOREM ModeTypesCorrect == ModeSpec => []ModeTypeOK
  BY ModeInitially, ModeTypeStep, PTL DEF ModeSpec

-----------------------------------------------------------------------------
(* Mutations *)

LEMMA WritesStep ==
  ASSUME ModeTypeOK, WritesOnlyWhileWritable, [ModeNext]_modeVars
  PROVE  WritesOnlyWhileWritable'
  <1>1. CASE UNCHANGED modeVars
    BY <1>1 DEF WritesOnlyWhileWritable, Writable, modeVars
  <1>2. CASE ModeNext
    <2> PICK t \in Callers : Step(t)
      BY <1>2 DEF ModeNext
    <2> SUFFICES ASSUME NEW u \in Callers, place'[u] \in Mutating
                 PROVE  Writable' \/ u \in overtaken'
      BY DEF WritesOnlyWhileWritable
    <2> place[u] \in Mutating => Writable \/ u \in overtaken
      BY DEF WritesOnlyWhileWritable
    <2> USE DEF ModeTypeOK, Writable, Mutating
    <2>1. CASE ReadRecord(t) \/ Drop(t)
      BY <2>1 DEF ReadRecord, Drop, Go
    <2>2. CASE Reconcile(t)
      BY <2>2, ModeParameters DEF Reconcile, Go
    <2>3. CASE EnterMutation(t)
      BY <2>3, ModeParameters DEF EnterMutation, Go
    <2>4. CASE ChangeFiles(t) \/ CheckSave(t) \/ CheckTimesOut(t) \/ Save(t)
      BY <2>4 DEF ChangeFiles, CheckSave, CheckTimesOut, Save, Go
    <2>5. CASE Select(t) \/ LockBoth(t)
      BY <2>5 DEF Select, LockBoth, Go
    <2>6. CASE Embed(t) \/ CommitMode(t)
      BY <2>6 DEF Embed, CommitMode, Go, Setting
    <2>7. CASE Install(t) \/ InstallWithout(t)
      BY <2>7 DEF Install, InstallWithout, Overtake, Go
    <2>8. CASE Compare(t) \/ CarryPending(t) \/ FinishRestore(t)
      BY <2>8 DEF Compare, CarryPending, FinishRestore, Go
    <2>9. CASE CarryOver(t)
      BY <2>9, ModeParameters DEF CarryOver, Go
    <2>10. CASE Unregister(t)
      BY <2>10 DEF Unregister, Overtake
    <2>11. CASE Probe(t) \/ Register(t) \/ Abort(t)
      BY <2>11 DEF Probe, Register, Abort, Go
    <2> QED
      BY <2>1, <2>2, <2>3, <2>4, <2>5, <2>6, <2>7, <2>8, <2>9, <2>10, <2>11 DEF Step
  <1> QED  BY <1>1, <1>2

\* Inside mutation() and save_state the repository is writable by both copies,
\* unless a restore or an unregistration took the row away in the meantime.
THEOREM MutationsAreAllowed == ModeSpec => []WritesOnlyWhileWritable
  BY ModeInitially, ModeTypeStep, WritesStep, ModeTypesCorrect, PTL DEF ModeSpec

-----------------------------------------------------------------------------
(* The owner's authority *)

LEMMA LoosenStep ==
  ASSUME ModeTypeOK, [ModeNext]_modeVars, ~Writable, Writable'
  PROVE  \E t \in Callers : Loosens(t)
  <1> ~ UNCHANGED modeVars
    BY DEF modeVars, Writable
  <1> PICK t \in Callers : Step(t)
    BY DEF ModeNext
  <1> USE DEF ModeTypeOK, Writable, Loosens
  <1>1. CASE ReadRecord(t) \/ Drop(t) \/ Probe(t) \/ Unregister(t)
    BY <1>1 DEF ReadRecord, Drop, Probe, Unregister
  <1>2. CASE Reconcile(t)
    BY <1>2 DEF Reconcile
  <1>3. CASE EnterMutation(t) \/ ChangeFiles(t) \/ CheckSave(t) \/ CheckTimesOut(t) \/ Save(t)
    BY <1>3 DEF EnterMutation, ChangeFiles, CheckSave, CheckTimesOut, Save
  <1>4. CASE Select(t) \/ LockBoth(t)
    BY <1>4 DEF Select, LockBoth
  <1>5. CASE Embed(t) \/ CommitMode(t)
    BY <1>5 DEF Embed, CommitMode, Go, Setting
  <1>6. CASE Install(t) \/ InstallWithout(t)
    BY <1>6 DEF Install, InstallWithout, Go
  <1>7. CASE Compare(t) \/ CarryPending(t) \/ FinishRestore(t)
    BY <1>7 DEF Compare, CarryPending, FinishRestore
  <1>8. CASE CarryOver(t)
    BY <1>8 DEF CarryOver, Go
  <1>9. CASE Register(t) \/ Abort(t)
    BY <1>9 DEF Register, Abort, Go
  <1> QED
    BY <1>1, <1>2, <1>3, <1>4, <1>5, <1>6, <1>7, <1>8, <1>9 DEF Step

\* A repository becomes writable only by a transition, a restore or a registration
\* that the owner asked for, whatever was interrupted before.
THEOREM OwnerLoosens == ModeSpec => LoosenedOnlyByOwner
  <1>1. ModeTypeOK /\ [ModeNext]_modeVars => [~Writable /\ Writable' => \E t \in Callers : Loosens(t)]_modeVars
    BY LoosenStep
  <1> QED  BY <1>1, ModeTypesCorrect, PTL DEF ModeSpec, LoosenedOnlyByOwner

-----------------------------------------------------------------------------
(* PART III: THE GIT WRITES (GitWrites)                                      *)

(* The inductive invariant *)

Statuses  == {"none"} \cup Unfinished \cup Terminal
Preparing == {"capture", "apply", "installed", "seal"}
Executing == Preparing \cup {"receipt", "finish"}
Undoing   == {"undo", "restored", "told", "clear"}
Resting   == {"idle", "down", "recover"}
Shown     == [op : Operations, seen : [Files -> Versions]]
Journals  == [status : Statuses, captured : SUBSET Files, before : [Files -> Versions]]

GitTyped ==
  /\ git \in [Files -> Versions] /\ latest \in 1..MaxVersions /\ native \in BOOLEAN
  /\ previews \in SUBSET Shown

EvidenceTyped ==
  /\ journal \in [Txns -> Journals]
  /\ receipt \in [Txns -> {"none"} \cup Terminal]
  /\ audit \in [Txns -> SUBSET {"success", "rolled_back", "failure"}]
  /\ started \in 0..MaxTxns

WorkTyped ==
  /\ pc \in Resting \cup Executing \cup Undoing
  /\ current \in 0..started /\ queue \in SUBSET (1..started)
  /\ doing \in Shown \cup {NoPreview}
  /\ todo \in SUBSET Files /\ memory \in Statuses

HistoryTyped ==
  /\ acts \in 0..MaxNative /\ faults \in 0..MaxFaults /\ crashes \in 0..MaxCrashes
  /\ author \in [Files -> 0..started]
  /\ undone \in SUBSET (1..started) /\ slipped \in SUBSET (1..started)
  /\ left \in BOOLEAN

\* A transaction that has not begun has left no trace.
NotBegun ==
  \A t \in Txns : t > started => journal[t] = NoJournal /\ receipt[t] = "none"

\* What each step may rely on: the journal of its transaction, and what it captured.
AtWork ==
  /\ current # 0 <=> pc \notin Resting
  /\ current # 0 => journal[current].status # "none"
  /\ pc \in Executing => doing \in Shown
  /\ pc = "capture" => todo \subseteq Captures(doing.op) /\ journal[current].captured = Captures(doing.op) \ todo
  /\ pc \in Executing \ {"capture"} => journal[current].captured = Captures(doing.op)
  /\ pc = "undo" => todo \subseteq journal[current].captured
  /\ pc \in Executing \cup {"undo", "restored", "told"} =>
       receipt[current] = IF pc = "finish" THEN "committed" ELSE "none"
  /\ pc \in {"told", "clear"} => journal[current].status = "rolled_back"
  /\ pc \in {"receipt", "finish"} => journal[current].status = "committed"
  /\ pc \in Preparing => journal[current].status \in Unfinished /\ memory \in Unfinished
  /\ pc = "undo" => memory \notin {"none", "rolled_back"}

GitTypes ==
  GitTyped /\ EvidenceTyped /\ WorkTyped /\ HistoryTyped /\ NotBegun /\ AtWork

\* A journal or a receipt that tells that a write is committed is never again put back,
\* unless its own terminal writes raised; nothing that is open has a receipt.
ReceiptIsFinal ==
  /\ \A t \in Txns : receipt[t] # "none" => journal[t].status \notin Unfinished
  /\ \A t \in Txns :
       "committed" \in {receipt[t], journal[t].status} /\ t \notin slipped => t \notin undone
  /\ pc \in Executing => current \notin undone
  /\ pc = "undo" /\ "committed" \in {memory, journal[current].status} => current \in slipped

\* What a transaction wrote it has captured, and of one that was rolled back nothing is
\* left: a rollback has still to put back whatever its transaction wrote.
WritesAreCaptured ==
  /\ \A f \in Files : author[f] # Outside =>
       /\ "rolled_back" \notin {receipt[author[f]], journal[author[f]].status}
       /\ journal[author[f]].status # "none" => f \in journal[author[f]].captured
  /\ pc = "undo" => \A f \in Files : author[f] = current => f \in todo
  /\ pc \in {"restored", "told", "clear"} => \A f \in Files : author[f] # current

\* The transactions that may still be put back.
Open ==
  {t \in Txns : journal[t].status \in Unfinished}
    \cup (IF pc \in Preparing \cup {"receipt", "undo"} THEN {current} ELSE {})

\* At most one transaction is open: the one in progress, or that the start comes to.
OneOpen ==
  /\ pc = "idle" => Open = {}
  /\ pc = "recover" => Open \subseteq queue
  /\ pc \notin Resting => Open \subseteq {current}
  /\ \A t, u \in Open : t = u

\* What another transaction made of a file that an open one has captured is what the
\* open one would put back.
CapturedStands ==
  \A t \in Open : \A f \in journal[t].captured :
    author[f] \notin {Outside, t} => git[f] = journal[t].before[f]

Alone == ~left => OneOpen /\ CapturedStands

GitInv == GitTypes /\ ReceiptIsFinal /\ WritesAreCaptured /\ Alone

-----------------------------------------------------------------------------
(* Lemmas on the operators *)

LEMMA CapturesTyped ==
  ASSUME NEW op \in Operations
  PROVE  Captures(op) \in SUBSET Files
BY DEF Captures, Operations, Files

LEMMA NoneTyped == NoJournal \in Journals /\ NoJournal.status = "none" /\ NoJournal.captured = {}
<1>1. 0 \in Versions
  BY Parameters DEF Versions
<1> QED BY <1>1 DEF NoJournal, Journals, Statuses

\* A status is written over a journal, which keeps what it captured.
LEMMA StatusSet ==
  ASSUME EvidenceTyped, NEW t \in Txns, NEW status \in Statuses, SetStatus(t, status)
  PROVE  /\ journal' \in [Txns -> Journals]
         /\ journal'[t].status = status /\ journal'[t].captured = journal[t].captured
         /\ journal'[t].before = journal[t].before
         /\ \A u \in Txns \ {t} : journal'[u] = journal[u]
<1>1. journal \in [Txns -> Journals] /\ journal[t] \in Journals
  BY DEF EvidenceTyped
<1>2. journal' = [journal EXCEPT ![t] = [journal[t] EXCEPT !.status = status]]
  BY <1>1 DEF SetStatus
<1>3. journal'[t] = [journal[t] EXCEPT !.status = status]
  BY <1>1, <1>2
<1>4. [journal[t] EXCEPT !.status = status] \in Journals
  BY <1>1 DEF Journals
<1> QED BY <1>1, <1>2, <1>3, <1>4

LEMMA RootRemoved ==
  ASSUME EvidenceTyped, NEW t \in Txns, RemoveRoot(t)
  PROVE  /\ journal' \in [Txns -> Journals] /\ journal'[t] \in {NoJournal, journal[t]}
         /\ \A u \in Txns \ {t} : journal'[u] = journal[u]
BY NoneTyped DEF EvidenceTyped, RemoveRoot

\* A capture adds a file, and its version, to the journal.
LEMMA Captured ==
  ASSUME GitTyped, EvidenceTyped, NEW t \in Txns, NEW f \in Files,
         journal' = [journal EXCEPT ![t].captured = @ \cup {f}, ![t].before[f] = git[f]]
  PROVE  /\ journal' \in [Txns -> Journals]
         /\ journal'[t].status = journal[t].status
         /\ journal'[t].captured = journal[t].captured \cup {f}
         /\ journal'[t].before[f] = git[f]
         /\ \A g \in Files \ {f} : journal'[t].before[g] = journal[t].before[g]
         /\ \A u \in Txns \ {t} : journal'[u] = journal[u]
<1> DEFINE new == [journal[t] EXCEPT !.captured = @ \cup {f}, !.before = [@ EXCEPT ![f] = git[f]]]
<1>1. journal \in [Txns -> Journals] /\ journal[t] \in Journals /\ git[f] \in Versions
  BY DEF EvidenceTyped, GitTyped
<1>2. journal' = [journal EXCEPT ![t] = new]
  BY <1>1 DEF Journals
<1>3. /\ new \in Journals /\ new.status = journal[t].status
      /\ new.captured = journal[t].captured \cup {f} /\ new.before[f] = git[f]
      /\ \A g \in Files \ {f} : new.before[g] = journal[t].before[g]
  BY <1>1 DEF Journals
<1>4. journal'[t] = new
  BY <1>1, <1>2
<1> QED BY <1>1, <1>2, <1>3, <1>4

LEMMA GitBoundsTyped ==
  ASSUME HistoryTyped, NEW kind, UNCHANGED bounds \/ Raise(kind) \/ Act
  PROVE  acts' \in 0..MaxNative /\ faults' \in 0..MaxFaults /\ crashes' \in 0..MaxCrashes
BY Parameters DEF HistoryTyped, Raise, Act, bounds

\* The transaction in progress has begun, and what begins has a number of its own.
LEMMA InProgress ==
  ASSUME GitTypes
  PROVE  /\ started \in Nat /\ MaxTxns \in Nat /\ 1..started \subseteq Txns
         /\ current \in Txns \/ current = 0
         /\ pc \notin Resting => current \in Txns /\ current \in 1..started
         /\ \A t \in Txns : journal[t] \in Journals /\ journal[t].status \in Statuses
         /\ \A t \in Txns : journal[t].captured \in SUBSET Files
<1>1. started \in Nat /\ MaxTxns \in Nat /\ started <= MaxTxns
  BY Parameters DEF GitTypes, EvidenceTyped
<1>2. 1..started \subseteq Txns
  BY <1>1 DEF Txns
<1>3. current \in 0..started /\ (pc \notin Resting => current # 0)
  BY DEF GitTypes, WorkTyped, AtWork
<1>4. \A t \in Txns : journal[t] \in Journals
  BY DEF GitTypes, EvidenceTyped
<1> QED BY <1>1, <1>2, <1>3, <1>4 DEF Journals

-----------------------------------------------------------------------------
(* Every step keeps the types *)

LEMMA GitStep ==
  ASSUME GitTypes, [Next]_vars
  PROVE  GitTyped'
<1>1. CASE NativeState
  BY <1>1 DEF GitTypes, NativeState, GitTyped
<1>2. CASE NativeWrite
  BY <1>2, Parameters DEF GitTypes, NativeWrite, GitTyped, Versions, Files
<1>3. CASE Preview
  BY <1>3 DEF GitTypes, Preview, GitTyped, Shown
<1>4. CASE DropPreview
  BY <1>4 DEF GitTypes, DropPreview, GitTyped
<1>5. CASE Apply
  <2>1. latest + 1 \in Versions \/ latest = MaxVersions
    BY Parameters DEF GitTypes, GitTyped, Versions
  <2>2. pc \in Executing /\ doing.seen["branch"] \in Versions
    BY <1>5 DEF Apply, GitTypes, AtWork, Executing, Preparing, Shown, Files
  <2> QED BY <1>5, <2>1, <2>2, Parameters DEF GitTypes, Apply, GitTyped, Files
<1>6. CASE Finish
  BY <1>6 DEF GitTypes, Finish, GitTyped
<1>7. CASE PutBack
  <2>1. current \in Txns /\ journal[current] \in Journals /\ todo \subseteq Files
    BY <1>7, InProgress DEF PutBack, Resting, GitTypes, WorkTyped
  <2>2. \A f \in Files : journal[current].before[f] \in Versions
    BY <2>1 DEF Journals
  <2> QED BY <1>7, <2>1, <2>2 DEF GitTypes, PutBack, GitTyped
<1>8. CASE EndRollback
  BY <1>8 DEF GitTypes, EndRollback, GitTyped
<1>9. CASE UNCHANGED <<git, latest, native, previews>>
  BY <1>9 DEF GitTypes, GitTyped
<1> QED
  BY <1>1, <1>2, <1>3, <1>4, <1>5, <1>6, <1>7, <1>8, <1>9 DEF Next, Execute, Rollback,
    Recover, vars, evidence, locals, bounds, history, Leave, Authorize, Capture, Seal,
    CaptureFails, ApplyFails, AuditSuccess, WriteCommitted, WriteReceipt, ReportFails,
    CheckpointRestored, WriteRolledBack, WriteRollbackReceipt, RollbackFails, Start,
    FinishTerminal, BeginRecovery, Defer, Started, Crash

LEMMA EvidenceStep ==
  ASSUME GitTypes, [Next]_vars
  PROVE  EvidenceTyped'
<1>1. CASE Authorize
  <2>1. started + 1 \in Txns /\ started + 1 \in 0..MaxTxns
    BY <1>1, InProgress DEF Authorize, Txns
  <2>2. SetStatus(started + 1, "prepared") /\ "prepared" \in Statuses
    BY <1>1 DEF Authorize, Statuses, Unfinished
  <2>3. journal' \in [Txns -> Journals]
    BY <2>1, <2>2, StatusSet DEF GitTypes
  <2> QED BY <1>1, <2>1, <2>3 DEF Authorize, GitTypes, EvidenceTyped
<1>2. CASE Capture
  <2>1. current \in Txns /\ todo \subseteq Files
    BY <1>2, InProgress DEF Capture, Resting, GitTypes, WorkTyped
  <2>2. journal' \in [Txns -> Journals]
    BY <1>2, <2>1, Captured DEF Capture, GitTypes
  <2> QED BY <1>2, <2>2 DEF Capture, GitTypes, EvidenceTyped
<1>3. CASE Seal
  <2>1. current \in Txns /\ "applying" \in Statuses
    BY <1>3, InProgress DEF Seal, Resting, Statuses, Unfinished
  <2>2. journal' \in [Txns -> Journals]
    BY <1>3, <2>1, StatusSet DEF Seal, GitTypes
  <2> QED BY <1>3, <2>2 DEF Seal, GitTypes, EvidenceTyped
<1>4. CASE AuditSuccess
  BY <1>4 DEF GitTypes, AuditSuccess, EvidenceTyped, Terminal
<1>5. CASE WriteCommitted
  <2>1. current \in Txns /\ "committed" \in Statuses
    BY <1>5, InProgress DEF WriteCommitted, Resting, Statuses, Terminal
  <2>2. journal' \in [Txns -> Journals]
    BY <1>5, <2>1, StatusSet DEF WriteCommitted, GitTypes
  <2> QED BY <1>5, <2>2 DEF WriteCommitted, GitTypes, EvidenceTyped
<1>6. CASE WriteReceipt
  BY <1>6 DEF GitTypes, WriteReceipt, EvidenceTyped, Terminal
<1>7. CASE Finish
  <2>1. current \in Txns
    BY <1>7, InProgress DEF Finish, Resting
  <2>2. journal' \in [Txns -> Journals]
    BY <1>7, <2>1, RootRemoved DEF Finish, GitTypes
  <2> QED BY <1>7, <2>2 DEF Finish, GitTypes, EvidenceTyped
<1>8. CASE CheckpointRestored
  <2>1. current \in Txns /\ memory \in Statuses
    BY <1>8, InProgress DEF CheckpointRestored, Resting, GitTypes, WorkTyped
  <2>2. journal' \in [Txns -> Journals]
    BY <1>8, <2>1, StatusSet DEF CheckpointRestored, GitTypes
  <2> QED BY <1>8, <2>2 DEF CheckpointRestored, GitTypes, EvidenceTyped
<1>9. CASE WriteRolledBack
  <2>1. current \in Txns /\ "rolled_back" \in Statuses
    BY <1>9, InProgress DEF WriteRolledBack, Resting, Statuses, Terminal
  <2>2. journal' \in [Txns -> Journals]
    BY <1>9, <2>1, StatusSet DEF WriteRolledBack, GitTypes
  <2> QED BY <1>9, <2>2 DEF WriteRolledBack, GitTypes, EvidenceTyped
<1>10. CASE WriteRollbackReceipt
  BY <1>10 DEF GitTypes, WriteRollbackReceipt, EvidenceTyped, Terminal
<1>11. CASE EndRollback
  <2>1. current \in Txns
    BY <1>11, InProgress DEF EndRollback, Resting
  <2>2. journal' \in [Txns -> Journals]
    BY <1>11, <2>1, RootRemoved DEF EndRollback, GitTypes
  <2> QED BY <1>11, <2>2 DEF EndRollback, GitTypes, EvidenceTyped
<1>12. CASE RollbackFails
  <2>1. current \in Txns /\ "rollback_failed" \in Statuses
    BY <1>12, InProgress DEF RollbackFails, Resting, Statuses, Unfinished
  <2>2. journal' \in [Txns -> Journals]
    BY <1>12, <2>1, StatusSet DEF RollbackFails, GitTypes, EvidenceTyped
  <2> QED BY <1>12, <2>2 DEF RollbackFails, GitTypes, EvidenceTyped
<1>13. CASE FinishTerminal
  <2>1. PICK t \in queue :
           /\ journal[t].status \in Terminal /\ RemoveRoot(t)
           /\ receipt' = [receipt EXCEPT ![t] = IF @ = "none" THEN journal[t].status ELSE @]
    BY <1>13 DEF FinishTerminal
  <2>2. t \in Txns
    BY InProgress DEF GitTypes, WorkTyped
  <2>3. journal' \in [Txns -> Journals]
    BY <2>1, <2>2, RootRemoved DEF GitTypes
  <2> QED BY <1>13, <2>1, <2>2, <2>3 DEF FinishTerminal, GitTypes, EvidenceTyped
<1>14. CASE UNCHANGED evidence
  BY <1>14 DEF GitTypes, EvidenceTyped, evidence
<1> QED
  BY <1>1, <1>2, <1>3, <1>4, <1>5, <1>6, <1>7, <1>8, <1>9, <1>10, <1>11, <1>12, <1>13, <1>14
    DEF Next, Execute, Rollback, Recover, vars, evidence, locals, bounds, history, Leave,
    NativeState, NativeWrite, Preview, DropPreview, CaptureFails, Apply, ApplyFails,
    ReportFails, PutBack, Start, BeginRecovery, Defer, Started, Crash

LEMMA HistoryStep ==
  ASSUME GitTypes, [Next]_vars
  PROVE  HistoryTyped'
<1>1. CASE NativeState
  BY <1>1, GitBoundsTyped DEF NativeState, GitTypes, HistoryTyped, history, evidence
<1>2. CASE NativeWrite
  <2>1. 0 \in 0..started
    BY InProgress
  <2>2. author' \in [Files -> 0..started] /\ started' = started
    BY <1>2, <2>1 DEF NativeWrite, evidence, GitTypes, HistoryTyped, Outside
  <2> QED BY <1>2, <2>2, GitBoundsTyped DEF NativeWrite, GitTypes, HistoryTyped, history
<1>3. CASE Authorize
  <2>1. 0..started \subseteq 0..(started + 1) /\ 1..started \subseteq 1..(started + 1)
    BY InProgress
  <2>2. started' = started + 1 /\ UNCHANGED <<bounds, author, undone, slipped, left>>
    BY <1>3 DEF Authorize, history
  <2> QED BY <2>1, <2>2 DEF bounds, GitTypes, HistoryTyped
<1>4. CASE CaptureFails
  BY <1>4, GitBoundsTyped DEF CaptureFails, GitTypes, HistoryTyped, evidence
<1>5. CASE Apply
  BY <1>5 DEF Apply, GitTypes, HistoryTyped, WorkTyped, Wrote, evidence, bounds, history
<1>6. CASE ApplyFails
  BY <1>6, GitBoundsTyped DEF ApplyFails, GitTypes, HistoryTyped, history, evidence
<1>7. CASE ReportFails
  <2>1. current \in 1..started /\ started' = started
    BY <1>7, InProgress DEF ReportFails, Resting, evidence
  <2> QED BY <1>7, <2>1, GitBoundsTyped DEF ReportFails, GitTypes, HistoryTyped
<1>8. CASE PutBack
  <2>1. current \in 1..started /\ 0 \in 0..started /\ started' = started
    BY <1>8, InProgress DEF PutBack, Resting, evidence
  <2>2. author' \in [Files -> 0..started]
    BY <1>8, <2>1 DEF PutBack, GitTypes, HistoryTyped, Outside
  <2> QED BY <1>8, <2>1, <2>2 DEF PutBack, GitTypes, HistoryTyped, bounds
<1>9. CASE RollbackFails
  BY <1>9, GitBoundsTyped DEF RollbackFails, GitTypes, HistoryTyped
<1>10. CASE Defer
  BY <1>10 DEF Defer, GitTypes, HistoryTyped, bounds, evidence
<1>11. CASE Crash
  BY <1>11, Parameters DEF Crash, GitTypes, HistoryTyped, history, evidence
<1>12. CASE UNCHANGED <<started, bounds, author, history>>
  BY <1>12 DEF GitTypes, HistoryTyped, bounds, history
<1> QED
  BY <1>1, <1>2, <1>3, <1>4, <1>5, <1>6, <1>7, <1>8, <1>9, <1>10, <1>11, <1>12 DEF Next,
    Execute, Rollback, Recover, vars, evidence, locals, bounds, history, Leave, Preview,
    DropPreview, Capture, Seal, AuditSuccess, WriteCommitted, WriteReceipt, Finish,
    CheckpointRestored, WriteRolledBack, WriteRollbackReceipt, EndRollback, Start,
    FinishTerminal, BeginRecovery, Started

LEMMA WorkStep ==
  ASSUME GitTypes, [Next]_vars
  PROVE  WorkTyped'
<1>1. CASE Authorize
  <2>1. started' = started + 1 /\ current' = started + 1 /\ pc' = "capture" /\ UNCHANGED queue
        /\ memory' = "prepared"
    BY <1>1 DEF Authorize
  <2>2. doing' \in Shown /\ todo' = Captures(doing'.op)
    BY <1>1 DEF Authorize, GitTypes, GitTyped
  <2>3. todo' \in SUBSET Files
    BY <2>2, CapturesTyped DEF Shown
  <2>4. 1..started \subseteq 1..(started + 1) /\ started + 1 \in 0..(started + 1)
    BY InProgress
  <2> QED BY <2>1, <2>2, <2>3, <2>4 DEF GitTypes, WorkTyped, Executing, Preparing, Statuses,
    Unfinished
<1>2. CASE Capture
  BY <1>2 DEF Capture, GitTypes, WorkTyped
<1>3. CASE Seal
  BY <1>3 DEF Seal, GitTypes, WorkTyped, Executing, Preparing, Statuses, Unfinished
<1>4. CASE CaptureFails
  <2>1. 0 \in 0..started
    BY InProgress
  <2> QED BY <1>4, <2>1 DEF CaptureFails, GitTypes, WorkTyped, evidence, Resting, Leave,
    Statuses
<1>5. CASE Apply
  BY <1>5 DEF Apply, GitTypes, WorkTyped, evidence, Executing, Preparing, Wrote, locals
<1>6. CASE ApplyFails
  <2>1. todo' \in SUBSET Files
    BY <1>6, InProgress DEF ApplyFails, Resting
  <2> QED BY <1>6, <2>1 DEF ApplyFails, GitTypes, WorkTyped, evidence, Undoing
<1>7. CASE AuditSuccess
  BY <1>7 DEF AuditSuccess, GitTypes, WorkTyped, Executing, Preparing, locals
<1>8. CASE WriteCommitted
  BY <1>8 DEF WriteCommitted, GitTypes, WorkTyped, Executing, Statuses, Terminal
<1>9. CASE WriteReceipt
  BY <1>9 DEF WriteReceipt, GitTypes, WorkTyped, Executing, locals
<1>10. CASE Finish
  <2>1. 0 \in 0..started
    BY InProgress
  <2> QED BY <1>10, <2>1 DEF Finish, GitTypes, WorkTyped, Resting, Leave, Statuses
<1>11. CASE ReportFails
  <2>1. todo' \in SUBSET Files
    BY <1>11, InProgress DEF ReportFails, Resting
  <2> QED BY <1>11, <2>1 DEF ReportFails, GitTypes, WorkTyped, evidence, Undoing, Statuses,
    Terminal
<1>12. CASE PutBack
  BY <1>12 DEF PutBack, GitTypes, WorkTyped, evidence
<1>13. CASE CheckpointRestored
  BY <1>13 DEF CheckpointRestored, GitTypes, WorkTyped, Undoing, locals
<1>14. CASE WriteRolledBack
  BY <1>14 DEF WriteRolledBack, GitTypes, WorkTyped, Undoing, Statuses, Terminal
<1>15. CASE WriteRollbackReceipt
  BY <1>15 DEF WriteRollbackReceipt, GitTypes, WorkTyped, Undoing, locals
<1>16. CASE EndRollback
  <2>1. 0 \in 0..started
    BY InProgress
  <2> QED BY <1>16, <2>1 DEF EndRollback, GitTypes, WorkTyped, Resting, Leave, Statuses
<1>17. CASE RollbackFails
  <2>1. 0 \in 0..started
    BY InProgress
  <2> QED BY <1>17, <2>1 DEF RollbackFails, GitTypes, WorkTyped, Resting, Leave, Statuses
<1>18. CASE Start
  <2>1. \A t \in Txns : journal[t].status # "none" => t \in 1..started
    BY InProgress DEF GitTypes, NotBegun, Txns, NoJournal
  <2>2. queue' \in SUBSET (1..started) /\ 0 \in 0..started
    BY <1>18, <2>1, InProgress DEF Start
  <2> QED BY <1>18, <2>2 DEF Start, WorkTyped, evidence, Resting, Leave, Statuses
<1>19. CASE FinishTerminal
  BY <1>19 DEF FinishTerminal, GitTypes, WorkTyped, Executing, Preparing, Unfinished
<1>20. CASE BeginRecovery
  <2>1. current' \in queue /\ todo' = journal[current'].captured /\ memory' = journal[current'].status
        /\ pc' = "undo" /\ UNCHANGED <<started, doing, queue>>
    BY <1>20 DEF BeginRecovery, evidence
  <2>2. current' \in Txns /\ current' \in 0..started
    BY <2>1, InProgress DEF GitTypes, WorkTyped
  <2>3. todo' \in SUBSET Files /\ memory' \in Statuses
    BY <2>1, <2>2, InProgress
  <2> QED BY <2>1, <2>2, <2>3 DEF GitTypes, WorkTyped, Undoing
<1>21. CASE Defer
  BY <1>21 DEF Defer, GitTypes, WorkTyped, evidence, Terminal
<1>22. CASE Started
  BY <1>22 DEF Started, GitTypes, WorkTyped, evidence, Resting, locals
<1>23. CASE Crash
  <2>1. 0 \in 0..started
    BY InProgress
  <2> QED BY <1>23, <2>1 DEF Crash, WorkTyped, evidence, Resting, Leave, Statuses
<1>24. CASE UNCHANGED <<started, pc, locals>>
  BY <1>24 DEF GitTypes, WorkTyped, locals
<1> QED
  BY <1>1, <1>2, <1>3, <1>4, <1>5, <1>6, <1>7, <1>8, <1>9, <1>10, <1>11, <1>12, <1>13,
    <1>14, <1>15, <1>16, <1>17, <1>18, <1>19, <1>20, <1>21, <1>22, <1>23, <1>24 DEF Next,
    Execute, Rollback, Recover, vars, evidence, NativeState, NativeWrite, Preview,
    DropPreview

LEMMA NotBegunStep ==
  ASSUME GitTypes, [Next]_vars
  PROVE  NotBegun'
<1>1. CASE Authorize
  <2>1. started + 1 \in Txns /\ "prepared" \in Statuses
    BY <1>1, InProgress DEF Authorize, Txns, Statuses, Unfinished
  <2>2. \A t \in Txns \ {started + 1} : journal'[t] = journal[t]
    BY <1>1, <2>1, StatusSet DEF Authorize, GitTypes
  <2>3. \A t \in Txns : t > started + 1 => t > started /\ t # started + 1
    BY InProgress DEF Txns
  <2> QED BY <1>1, <2>2, <2>3 DEF Authorize, GitTypes, NotBegun
<1>2. CASE Capture
  <2>1. current \in Txns /\ ~(current > started)
    BY <1>2, InProgress DEF Capture, Resting
  <2>2. \A t \in Txns \ {current} : journal'[t] = journal[t] /\ receipt'[t] = receipt[t]
    BY <1>2, <2>1, Captured DEF Capture, GitTypes, WorkTyped
  <2> QED BY <1>2, <2>1, <2>2 DEF Capture, GitTypes, NotBegun
<1>3. CASE Seal
  <2>1. current \in Txns /\ ~(current > started)
    BY <1>3, InProgress DEF Seal, Resting
  <2>2. "applying" \in Statuses
    BY DEF Statuses, Unfinished
  <2>3. \A t \in Txns \ {current} : journal'[t] = journal[t] /\ receipt'[t] = receipt[t]
    BY <1>3, <2>1, <2>2, StatusSet DEF Seal, GitTypes
  <2> QED BY <1>3, <2>1, <2>3 DEF Seal, GitTypes, NotBegun
<1>4. CASE WriteCommitted
  <2>1. current \in Txns /\ ~(current > started)
    BY <1>4, InProgress DEF WriteCommitted, Resting
  <2>2. "committed" \in Statuses
    BY DEF Statuses, Terminal
  <2>3. \A t \in Txns \ {current} : journal'[t] = journal[t] /\ receipt'[t] = receipt[t]
    BY <1>4, <2>1, <2>2, StatusSet DEF WriteCommitted, GitTypes
  <2> QED BY <1>4, <2>1, <2>3 DEF WriteCommitted, GitTypes, NotBegun
<1>5. CASE WriteReceipt
  <2>1. current \in Txns /\ ~(current > started)
    BY <1>5, InProgress DEF WriteReceipt, Resting
  <2>2. \A t \in Txns \ {current} : journal'[t] = journal[t] /\ receipt'[t] = receipt[t]
    BY <1>5, <2>1 DEF WriteReceipt
  <2> QED BY <1>5, <2>1, <2>2 DEF WriteReceipt, GitTypes, NotBegun
<1>6. CASE Finish
  <2>1. current \in Txns /\ ~(current > started)
    BY <1>6, InProgress DEF Finish, Resting
  <2>2. \A t \in Txns \ {current} : journal'[t] = journal[t] /\ receipt'[t] = receipt[t]
    BY <1>6, <2>1, RootRemoved DEF Finish, GitTypes
  <2> QED BY <1>6, <2>1, <2>2 DEF Finish, GitTypes, NotBegun
<1>7. CASE CheckpointRestored
  <2>1. current \in Txns /\ ~(current > started)
    BY <1>7, InProgress DEF CheckpointRestored, Resting
  <2>2. memory \in Statuses
    BY DEF GitTypes, WorkTyped
  <2>3. \A t \in Txns \ {current} : journal'[t] = journal[t] /\ receipt'[t] = receipt[t]
    BY <1>7, <2>1, <2>2, StatusSet DEF CheckpointRestored, GitTypes
  <2> QED BY <1>7, <2>1, <2>3 DEF CheckpointRestored, GitTypes, NotBegun
<1>8. CASE WriteRolledBack
  <2>1. current \in Txns /\ ~(current > started)
    BY <1>8, InProgress DEF WriteRolledBack, Resting
  <2>2. "rolled_back" \in Statuses
    BY DEF Statuses, Terminal
  <2>3. \A t \in Txns \ {current} : journal'[t] = journal[t] /\ receipt'[t] = receipt[t]
    BY <1>8, <2>1, <2>2, StatusSet DEF WriteRolledBack, GitTypes
  <2> QED BY <1>8, <2>1, <2>3 DEF WriteRolledBack, GitTypes, NotBegun
<1>9. CASE WriteRollbackReceipt
  <2>1. current \in Txns /\ ~(current > started)
    BY <1>9, InProgress DEF WriteRollbackReceipt, Resting
  <2>2. \A t \in Txns \ {current} : journal'[t] = journal[t] /\ receipt'[t] = receipt[t]
    BY <1>9, <2>1 DEF WriteRollbackReceipt
  <2> QED BY <1>9, <2>1, <2>2 DEF WriteRollbackReceipt, GitTypes, NotBegun
<1>10. CASE EndRollback
  <2>1. current \in Txns /\ ~(current > started)
    BY <1>10, InProgress DEF EndRollback, Resting
  <2>2. \A t \in Txns \ {current} : journal'[t] = journal[t] /\ receipt'[t] = receipt[t]
    BY <1>10, <2>1, RootRemoved DEF EndRollback, GitTypes
  <2> QED BY <1>10, <2>1, <2>2 DEF EndRollback, GitTypes, NotBegun
<1>11. CASE RollbackFails
  <2>1. current \in Txns /\ ~(current > started)
    BY <1>11, InProgress DEF RollbackFails, Resting
  <2>2. "rollback_failed" \in Statuses
    BY DEF Statuses, Unfinished
  <2>3. \A t \in Txns \ {current} : journal'[t] = journal[t] /\ receipt'[t] = receipt[t]
    BY <1>11, <2>1, <2>2, StatusSet DEF RollbackFails, GitTypes
  <2> QED BY <1>11, <2>1, <2>3 DEF RollbackFails, GitTypes, NotBegun
<1>12. CASE FinishTerminal
  <2>1. PICK t \in queue :
           /\ RemoveRoot(t)
           /\ receipt' = [receipt EXCEPT ![t] = IF @ = "none" THEN journal[t].status ELSE @]
    BY <1>12 DEF FinishTerminal
  <2>2. t \in 1..started
    BY DEF GitTypes, WorkTyped
  <2>3. t \in Txns /\ ~(t > started)
    BY <2>2, InProgress
  <2>4. \A u \in Txns \ {t} : journal'[u] = journal[u] /\ receipt'[u] = receipt[u]
    BY <2>1, <2>3, RootRemoved DEF GitTypes
  <2> QED BY <1>12, <2>3, <2>4 DEF FinishTerminal, GitTypes, NotBegun
<1>13. CASE UNCHANGED <<journal, receipt, started>>
  BY <1>13 DEF GitTypes, NotBegun
<1> QED
  BY <1>1, <1>2, <1>3, <1>4, <1>5, <1>6, <1>7, <1>8, <1>9, <1>10, <1>11, <1>12, <1>13 DEF
    Next, Execute, Rollback, Recover, vars, evidence, locals, bounds, history, Leave,
    NativeState, NativeWrite, Preview, DropPreview, CaptureFails, Apply, ApplyFails,
    AuditSuccess, ReportFails, PutBack, Start, BeginRecovery, Defer, Started, Crash

LEMMA AtWorkStep ==
  ASSUME GitTypes, ReceiptIsFinal, [Next]_vars
  PROVE  AtWork'
<1>1. CASE Authorize
  <2>1. started + 1 \in Txns /\ started + 1 # 0 /\ started + 1 > started /\ "prepared" \in Statuses
    BY <1>1, InProgress DEF Authorize, Txns, Statuses, Unfinished
  <2>2. /\ current' = started + 1 /\ pc' = "capture" /\ memory' = "prepared"
        /\ todo' = Captures(doing'.op) /\ doing' \in Shown
        /\ UNCHANGED receipt
    BY <1>1 DEF Authorize, GitTypes, GitTyped
  <2>3. journal[current'] = NoJournal /\ receipt[current'] = "none"
    BY <2>1, <2>2 DEF GitTypes, NotBegun
  <2>4. journal'[current'].status = "prepared" /\ journal'[current'].captured = {}
    BY <1>1, <2>1, <2>2, <2>3, NoneTyped, StatusSet DEF Authorize, GitTypes
  <2> QED BY <2>1, <2>2, <2>3, <2>4 DEF AtWork, Resting, Unfinished
<1>2. CASE Capture
  <2>1. current \in Txns /\ pc = "capture" /\ doing \in Shown /\ todo \subseteq Captures(doing.op)
    BY <1>2, InProgress DEF Capture, GitTypes, AtWork, Resting, Executing, Preparing
  <2>2. PICK f \in todo :
           /\ journal' = [journal EXCEPT ![current].captured = @ \cup {f}, ![current].before[f] = git[f]]
           /\ todo' = todo \ {f}
    BY <1>2 DEF Capture
  <2>3. f \in Files
    BY DEF GitTypes, WorkTyped
  <2>4. /\ journal'[current].status = journal[current].status
        /\ journal'[current].captured = journal[current].captured \cup {f}
    BY <2>1, <2>2, <2>3, Captured DEF GitTypes
  <2>5. journal'[current].captured = Captures(doing.op) \ todo'
    BY <2>1, <2>2, <2>4 DEF GitTypes, AtWork
  <2>6. UNCHANGED <<pc, current, doing, memory, receipt>> /\ todo' \subseteq Captures(doing.op)
    BY <1>2, <2>1, <2>2 DEF Capture
  <2> QED BY <2>1, <2>4, <2>5, <2>6 DEF GitTypes, AtWork
<1>3. CASE Seal
  <2>1. current \in Txns /\ "applying" \in Statuses
    BY <1>3, InProgress DEF Seal, Resting, Statuses, Unfinished
  <2>2. journal'[current].status = "applying" /\ journal'[current].captured = journal[current].captured
    BY <1>3, <2>1, StatusSet DEF Seal, GitTypes
  <2> QED BY <1>3, <2>1, <2>2 DEF GitTypes, AtWork, Resting, Executing, Preparing, Seal,
    Unfinished
<1>4. CASE CaptureFails
  <2>1. pc' \in Resting /\ current' = 0
    BY <1>4 DEF CaptureFails, Leave, Resting
  <2> QED BY <2>1 DEF AtWork, Resting, Executing, Preparing
<1>5. CASE Apply
  BY <1>5 DEF GitTypes, AtWork, Resting, Executing, Preparing, Apply, evidence, locals,
    Wrote
<1>6. CASE ApplyFails
  BY <1>6 DEF GitTypes, AtWork, Resting, Executing, Preparing, ApplyFails, evidence,
    Unfinished
<1>7. CASE AuditSuccess
  BY <1>7 DEF GitTypes, AtWork, Resting, Executing, Preparing, AuditSuccess, locals
<1>8. CASE WriteCommitted
  <2>1. current \in Txns /\ "committed" \in Statuses
    BY <1>8, InProgress DEF WriteCommitted, Resting, Statuses, Terminal
  <2>2. journal'[current].status = "committed" /\ journal'[current].captured = journal[current].captured
    BY <1>8, <2>1, StatusSet DEF WriteCommitted, GitTypes
  <2> QED BY <1>8, <2>1, <2>2 DEF GitTypes, AtWork, Resting, Executing, Preparing,
    WriteCommitted
<1>9. CASE WriteReceipt
  <2>1. current \in Txns
    BY <1>9, InProgress DEF WriteReceipt, Resting
  <2> QED BY <1>9, <2>1 DEF GitTypes, AtWork, Resting, Executing, Preparing, WriteReceipt,
    locals, EvidenceTyped
<1>10. CASE Finish
  <2>1. pc' \in Resting /\ current' = 0
    BY <1>10 DEF Finish, Leave, Resting
  <2> QED BY <2>1 DEF AtWork, Resting, Executing, Preparing
<1>11. CASE ReportFails
  BY <1>11 DEF GitTypes, AtWork, Resting, Executing, Preparing, ReportFails, evidence
<1>12. CASE PutBack
  BY <1>12 DEF GitTypes, AtWork, PutBack, evidence
<1>13. CASE CheckpointRestored
  <2>1. current \in Txns /\ memory \in Statuses
    BY <1>13, InProgress DEF CheckpointRestored, Resting, GitTypes, WorkTyped
  <2>2. journal'[current].status = memory /\ journal'[current].captured = journal[current].captured
    BY <1>13, <2>1, StatusSet DEF CheckpointRestored, GitTypes
  <2> QED BY <1>13, <2>1, <2>2 DEF GitTypes, AtWork, Resting, Executing, Preparing,
    CheckpointRestored, locals
<1>14. CASE WriteRolledBack
  <2>1. current \in Txns /\ "rolled_back" \in Statuses
    BY <1>14, InProgress DEF WriteRolledBack, Resting, Statuses, Terminal
  <2>2. journal'[current].status = "rolled_back" /\ journal'[current].captured = journal[current].captured
    BY <1>14, <2>1, StatusSet DEF WriteRolledBack, GitTypes
  <2> QED BY <1>14, <2>1, <2>2 DEF GitTypes, AtWork, Resting, Executing, Preparing,
    WriteRolledBack
<1>15. CASE WriteRollbackReceipt
  <2>1. current \in Txns
    BY <1>15, InProgress DEF WriteRollbackReceipt, Resting
  <2> QED BY <1>15, <2>1 DEF GitTypes, AtWork, Resting, Executing, Preparing,
    WriteRollbackReceipt, locals
<1>16. CASE EndRollback
  <2>1. pc' \in Resting /\ current' = 0
    BY <1>16 DEF EndRollback, Leave, Resting
  <2> QED BY <2>1 DEF AtWork, Resting, Executing, Preparing
<1>17. CASE RollbackFails
  <2>1. pc' \in Resting /\ current' = 0
    BY <1>17 DEF RollbackFails, Leave, Resting
  <2> QED BY <2>1 DEF AtWork, Resting, Executing, Preparing
<1>18. CASE Start
  <2>1. pc' \in Resting /\ current' = 0
    BY <1>18 DEF Start, Leave, Resting
  <2> QED BY <2>1 DEF AtWork, Resting, Executing, Preparing
<1>19. CASE FinishTerminal
  <2>1. pc' \in Resting /\ current' = 0
    BY <1>19 DEF FinishTerminal, Resting, GitTypes, AtWork
  <2> QED BY <2>1 DEF AtWork, Resting, Executing, Preparing
<1>20. CASE BeginRecovery
  <2>1. /\ current' \in queue /\ journal[current'].status \in Unfinished
        /\ todo' = journal[current'].captured /\ memory' = journal[current'].status
        /\ pc' = "undo" /\ UNCHANGED <<journal, receipt>>
    BY <1>20 DEF BeginRecovery, evidence
  <2>2. current' \in Txns /\ current' # 0
    BY <2>1, InProgress DEF GitTypes, WorkTyped
  <2> QED BY <2>1, <2>2 DEF AtWork, Resting, Executing, Preparing, Unfinished,
    ReceiptIsFinal
<1>21. CASE Started
  <2>1. pc' \in Resting /\ current' = 0
    BY <1>21 DEF Started, Resting, locals, GitTypes, AtWork
  <2> QED BY <2>1 DEF AtWork, Resting, Executing, Preparing
<1>22. CASE Crash
  <2>1. pc' \in Resting /\ current' = 0
    BY <1>22 DEF Crash, Leave, Resting
  <2> QED BY <2>1 DEF AtWork, Resting, Executing, Preparing
<1>23. CASE UNCHANGED <<journal, receipt, pc, current, doing, todo, memory>>
  BY <1>23 DEF GitTypes, AtWork
<1> QED
  BY <1>1, <1>2, <1>3, <1>4, <1>5, <1>6, <1>7, <1>8, <1>9, <1>10, <1>11, <1>12, <1>13,
    <1>14, <1>15, <1>16, <1>17, <1>18, <1>19, <1>20, <1>21, <1>22, <1>23 DEF Next, Execute,
    Rollback, Recover, vars, evidence, locals, NativeState, NativeWrite, Preview,
    DropPreview, Defer

-----------------------------------------------------------------------------
(* The receipts *)

LEMMA ReceiptIsFinalStep ==
  ASSUME GitTypes, ReceiptIsFinal, [Next]_vars
  PROVE  ReceiptIsFinal'
<1>1. CASE Authorize
  <2>1. started + 1 \in Txns /\ started + 1 > started /\ started + 1 \notin 1..started /\ "prepared" \in Statuses
    BY <1>1, InProgress DEF Authorize, Txns, Statuses, Unfinished
  <2>2. current' = started + 1 /\ pc' = "capture" /\ UNCHANGED <<receipt, undone, slipped>>
    BY <1>1 DEF Authorize, history
  <2>3. receipt[current'] = "none" /\ current' \notin undone
    BY <2>1, <2>2 DEF GitTypes, NotBegun, HistoryTyped
  <2>4. /\ journal'[current'].status = "prepared"
        /\ \A t \in Txns \ {current'} : journal'[t] = journal[t]
    BY <1>1, <2>1, <2>2, StatusSet DEF Authorize, GitTypes
  <2> QED BY <2>1, <2>2, <2>3, <2>4 DEF ReceiptIsFinal
<1>2. CASE Capture
  <2>1. current \in Txns
    BY <1>2, InProgress DEF Capture, Resting
  <2>2. PICK f \in todo :
           journal' = [journal EXCEPT ![current].captured = @ \cup {f}, ![current].before[f] = git[f]]
    BY <1>2 DEF Capture
  <2>3. \A t \in Txns : journal'[t].status = journal[t].status
    BY <2>1, <2>2, Captured DEF GitTypes, WorkTyped
  <2>4. UNCHANGED <<pc, current, memory, receipt, undone, slipped>>
    BY <1>2 DEF Capture, history
  <2> QED BY <2>1, <2>3, <2>4 DEF ReceiptIsFinal
<1>3. CASE Seal
  <2>1. current \in Txns /\ "applying" \in Statuses
    BY <1>3, InProgress DEF Seal, Resting, Statuses, Unfinished
  <2>2. /\ journal'[current].status = "applying"
        /\ \A t \in Txns \ {current} : journal'[t] = journal[t]
    BY <1>3, <2>1, StatusSet DEF Seal, GitTypes
  <2> QED BY <1>3, <2>1, <2>2 DEF GitTypes, AtWork, ReceiptIsFinal, Executing, Preparing,
    Seal, history
<1>4. CASE CaptureFails
  <2>1. pc' \in Resting /\ UNCHANGED <<journal, receipt, undone, slipped>>
    BY <1>4 DEF CaptureFails, Leave, Resting, evidence
  <2> QED BY <2>1 DEF ReceiptIsFinal, Resting, Executing, Preparing
<1>5. CASE Apply
  BY <1>5 DEF ReceiptIsFinal, Executing, Preparing, Apply, evidence, history, locals, Wrote
<1>6. CASE ApplyFails
  BY <1>6 DEF GitTypes, AtWork, ReceiptIsFinal, Executing, Preparing, ApplyFails, evidence,
    history, Unfinished
<1>7. CASE AuditSuccess
  BY <1>7 DEF ReceiptIsFinal, Executing, Preparing, AuditSuccess, history, locals
<1>8. CASE WriteCommitted
  <2>1. current \in Txns /\ "committed" \in Statuses
    BY <1>8, InProgress DEF WriteCommitted, Resting, Statuses, Terminal
  <2>2. /\ journal'[current].status = "committed"
        /\ \A t \in Txns \ {current} : journal'[t] = journal[t]
    BY <1>8, <2>1, StatusSet DEF WriteCommitted, GitTypes
  <2> QED BY <1>8, <2>1, <2>2 DEF GitTypes, AtWork, ReceiptIsFinal, Executing, Preparing,
    WriteCommitted, history
<1>9. CASE WriteReceipt
  <2>1. current \in Txns
    BY <1>9, InProgress DEF WriteReceipt, Resting
  <2> QED BY <1>9, <2>1 DEF GitTypes, AtWork, ReceiptIsFinal, Executing, WriteReceipt,
    history, locals, Unfinished
<1>10. CASE Finish
  <2>1. current \in Txns
    BY <1>10, InProgress DEF Finish, Resting
  <2>2. \A t \in Txns : journal'[t] \in {NoJournal, journal[t]}
    BY <1>10, <2>1, RootRemoved DEF Finish, GitTypes
  <2>3. pc' \in Resting /\ UNCHANGED <<receipt, undone, slipped>>
    BY <1>10 DEF Finish, Leave, Resting, history
  <2> QED BY <2>2, <2>3, NoneTyped DEF ReceiptIsFinal, Resting, Executing, Preparing,
    Unfinished
<1>11. CASE ReportFails
  BY <1>11 DEF ReceiptIsFinal, Executing, Preparing, ReportFails, evidence
<1>12. CASE PutBack
  <2>1. current \in Txns /\ receipt[current] = "none"
    BY <1>12, InProgress DEF PutBack, GitTypes, AtWork, Resting
  <2> QED BY <1>12, <2>1 DEF ReceiptIsFinal, Executing, Preparing, PutBack, evidence
<1>13. CASE CheckpointRestored
  <2>1. current \in Txns /\ memory \in Statuses
    BY <1>13, InProgress DEF CheckpointRestored, Resting, GitTypes, WorkTyped
  <2>2. /\ journal'[current].status = memory
        /\ \A t \in Txns \ {current} : journal'[t] = journal[t]
    BY <1>13, <2>1, StatusSet DEF CheckpointRestored, GitTypes
  <2> QED BY <1>13, <2>1, <2>2 DEF GitTypes, AtWork, ReceiptIsFinal, Executing, Preparing,
    CheckpointRestored, history
<1>14. CASE WriteRolledBack
  <2>1. current \in Txns /\ "rolled_back" \in Statuses
    BY <1>14, InProgress DEF WriteRolledBack, Resting, Statuses, Terminal
  <2>2. /\ journal'[current].status = "rolled_back"
        /\ \A t \in Txns \ {current} : journal'[t] = journal[t]
    BY <1>14, <2>1, StatusSet DEF WriteRolledBack, GitTypes
  <2> QED BY <1>14, <2>1, <2>2 DEF GitTypes, AtWork, ReceiptIsFinal, Executing, Preparing,
    WriteRolledBack, history
<1>15. CASE WriteRollbackReceipt
  <2>1. current \in Txns
    BY <1>15, InProgress DEF WriteRollbackReceipt, Resting
  <2> QED BY <1>15, <2>1 DEF GitTypes, AtWork, ReceiptIsFinal, Executing, Preparing,
    WriteRollbackReceipt, history, Unfinished
<1>16. CASE EndRollback
  <2>1. current \in Txns
    BY <1>16, InProgress DEF EndRollback, Resting
  <2>2. \A t \in Txns : journal'[t] \in {NoJournal, journal[t]}
    BY <1>16, <2>1, RootRemoved DEF EndRollback, GitTypes
  <2>3. pc' \in Resting /\ UNCHANGED <<receipt, undone, slipped>>
    BY <1>16 DEF EndRollback, Leave, Resting, history
  <2> QED BY <2>2, <2>3, NoneTyped DEF ReceiptIsFinal, Resting, Executing, Preparing,
    Unfinished
<1>17. CASE RollbackFails
  <2>1. current \in Txns /\ "rollback_failed" \in Statuses /\ receipt[current] = "none"
    BY <1>17, InProgress DEF RollbackFails, Statuses, Unfinished, GitTypes, AtWork, Resting
  <2>2. /\ \A t \in Txns \ {current} : journal'[t] = journal[t]
        /\ journal'[current].status \in {"rollback_failed", journal[current].status}
    BY <1>17, <2>1, StatusSet DEF RollbackFails, GitTypes
  <2>3. pc' \in Resting /\ UNCHANGED <<receipt, undone, slipped>>
    BY <1>17 DEF RollbackFails, Leave, Resting
  <2> QED BY <2>1, <2>2, <2>3 DEF ReceiptIsFinal, Resting, Executing, Preparing
<1>18. CASE Start
  <2>1. pc' \in Resting /\ UNCHANGED <<journal, receipt, undone, slipped>>
    BY <1>18 DEF Start, Leave, Resting, evidence, history
  <2> QED BY <2>1 DEF ReceiptIsFinal, Resting, Executing, Preparing
<1>19. CASE FinishTerminal
  <2>1. PICK t \in queue :
           /\ journal[t].status \in Terminal /\ RemoveRoot(t)
           /\ receipt' = [receipt EXCEPT ![t] = IF @ = "none" THEN journal[t].status ELSE @]
    BY <1>19 DEF FinishTerminal
  <2>2. t \in Txns
    BY InProgress DEF GitTypes, WorkTyped
  <2>3. \A u \in Txns \ {t} : journal'[u] = journal[u] /\ receipt'[u] = receipt[u]
    BY <2>1, <2>2, RootRemoved DEF GitTypes
  <2>4. receipt'[t] \in {receipt[t], journal[t].status} /\ journal'[t] \in {NoJournal, journal[t]}
    BY <2>1, <2>2, RootRemoved DEF GitTypes
  <2>5. UNCHANGED <<pc, current, undone, slipped>> /\ pc \in Resting
    BY <1>19 DEF FinishTerminal, history, Resting
  <2> QED BY <2>1, <2>2, <2>3, <2>4, <2>5, NoneTyped DEF ReceiptIsFinal, Resting,
    Unfinished, Terminal
<1>20. CASE BeginRecovery
  BY <1>20 DEF ReceiptIsFinal, Executing, Preparing, BeginRecovery, evidence, history,
    Unfinished
<1>21. CASE Started
  <2>1. pc' \in Resting /\ UNCHANGED <<journal, receipt, undone, slipped>>
    BY <1>21 DEF Started, Resting, evidence, history
  <2> QED BY <2>1 DEF ReceiptIsFinal, Resting, Executing, Preparing
<1>22. CASE Crash
  <2>1. pc' \in Resting /\ UNCHANGED <<journal, receipt, undone, slipped>>
    BY <1>22 DEF Crash, Leave, Resting, evidence, history
  <2> QED BY <2>1 DEF ReceiptIsFinal, Resting, Executing, Preparing
<1>23. CASE UNCHANGED <<journal, receipt, pc, current, memory, undone, slipped>>
  BY <1>23 DEF ReceiptIsFinal
<1> QED
  BY <1>1, <1>2, <1>3, <1>4, <1>5, <1>6, <1>7, <1>8, <1>9, <1>10, <1>11, <1>12, <1>13,
    <1>14, <1>15, <1>16, <1>17, <1>18, <1>19, <1>20, <1>21, <1>22, <1>23 DEF Next, Execute,
    Rollback, Recover, vars, evidence, locals, history, NativeState, NativeWrite, Preview,
    DropPreview, Defer

-----------------------------------------------------------------------------
(* What was written *)

\* Who wrote a file had begun.
LEMMA AuthorsBegan ==
  ASSUME GitTypes, NEW f \in Files
  PROVE  author[f] # Outside => author[f] \in Txns /\ author[f] \in 1..started
<1>1. author[f] \in 0..started
  BY DEF GitTypes, HistoryTyped
<1> QED BY <1>1, InProgress DEF Outside

LEMMA WritesAreCapturedStep ==
  ASSUME GitTypes, WritesAreCaptured, [Next]_vars
  PROVE  WritesAreCaptured'
<1>1. CASE NativeWrite
  <2>1. \A f \in Files : author'[f] \in {author[f], Outside}
    BY <1>1 DEF NativeWrite, GitTypes, HistoryTyped
  <2>2. UNCHANGED <<journal, receipt, pc, current, todo>>
    BY <1>1 DEF NativeWrite, evidence, locals
  <2>3. pc \notin Resting => current # Outside
    BY DEF GitTypes, AtWork, Outside
  <2> QED BY <2>1, <2>2, <2>3 DEF WritesAreCaptured, Resting
<1>2. CASE Authorize
  <2>1. started + 1 \in Txns /\ started + 1 \notin 1..started /\ "prepared" \in Statuses
    BY <1>2, InProgress DEF Authorize, Txns, Statuses, Unfinished
  <2>2. pc' = "capture" /\ UNCHANGED <<receipt, author>>
    BY <1>2 DEF Authorize
  <2>3. \A t \in Txns \ {started + 1} : journal'[t] = journal[t]
    BY <1>2, <2>1, StatusSet DEF Authorize, GitTypes
  <2> QED BY <2>1, <2>2, <2>3, AuthorsBegan DEF WritesAreCaptured
<1>3. CASE Capture
  <2>1. current \in Txns
    BY <1>3, InProgress DEF Capture, Resting
  <2>2. PICK f \in todo :
           journal' = [journal EXCEPT ![current].captured = @ \cup {f}, ![current].before[f] = git[f]]
    BY <1>3 DEF Capture
  <2>3. f \in Files
    BY DEF GitTypes, WorkTyped
  <2>4. /\ journal'[current].status = journal[current].status
        /\ journal'[current].captured = journal[current].captured \cup {f}
        /\ \A t \in Txns \ {current} : journal'[t] = journal[t]
    BY <2>1, <2>2, <2>3, Captured DEF GitTypes
  <2>5. pc' = "capture" /\ UNCHANGED <<receipt, author>>
    BY <1>3 DEF Capture
  <2> QED BY <2>4, <2>5, AuthorsBegan DEF WritesAreCaptured
<1>4. CASE Seal
  <2>1. current \in Txns /\ "applying" \in Statuses /\ journal[current].status # "none"
    BY <1>4, InProgress DEF Seal, Resting, Statuses, Unfinished, GitTypes, AtWork
  <2>2. /\ journal'[current].status = "applying" /\ journal'[current].captured = journal[current].captured
        /\ \A t \in Txns \ {current} : journal'[t] = journal[t]
    BY <1>4, <2>1, StatusSet DEF Seal, GitTypes
  <2> QED BY <1>4, <2>1, <2>2, AuthorsBegan DEF WritesAreCaptured, Seal
<1>5. CASE CaptureFails
  <2>1. pc' \in Resting /\ UNCHANGED <<journal, receipt, author>>
    BY <1>5 DEF CaptureFails, Leave, Resting, evidence
  <2> QED BY <2>1 DEF WritesAreCaptured, Resting
<1>6. CASE Apply
  <2>1. current \in Txns /\ current # Outside
    BY <1>6, InProgress DEF Apply, Resting, Outside
  <2>2. /\ journal[current].captured = Captures(doing.op)
        /\ "rolled_back" \notin {receipt[current], journal[current].status}
    BY <1>6 DEF Apply, GitTypes, AtWork, Executing, Preparing, Unfinished
  <2>3. PICK f \in Captures(doing.op) : author' = [author EXCEPT ![f] = current]
    BY <1>6 DEF Apply, Wrote, Captures
  <2>4. \A g \in Files : author'[g] = author[g] \/ (g = f /\ author'[g] = current)
    BY <2>3
  <2>5. pc' = "installed" /\ UNCHANGED <<journal, receipt, current>>
    BY <1>6 DEF Apply, Wrote, evidence, locals
  <2> QED BY <2>1, <2>2, <2>3, <2>4, <2>5 DEF WritesAreCaptured
<1>7. CASE ApplyFails
  <2>1. /\ current # Outside /\ journal[current].status # "none"
        /\ todo' = journal[current].captured
        /\ pc' = "undo" /\ UNCHANGED <<journal, receipt, author, current>>
    BY <1>7 DEF ApplyFails, evidence, GitTypes, AtWork, Resting, Outside
  <2> QED BY <2>1 DEF WritesAreCaptured
<1>8. CASE AuditSuccess
  BY <1>8 DEF WritesAreCaptured, AuditSuccess
<1>9. CASE WriteCommitted
  <2>1. current \in Txns /\ "committed" \in Statuses /\ journal[current].status # "none"
    BY <1>9, InProgress DEF WriteCommitted, Resting, Statuses, Terminal, GitTypes, AtWork
  <2>2. /\ journal'[current].status = "committed" /\ journal'[current].captured = journal[current].captured
        /\ \A t \in Txns \ {current} : journal'[t] = journal[t]
    BY <1>9, <2>1, StatusSet DEF WriteCommitted, GitTypes
  <2> QED BY <1>9, <2>1, <2>2, AuthorsBegan DEF WritesAreCaptured, WriteCommitted
<1>10. CASE WriteReceipt
  <2>1. current \in Txns
    BY <1>10, InProgress DEF WriteReceipt, Resting
  <2> QED BY <1>10, <2>1 DEF WritesAreCaptured, WriteReceipt
<1>11. CASE Finish
  <2>1. current \in Txns
    BY <1>11, InProgress DEF Finish, Resting
  <2>2. \A t \in Txns : journal'[t] \in {NoJournal, journal[t]}
    BY <1>11, <2>1, RootRemoved DEF Finish, GitTypes
  <2>3. pc' \in Resting /\ UNCHANGED <<receipt, author>>
    BY <1>11 DEF Finish, Leave, Resting
  <2> QED BY <2>2, <2>3, AuthorsBegan, NoneTyped DEF WritesAreCaptured, Resting
<1>12. CASE ReportFails
  <2>1. /\ current # Outside /\ journal[current].status # "none"
        /\ todo' = journal[current].captured
        /\ pc' = "undo" /\ UNCHANGED <<journal, receipt, author, current>>
    BY <1>12 DEF ReportFails, evidence, GitTypes, AtWork, Resting, Outside
  <2> QED BY <2>1 DEF WritesAreCaptured
<1>13. CASE PutBack
  <2>1. current # Outside
    BY <1>13, InProgress DEF PutBack, Resting, Outside
  <2>2. PICK f \in todo :
           /\ author' = [author EXCEPT ![f] = IF git'[f] = git[f] /\ @ # current THEN @ ELSE Outside]
           /\ todo' = todo \ {f}
    BY <1>13 DEF PutBack
  <2>3. /\ \A g \in Files : author'[g] \in {author[g], Outside}
        /\ author'[f] # current
    BY <2>1, <2>2 DEF GitTypes, HistoryTyped, WorkTyped
  <2>4. pc = "undo" /\ UNCHANGED <<journal, receipt, pc, current>>
    BY <1>13 DEF PutBack, evidence
  <2> QED BY <2>1, <2>2, <2>3, <2>4 DEF WritesAreCaptured
<1>14. CASE CheckpointRestored
  <2>1. current \in Txns /\ memory \in Statuses /\ journal[current].status # "none"
    BY <1>14, InProgress DEF CheckpointRestored, Resting, GitTypes, WorkTyped, AtWork
  <2>2. /\ journal'[current].status = memory /\ journal'[current].captured = journal[current].captured
        /\ \A t \in Txns \ {current} : journal'[t] = journal[t]
    BY <1>14, <2>1, StatusSet DEF CheckpointRestored, GitTypes
  <2> QED BY <1>14, <2>1, <2>2, AuthorsBegan DEF WritesAreCaptured, CheckpointRestored,
    locals
<1>15. CASE WriteRolledBack
  <2>1. current \in Txns /\ "rolled_back" \in Statuses /\ journal[current].status # "none"
    BY <1>15, InProgress DEF WriteRolledBack, Resting, Statuses, Terminal, GitTypes, AtWork
  <2>2. /\ journal'[current].status = "rolled_back" /\ journal'[current].captured = journal[current].captured
        /\ \A t \in Txns \ {current} : journal'[t] = journal[t]
    BY <1>15, <2>1, StatusSet DEF WriteRolledBack, GitTypes
  <2> QED BY <1>15, <2>1, <2>2, AuthorsBegan DEF WritesAreCaptured, WriteRolledBack
<1>16. CASE WriteRollbackReceipt
  <2>1. current \in Txns
    BY <1>16, InProgress DEF WriteRollbackReceipt, Resting
  <2> QED BY <1>16, <2>1 DEF WritesAreCaptured, WriteRollbackReceipt, locals
<1>17. CASE EndRollback
  <2>1. current \in Txns
    BY <1>17, InProgress DEF EndRollback, Resting
  <2>2. \A t \in Txns : journal'[t] \in {NoJournal, journal[t]}
    BY <1>17, <2>1, RootRemoved DEF EndRollback, GitTypes
  <2>3. pc' \in Resting /\ UNCHANGED <<receipt, author>>
    BY <1>17 DEF EndRollback, Leave, Resting
  <2> QED BY <2>2, <2>3, AuthorsBegan, NoneTyped DEF WritesAreCaptured, Resting
<1>18. CASE RollbackFails
  <2>1. current \in Txns /\ "rollback_failed" \in Statuses /\ journal[current].status # "none"
    BY <1>18, InProgress DEF RollbackFails, Statuses, Unfinished, GitTypes, AtWork, Resting
  <2>2. /\ \A t \in Txns \ {current} : journal'[t] = journal[t]
        /\ journal'[current].status \in {"rollback_failed", journal[current].status}
        /\ journal'[current].captured = journal[current].captured
    BY <1>18, <2>1, StatusSet DEF RollbackFails, GitTypes
  <2>3. pc' \in Resting /\ UNCHANGED <<receipt, author>>
    BY <1>18 DEF RollbackFails, Leave, Resting
  <2> QED BY <2>1, <2>2, <2>3, AuthorsBegan DEF WritesAreCaptured, Resting
<1>19. CASE Start
  <2>1. pc' \in Resting /\ UNCHANGED <<journal, receipt, author>>
    BY <1>19 DEF Start, Leave, Resting, evidence
  <2> QED BY <2>1 DEF WritesAreCaptured, Resting
<1>20. CASE FinishTerminal
  <2>1. PICK t \in queue :
           /\ RemoveRoot(t)
           /\ receipt' = [receipt EXCEPT ![t] = IF @ = "none" THEN journal[t].status ELSE @]
    BY <1>20 DEF FinishTerminal
  <2>2. t \in Txns
    BY InProgress DEF GitTypes, WorkTyped
  <2>3. \A u \in Txns \ {t} : journal'[u] = journal[u] /\ receipt'[u] = receipt[u]
    BY <2>1, <2>2, RootRemoved DEF GitTypes
  <2>4. receipt'[t] \in {receipt[t], journal[t].status} /\ journal'[t] \in {NoJournal, journal[t]}
    BY <2>1, <2>2, RootRemoved DEF GitTypes
  <2>5. UNCHANGED <<pc, author>> /\ pc \in Resting
    BY <1>20 DEF FinishTerminal, Resting
  <2> QED BY <2>2, <2>3, <2>4, <2>5, NoneTyped, AuthorsBegan DEF WritesAreCaptured, Resting
<1>21. CASE BeginRecovery
  <2>1. /\ current' \in queue /\ journal[current'].status # "none"
        /\ todo' = journal[current'].captured
        /\ pc' = "undo" /\ UNCHANGED <<journal, receipt, author>>
    BY <1>21 DEF BeginRecovery, evidence, Unfinished
  <2>2. current' # Outside
    BY <2>1 DEF GitTypes, WorkTyped, Outside
  <2> QED BY <2>1, <2>2 DEF WritesAreCaptured
<1>22. CASE Started
  <2>1. pc' \in Resting /\ UNCHANGED <<journal, receipt, author>>
    BY <1>22 DEF Started, Resting, evidence
  <2> QED BY <2>1 DEF WritesAreCaptured, Resting
<1>23. CASE Crash
  <2>1. pc' \in Resting /\ UNCHANGED <<journal, receipt, author>>
    BY <1>23 DEF Crash, Leave, Resting, evidence
  <2> QED BY <2>1 DEF WritesAreCaptured, Resting
<1>24. CASE UNCHANGED <<journal, receipt, pc, current, todo, author>>
  BY <1>24 DEF WritesAreCaptured
<1> QED
  BY <1>1, <1>2, <1>3, <1>4, <1>5, <1>6, <1>7, <1>8, <1>9, <1>10, <1>11, <1>12, <1>13,
    <1>14, <1>15, <1>16, <1>17, <1>18, <1>19, <1>20, <1>21, <1>22, <1>23, <1>24 DEF Next,
    Execute, Rollback, Recover, vars, evidence, locals, NativeState, Preview, DropPreview,
    Defer

-----------------------------------------------------------------------------
(* One transaction at a time *)

LEMMA OpenTyped ==
  ASSUME GitTypes
  PROVE  \A t \in Open : t \in Txns /\ journal[t].captured \subseteq Files
BY InProgress DEF Open, Preparing, Resting

\* What another transaction made stands through a step that opens none, and in which a
\* file that changes is the owner's, or is written by the only one that is open.
LEMMA AloneKept ==
  ASSUME GitTypes, OneOpen, CapturedStands, Open' \subseteq Open,
         \A t \in Open' :
           journal'[t].captured = journal[t].captured /\ journal'[t].before = journal[t].before,
         \A f \in Files :
           \/ git'[f] = git[f] /\ author'[f] = author[f]
           \/ author'[f] = Outside \/ Open' \subseteq {author'[f]},
         pc' = "idle" => Open' = {},
         pc' = "recover" => Open' \subseteq queue',
         pc' \notin Resting => Open' \subseteq {current'}
  PROVE  OneOpen' /\ CapturedStands'
<1>1. OneOpen'
  BY DEF OneOpen
<1>2. ASSUME NEW t \in Open', NEW f \in journal'[t].captured, author'[f] \notin {Outside, t}
      PROVE  git'[f] = journal'[t].before[f]
  <2>1. t \in Open /\ f \in journal[t].captured /\ f \in Files
    BY OpenTyped
  <2>2. git'[f] = git[f] /\ author'[f] = author[f]
    BY <1>2, <2>1
  <2> QED BY <1>2, <2>1, <2>2 DEF CapturedStands
<1> QED BY <1>1, <1>2 DEF CapturedStands

LEMMA AloneStep ==
  ASSUME GitTypes, Alone, [Next]_vars
  PROVE  Alone'
<1> SUFFICES ASSUME ~left' PROVE OneOpen' /\ CapturedStands'
  BY DEF Alone
<1>0. ~left
  <2>1. CASE CaptureFails  BY <2>1 DEF CaptureFails
  <2>2. CASE RollbackFails BY <2>2 DEF RollbackFails
  <2>3. CASE Defer         BY <2>3 DEF Defer
  <2>4. CASE UNCHANGED left
    BY <2>4
  <2> QED
    BY <2>1, <2>2, <2>3, <2>4 DEF Next, Execute, Rollback, Recover, vars, history,
      NativeState, NativeWrite, Preview, DropPreview, Authorize, Capture, Seal, Apply,
      ApplyFails, AuditSuccess, WriteCommitted, WriteReceipt, Finish, ReportFails, PutBack,
      CheckpointRestored, WriteRolledBack, WriteRollbackReceipt, EndRollback, Start,
      FinishTerminal, BeginRecovery, Started, Crash
<1> OneOpen /\ CapturedStands
  BY <1>0 DEF Alone
<1>1. CASE NativeState
  <2>1. Open' = Open /\ UNCHANGED <<git, journal, pc, current, queue, author>>
    BY <1>1 DEF NativeState, evidence, locals, Open
  <2> QED BY <2>1 DEF OneOpen, CapturedStands
<1>2. CASE NativeWrite
  <2>1. \A f \in Files : (git'[f] = git[f] /\ author'[f] = author[f]) \/ author'[f] = Outside
    BY <1>2 DEF NativeWrite, GitTypes, GitTyped, HistoryTyped
  <2>2. Open' = Open /\ UNCHANGED <<journal, pc, current, queue>>
    BY <1>2 DEF NativeWrite, evidence, locals, Open
  <2> QED BY <2>1, <2>2, AloneKept DEF OneOpen
<1>3. CASE Authorize
  <2>1. started + 1 \in Txns /\ started + 1 > started /\ "prepared" \in Statuses
    BY <1>3, InProgress DEF Authorize, Txns, Statuses, Unfinished
  <2>2. current' = started + 1 /\ pc' = "capture" /\ Open = {}
    BY <1>3 DEF Authorize, OneOpen
  <2>3. /\ journal[current'].captured = {}
        /\ journal'[current'].captured = journal[current'].captured
        /\ \A t \in Txns \ {current'} : journal'[t] = journal[t]
    BY <1>3, <2>1, <2>2, NoneTyped, StatusSet DEF Authorize, GitTypes, NotBegun
  <2>4. Open' \subseteq {current'}
    BY <2>1, <2>2, <2>3 DEF Open
  <2> QED BY <2>2, <2>3, <2>4 DEF OneOpen, CapturedStands
<1>4. CASE Capture
  <2>1. current \in Txns
    BY <1>4, InProgress DEF Capture, Resting
  <2>2. PICK f \in todo :
           journal' = [journal EXCEPT ![current].captured = @ \cup {f}, ![current].before[f] = git[f]]
    BY <1>4 DEF Capture
  <2>3. f \in Files
    BY DEF GitTypes, WorkTyped
  <2>4. /\ journal'[current].captured = journal[current].captured \cup {f}
        /\ journal'[current].before[f] = git[f]
        /\ \A g \in Files \ {f} : journal'[current].before[g] = journal[current].before[g]
    BY <2>1, <2>2, <2>3, Captured, ZenonT(30) DEF GitTypes
  <2>5. pc = "capture" /\ UNCHANGED <<pc, current, git, author>>
    BY <1>4 DEF Capture
  <2>6. current \in Open /\ Open \subseteq {current} /\ Open' = {current}
    <3>1. \A t \in Txns \ {current} : journal'[t] = journal[t]
      BY <2>1, <2>2, <2>3, Captured DEF GitTypes
    <3> QED BY <2>1, <2>5, <3>1 DEF OneOpen, Open, Preparing
  <2>7. \A g \in journal[current].captured : g \in Files
    BY <2>1, InProgress
  <2> QED BY <2>3, <2>4, <2>5, <2>6, <2>7 DEF OneOpen, CapturedStands
<1>5. CASE Seal
  <2>1. current \in Txns /\ "applying" \in Statuses
    BY <1>5, InProgress DEF Seal, Resting, Statuses, Unfinished
  <2>2. \A t \in Txns \ {current} : journal'[t] = journal[t]
    BY <1>5, <2>1, StatusSet DEF Seal, GitTypes
  <2>3. \A t \in Txns : journal'[t].captured = journal[t].captured /\ journal'[t].before = journal[t].before
    BY <1>5, <2>1, StatusSet DEF Seal, GitTypes
  <2>4. pc \notin Resting /\ pc' \notin Resting /\ current \in Open /\ UNCHANGED <<git, current, author>>
    BY <1>5 DEF Seal, Resting, Preparing, Open
  <2>5. Open' \subseteq Open
    BY <1>5, <2>1, <2>2, <2>4 DEF Open
  <2> QED BY <2>3, <2>4, <2>5, AloneKept, OpenTyped DEF OneOpen, Resting
<1>6. CASE Apply
  <2>1. pc = "apply" /\ pc' = "installed" /\ UNCHANGED <<journal, current>>
    BY <1>6 DEF Apply, Wrote, evidence, locals
  <2>2. \A f \in Files : (git'[f] = git[f] /\ author'[f] = author[f]) \/ author'[f] = current
    BY <1>6 DEF Apply, Wrote, GitTypes, GitTyped, HistoryTyped
  <2>3. Open' = Open /\ Open \subseteq {current}
    BY <2>1 DEF Open, OneOpen, Preparing
  <2> QED BY <2>1, <2>2, <2>3, AloneKept
<1>7. CASE ApplyFails
  <2>1. pc \notin Resting /\ pc' \notin Resting /\ UNCHANGED <<git, journal, current, author>>
    BY <1>7 DEF ApplyFails, Resting, evidence
  <2>2. Open' \subseteq Open
    BY <1>7, <2>1 DEF ApplyFails, Open, Preparing
  <2> QED BY <2>1, <2>2, AloneKept DEF OneOpen, Resting
<1>8. CASE AuditSuccess
  <2>1. pc \notin Resting /\ pc' \notin Resting /\ UNCHANGED <<git, journal, current, author>>
    BY <1>8 DEF AuditSuccess, Resting, locals
  <2>2. Open' \subseteq Open
    BY <1>8, <2>1 DEF AuditSuccess, Open, Preparing
  <2> QED BY <2>1, <2>2, AloneKept DEF OneOpen, Resting
<1>9. CASE WriteCommitted
  <2>1. current \in Txns /\ "committed" \in Statuses
    BY <1>9, InProgress DEF WriteCommitted, Resting, Statuses, Terminal
  <2>2. \A t \in Txns \ {current} : journal'[t] = journal[t]
    BY <1>9, <2>1, StatusSet DEF WriteCommitted, GitTypes
  <2>3. \A t \in Txns : journal'[t].captured = journal[t].captured /\ journal'[t].before = journal[t].before
    BY <1>9, <2>1, StatusSet DEF WriteCommitted, GitTypes
  <2>4. pc \notin Resting /\ pc' \notin Resting /\ current \in Open /\ UNCHANGED <<git, current, author>>
    BY <1>9 DEF WriteCommitted, Resting, Preparing, Open
  <2>5. Open' \subseteq Open
    BY <1>9, <2>1, <2>2, <2>4 DEF Open
  <2> QED BY <2>3, <2>4, <2>5, AloneKept, OpenTyped DEF OneOpen, Resting
<1>10. CASE WriteReceipt
  <2>1. pc \notin Resting /\ pc' \notin Resting /\ UNCHANGED <<git, journal, current, author>>
    BY <1>10 DEF WriteReceipt, Resting, locals
  <2>2. Open' \subseteq Open
    BY <1>10, <2>1 DEF WriteReceipt, Open
  <2> QED BY <2>1, <2>2, AloneKept DEF OneOpen, Resting
<1>11. CASE Finish
  <2>1. current \in Txns /\ journal[current].status \notin Unfinished
    BY <1>11, InProgress DEF Finish, Resting, Unfinished, GitTypes, AtWork
  <2>2. pc \notin Resting /\ pc' \in Resting
    BY <1>11 DEF Finish, Leave, Resting
  <2>3. \A t \in Txns : journal'[t] \in {NoJournal, journal[t]}
    BY <1>11, <2>1, RootRemoved DEF Finish, GitTypes
  <2>4. Open' = {}
    BY <2>1, <2>2, <2>3, NoneTyped DEF OneOpen, Open, Unfinished, Resting, Preparing
  <2> QED BY <2>4 DEF OneOpen, CapturedStands
<1>12. CASE ReportFails
  <2>1. pc \notin Resting /\ pc' \notin Resting /\ UNCHANGED <<git, journal, current, author>>
    BY <1>12 DEF ReportFails, Resting, evidence
  <2>2. Open' \subseteq Open
    BY <1>12, <2>1 DEF ReportFails, Open, Preparing
  <2> QED BY <2>1, <2>2, AloneKept DEF OneOpen, Resting
<1>13. CASE PutBack
  <2>1. \A f \in Files : (git'[f] = git[f] /\ author'[f] = author[f]) \/ author'[f] = Outside
    BY <1>13 DEF PutBack, GitTypes, HistoryTyped
  <2>2. pc = "undo" /\ Open' = Open /\ UNCHANGED <<journal, pc, current>>
    BY <1>13 DEF PutBack, evidence, Open
  <2> QED BY <2>1, <2>2, AloneKept DEF OneOpen
<1>14. CASE CheckpointRestored
  <2>1. current \in Txns /\ memory \in Statuses
    BY <1>14, InProgress DEF CheckpointRestored, Resting, GitTypes, WorkTyped
  <2>2. \A t \in Txns \ {current} : journal'[t] = journal[t]
    BY <1>14, <2>1, StatusSet DEF CheckpointRestored, GitTypes
  <2>3. \A t \in Txns : journal'[t].captured = journal[t].captured /\ journal'[t].before = journal[t].before
    BY <1>14, <2>1, StatusSet DEF CheckpointRestored, GitTypes
  <2>4. pc \notin Resting /\ pc' \notin Resting /\ current \in Open /\ UNCHANGED <<git, current, author>>
    BY <1>14 DEF CheckpointRestored, Resting, Open, locals
  <2>5. Open' \subseteq Open
    BY <1>14, <2>1, <2>2, <2>4 DEF Open
  <2> QED BY <2>3, <2>4, <2>5, AloneKept, OpenTyped DEF OneOpen, Resting
<1>15. CASE WriteRolledBack
  <2>1. current \in Txns /\ "rolled_back" \in Statuses
    BY <1>15, InProgress DEF WriteRolledBack, Resting, Statuses, Terminal
  <2>2. /\ journal'[current].status = "rolled_back"
        /\ \A t \in Txns \ {current} : journal'[t] = journal[t]
    BY <1>15, <2>1, StatusSet DEF WriteRolledBack, GitTypes
  <2>3. pc = "restored" /\ pc' = "told" /\ UNCHANGED <<git, current, author>>
    BY <1>15 DEF WriteRolledBack
  <2>4. Open' = {}
    BY <2>2, <2>3 DEF OneOpen, Open, Unfinished, Resting, Preparing
  <2> QED BY <2>3, <2>4 DEF OneOpen, CapturedStands
<1>16. CASE WriteRollbackReceipt
  <2>1. pc \notin Resting /\ pc' \notin Resting /\ UNCHANGED <<git, journal, current, author>>
    BY <1>16 DEF WriteRollbackReceipt, Resting, locals
  <2>2. Open' \subseteq Open
    BY <1>16, <2>1 DEF WriteRollbackReceipt, Open, Preparing
  <2> QED BY <2>1, <2>2, AloneKept DEF OneOpen, Resting
<1>17. CASE EndRollback
  <2>1. current \in Txns /\ journal[current].status \notin Unfinished
    BY <1>17, InProgress DEF EndRollback, Resting, Unfinished, GitTypes, AtWork
  <2>2. pc \notin Resting /\ pc' \in Resting
    BY <1>17 DEF EndRollback, Leave, Resting
  <2>3. \A t \in Txns : journal'[t] \in {NoJournal, journal[t]}
    BY <1>17, <2>1, RootRemoved DEF EndRollback, GitTypes
  <2>4. Open' = {}
    BY <2>1, <2>2, <2>3, NoneTyped DEF OneOpen, Open, Unfinished, Resting, Preparing
  <2> QED BY <2>4 DEF OneOpen, CapturedStands
<1>18. CASE Start
  <2>1. /\ pc' = "recover" /\ queue' = {t \in Txns : journal[t].status # "none"}
        /\ UNCHANGED <<git, journal, author>>
    BY <1>18 DEF Start, Leave, evidence
  <2>2. Open' = {t \in Txns : journal[t].status \in Unfinished} /\ Open' \subseteq Open
    BY <2>1 DEF Open, Preparing
  <2>3. Open' \subseteq queue'
    BY <2>1, <2>2 DEF Unfinished
  <2> QED BY <2>1, <2>2, <2>3, AloneKept DEF Resting
<1>19. CASE FinishTerminal
  <2>1. PICK t \in queue :
           journal[t].status \in Terminal /\ RemoveRoot(t) /\ queue' = queue \ {t}
    BY <1>19 DEF FinishTerminal
  <2>2. t \in Txns
    BY InProgress DEF GitTypes, WorkTyped
  <2>3. /\ \A u \in Txns \ {t} : journal'[u] = journal[u]
        /\ journal'[t] \in {NoJournal, journal[t]}
    BY <2>1, <2>2, RootRemoved DEF GitTypes
  <2>4. pc = "recover" /\ UNCHANGED <<pc, git, author>>
    BY <1>19 DEF FinishTerminal
  <2>5. Open' = {u \in Txns : journal'[u].status \in Unfinished} /\ t \notin Open'
    BY <2>1, <2>3, <2>4, NoneTyped DEF Open, Preparing, Unfinished, Terminal
  <2>6. Open' \subseteq Open /\ Open' \subseteq Txns \ {t}
    BY <2>3, <2>5 DEF Open
  <2> QED BY <2>1, <2>3, <2>4, <2>5, <2>6, AloneKept DEF OneOpen, Resting
<1>20. CASE BeginRecovery
  <2>1. /\ pc = "recover" /\ current' \in queue /\ journal[current'].status \in Unfinished
        /\ pc' = "undo" /\ UNCHANGED <<git, journal, author>>
    BY <1>20 DEF BeginRecovery, evidence
  <2>2. current' \in Txns
    BY <2>1, InProgress DEF GitTypes, WorkTyped
  <2>3. Open' = Open /\ current' \in Open
    BY <2>1, <2>2 DEF Open, Preparing
  <2> QED BY <2>1, <2>3, AloneKept DEF OneOpen
<1>21. CASE Started
  <2>1. /\ pc = "recover" /\ queue = {} /\ pc' = "idle" /\ UNCHANGED <<git, journal, author>>
    BY <1>21 DEF Started, evidence
  <2>2. Open' = Open /\ Open = {}
    BY <2>1 DEF Open, OneOpen, Preparing
  <2> QED BY <2>1, <2>2 DEF OneOpen, CapturedStands
<1>22. CASE Crash
  <2>1. pc' = "down" /\ UNCHANGED <<git, journal, author>>
    BY <1>22 DEF Crash, Leave, evidence
  <2>2. Open' \subseteq Open
    BY <2>1 DEF Open, Preparing
  <2> QED BY <2>1, <2>2, AloneKept DEF Resting
<1>23. CASE UNCHANGED <<git, journal, pc, current, queue, author>>
  BY <1>23 DEF OneOpen, CapturedStands, Open
<1> QED
  BY <1>1, <1>2, <1>3, <1>4, <1>5, <1>6, <1>7, <1>8, <1>9, <1>10, <1>11, <1>12, <1>13,
    <1>14, <1>15, <1>16, <1>17, <1>18, <1>19, <1>20, <1>21, <1>22, <1>23 DEF Next, Execute,
    Rollback, Recover, vars, evidence, locals, Preview, DropPreview, CaptureFails,
    RollbackFails, Defer

-----------------------------------------------------------------------------
(* The theorems *)

LEMMA GitInvInit == Init => GitInv
<1> SUFFICES ASSUME Init PROVE GitInv
  OBVIOUS
<1>1. {0, 1} \subseteq Versions /\ 1 \in 1..MaxVersions
  BY Parameters DEF Versions
<1>2. GitTyped
  BY <1>1 DEF Init, GitTyped
<1>3. EvidenceTyped
  BY NoneTyped, Parameters DEF Init, EvidenceTyped
<1>4. WorkTyped
  BY DEF Init, WorkTyped, Resting, Statuses
<1>5. HistoryTyped
  <2>1. 0 \in 0..MaxNative /\ 0 \in 0..MaxFaults /\ 0 \in 0..MaxCrashes /\ 0 \in 0..0
    BY Parameters
  <2>2. author \in [Files -> 0..started] /\ undone = {} /\ slipped = {} /\ left = FALSE
    BY <2>1 DEF Init, Outside
  <2>3. acts = 0 /\ faults = 0 /\ crashes = 0
    BY DEF Init
  <2> QED BY <2>1, <2>2, <2>3 DEF HistoryTyped
<1>6. NotBegun
  BY DEF Init, NotBegun
<1>7. AtWork
  BY DEF Init, AtWork, Resting, Executing, Preparing
<1>8. ReceiptIsFinal
  BY DEF Init, ReceiptIsFinal
<1>9. WritesAreCaptured
  BY DEF Init, WritesAreCaptured
<1>10. Open = {}
  BY DEF Init, Open, NoJournal, Unfinished, Preparing
<1>11. Alone
  BY <1>10 DEF Alone, OneOpen, CapturedStands
<1> QED BY <1>2, <1>3, <1>4, <1>5, <1>6, <1>7, <1>8, <1>9, <1>11 DEF GitInv, GitTypes

LEMMA GitInvStep == GitInv /\ [Next]_vars => GitInv'
<1> SUFFICES ASSUME GitInv, [Next]_vars PROVE GitInv'
  OBVIOUS
<1>1. GitTypes /\ ReceiptIsFinal /\ WritesAreCaptured /\ Alone
  BY DEF GitInv
<1>2. GitTypes'
  BY <1>1, GitStep, EvidenceStep, WorkStep, HistoryStep, NotBegunStep, AtWorkStep DEF
    GitTypes
<1>3. ReceiptIsFinal' /\ WritesAreCaptured' /\ Alone'
  BY <1>1, ReceiptIsFinalStep, WritesAreCapturedStep, AloneStep
<1> QED BY <1>2, <1>3 DEF GitInv

\* Whatever the owner's Git does between two steps, and wherever the process dies or a
\* call raises: the types, the course of receipts, the captured files, and the one open
\* transaction.
THEOREM GitInvHolds == Spec => []GitInv
<1>1. Init => GitInv
  BY GitInvInit
<1>2. GitInv /\ [Next]_vars => GitInv'
  BY GitInvStep
<1> QED BY <1>1, <1>2, PTL DEF Spec

\* Every variable of the Git writes holds a value of its kind, an operation in progress
\* has a transaction whose journal is there and whose receipt is not yet written, and it
\* puts back only what that journal captured.
THEOREM GitTypesCorrect == Spec => []TypeOK
<1>1. GitInv => TypeOK
  <2> SUFFICES ASSUME GitInv PROVE TypeOK
    OBVIOUS
  <2>1. GitTypes
    BY DEF GitInv
  <2>2. GitTyped /\ EvidenceTyped
    BY <2>1 DEF GitTypes
  <2>3. pc \in {"idle", "down", "recover", "capture", "apply", "installed", "seal", "receipt",
                "finish", "undo", "restored", "told", "clear"}
    BY <2>1 DEF GitTypes, WorkTyped, Resting, Executing, Preparing, Undoing
  <2>4. doing \in [op : Operations \cup {"none"}, seen : [Files -> Versions]]
    <3>1. 0 \in Versions
      BY Parameters DEF Versions
    <3> QED BY <2>1, <3>1 DEF GitTypes, WorkTyped, Shown, NoPreview
  <2>5. undone \in SUBSET Txns /\ slipped \in SUBSET Txns
    BY <2>1, InProgress DEF GitTypes, HistoryTyped
  <2>6. WorkTyped /\ HistoryTyped /\ AtWork
    BY <2>1 DEF GitTypes
  <2> QED
    BY <2>2, <2>3, <2>4, <2>5, <2>6 DEF TypeOK, GitTyped, EvidenceTyped, WorkTyped,
      HistoryTyped, AtWork, Shown, Journals, Statuses, Resting, Executing, Preparing
<1> QED BY <1>1, GitInvHolds, PTL

\* "Exact rollback" and "verified receipts": of a write whose receipt says rolled back
\* nothing is left in Git, and one whose receipt says committed was not put back, not even
\* in part, unless the writes that end it raised; for any number of transactions, of deaths
\* and of acts of the owner's Git.
THEOREM ReceiptsAreTrue == Spec => []ReceiptsTell
<1>1. GitInv => ReceiptsTell
  <2> SUFFICES ASSUME GitInv, NEW t \in Txns
               PROVE  /\ receipt[t] = "rolled_back" => \A f \in Files : author[f] # t
                      /\ receipt[t] = "committed" /\ t \notin slipped => t \notin undone
    BY DEF ReceiptsTell
  <2>1. t # Outside
    BY DEF Txns, Outside
  <2> QED BY <2>1 DEF GitInv, ReceiptIsFinal, WritesAreCaptured
<1> QED BY <1>1, GitInvHolds, PTL

\* "Without reverting committed refs": while every journal is finished before the next
\* write begins, a rollback or a recovery only restores files over its own writes, the
\* owner's, and writes that have no receipt.
THEOREM CommittedWritesStay == Spec => CommittedWritesStand
<1>1. GitInv /\ [Next]_vars => [~left => ~Reverts]_vars
  <2> SUFFICES ASSUME GitInv, [Next]_vars, ~left, Reverts PROVE FALSE
    BY DEF vars
  <2>1. PICK f \in Files :
          /\ author[f] \in Txns /\ git'[f] # git[f] /\ receipt[author[f]] = "committed"
          /\ pc = "undo" /\ todo' # todo
    BY DEF Reverts
  <2>2. PutBack
    <3>1. UNCHANGED git \/ PutBack \/ NativeWrite \/ Apply
      BY DEF Next, Execute, Rollback, Recover, vars, NativeState, Preview, DropPreview,
        Authorize, Capture, Seal, CaptureFails, ApplyFails, AuditSuccess, WriteCommitted,
        WriteReceipt, Finish, ReportFails, CheckpointRestored, WriteRolledBack,
        WriteRollbackReceipt, EndRollback, RollbackFails, Start, FinishTerminal,
        BeginRecovery, Defer, Started, Crash
    <3> QED BY <2>1, <3>1 DEF NativeWrite, Apply, locals
  <2>3. GitTypes /\ OneOpen /\ CapturedStands
    BY DEF GitInv, Alone
  <2>4. current \in Txns /\ receipt[current] = "none" /\ current \in Open
    BY <2>1, <2>3, InProgress DEF GitTypes, AtWork, Resting, Open
  <2>5. f \in todo /\ git'[f] = journal[current].before[f]
    BY <2>1, <2>2, <2>3 DEF PutBack
  <2>6. f \in journal[current].captured
    BY <2>1, <2>3, <2>5 DEF GitTypes, AtWork
  <2>7. author[f] \notin {Outside, current}
    BY <2>1, <2>4 DEF Txns, Outside
  <2> QED BY <2>1, <2>3, <2>4, <2>5, <2>6, <2>7 DEF CapturedStands
<1> QED BY <1>1, GitInvHolds, PTL DEF Spec, CommittedWritesStand
=============================================================================
