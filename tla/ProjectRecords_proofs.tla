------------------------- MODULE ProjectRecords_proofs -------------------------
(***************************************************************************)
(* What the users of discussions, boards and releases rely on, for any     *)
(* windows, comments, cards, columns and assets, and for any number of     *)
(* requests and deaths.                                                    *)
(***************************************************************************)
EXTENDS ProjectRecords, TLAPS, FiniteSetTheorems

---------------------------------------------------------------------------
(* The inductive invariant.                                                *)

\* Every change of the discussion or its comments has a version of its own, so
\* a window that shows the current version shows the current row, and with it
\* the comments, which it loaded later.
VersionsTell ==
  /\ topic.version <= requests
  /\ topic.status = "none" => topic.version = 0 /\ \A c \in Comments : comment[c] = "none"
  /\ \A s \in Screens :
       /\ seen[s].shown.row.version <= topic.version
       /\ seen[s].shown.row.version = topic.version =>
            seen[s].shown.row = topic /\ (Loaded(s) => seen[s].shown.comment = comment)

TopicsTyped ==
  /\ topic \in Topics /\ comment \in Conversations
  /\ milestone \in {"none", "live", "deleted"}
  /\ seen \in [Screens -> [shown : [row : Topics, comment : Conversations], parts : 0..2]]

TopicsInv == TopicsTyped /\ VersionsTell

\* A published release is nobody's work in progress, and an export of it that has
\* written its manifest packs the same assets.
PublicationStands ==
  /\ release.version + (IF busy.work = "adding" THEN 1 ELSE 0) <= requests
  /\ ~Free => release.state = "draft"
  /\ busy.work = "adding" => busy.asset \in Assets
  /\ export.at = "told" /\ export.published => release.state = "published" /\ export.told = rows

ReleasesTyped ==
  /\ release \in [state : {"none", "draft", "published"}, version : 0..MaxRequests]
  /\ rows \in SUBSET Assets /\ files \in SUBSET Assets
  /\ busy \in [work : Works, asset : Assets \cup {Nothing}]
  /\ recorded \in {"no", "due", "yes"}
  /\ export \in [at : {"none", "told", "packed"}, told : SUBSET Assets,
                 packed : SUBSET Assets, published : BOOLEAN]

ReleasesInv == ReleasesTyped /\ PublicationStands /\ PublishedStays

BoardTyped ==
  /\ board \in [view : BOOLEAN, move : BOOLEAN]
  /\ card \in [Cards -> [column : Columns \cup {Nothing}, rank : Int]]

\* There is a highest rank in every column, also when the cards are many.
BoardInv ==
  /\ BoardTyped
  /\ \E b \in Int : \A k \in Cards : card[k].rank <= b

AccessTyped ==
  /\ area \in {"topics", "board", "releases"}
  /\ permitted \in BOOLEAN /\ admitted \in SUBSET {"topic", "comment", "move"}
  /\ ledger \in BOOLEAN /\ requests \in 0..MaxRequests /\ deaths \in 0..MaxDeaths

IInv == TopicsInv /\ ReleasesInv /\ BoardInv /\ AccessTyped

---------------------------------------------------------------------------
(* The discussion.                                                         *)

LEMMA RequestFacts ==
  ASSUME AccessTyped, Request
  PROVE  /\ requests \in Nat /\ requests < MaxRequests /\ requests' = requests + 1
         /\ requests' \in 0..MaxRequests /\ deaths' = deaths
BY Parameters DEF AccessTyped, Request

\* The discussion or its comments change, with a new version: what the windows
\* show is old.
LEMMA NewVersion ==
  ASSUME TopicsInv, AccessTyped, Request, UNCHANGED seen,
         topic' \in Topics, comment' \in Conversations, milestone' \in {"none", "live", "deleted"},
         topic'.version = topic.version + 1, topic'.status # "none"
  PROVE  TopicsInv'
<1>1. TopicsTyped'
  BY DEF TopicsInv, TopicsTyped
<1>2. topic.version \in Nat /\ topic'.version <= requests'
  BY RequestFacts DEF TopicsInv, TopicsTyped, VersionsTell, Topics
<1>3. ASSUME NEW s \in Screens
      PROVE  seen'[s].shown.row.version < topic'.version /\ seen'[s].shown.row.version \in Nat
  BY <1>2 DEF TopicsInv, TopicsTyped, VersionsTell, Topics
<1>4. VersionsTell'
  BY <1>2, <1>3 DEF VersionsTell
<1> QED BY <1>1, <1>4 DEF TopicsInv

\* Nothing but the number of requests changes.
LEMMA TopicsRest ==
  ASSUME TopicsInv, AccessTyped, UNCHANGED <<topic, comment, seen>>,
         milestone' \in {"none", "live", "deleted"},
         Request \/ requests' = requests
  PROVE  TopicsInv'
<1>1. topic.version \in Nat /\ topic.version <= requests'
  BY RequestFacts DEF TopicsInv, TopicsTyped, VersionsTell, Topics, AccessTyped
<1> QED BY <1>1 DEF TopicsInv, TopicsTyped, VersionsTell, Loaded

LEMMA NextVersion ==
  ASSUME TopicsInv, AccessTyped, Request
  PROVE  topic.version + 1 \in 0..MaxRequests
BY RequestFacts, Parameters DEF TopicsInv, TopicsTyped, VersionsTell, Topics

\* Loading a part: the row, or the comments that go with the row loaded before.
LEMMA LoadKeeps ==
  ASSUME TopicsInv, AccessTyped, NEW s \in Screens, Load(s)
  PROVE  TopicsInv'
<1> DEFINE parts == IF Loaded(s) THEN 1 ELSE seen[s].parts + 1
<1>1. /\ UNCHANGED <<topic, comment, milestone, requests>>
      /\ seen' = [seen EXCEPT ![s] = [shown |-> [seen[s].shown EXCEPT ![Parts[parts]] = Shown[Parts[parts]]],
                                      parts |-> parts]]
  BY DEF Load, bounds
<1>2. Len(Parts) = 2 /\ Parts[1] = "row" /\ Parts[2] = "comment"
  BY DEF Parts
<1>3. seen[s] \in [shown : [row : Topics, comment : Conversations], parts : 0..2]
  BY DEF TopicsInv, TopicsTyped
<1>4. PICK shown \in [row : Topics, comment : Conversations] : shown = seen[s].shown
  BY <1>3
<1>5. CASE parts = 1
  <2>1. [shown EXCEPT !["row"] = topic] = [row |-> topic, comment |-> shown.comment]
    <3>1. [shown EXCEPT !["row"] = topic] = [shown EXCEPT !.row = topic]
      BY Zenon
    <3> QED BY <3>1
  <2>2. Shown["row"] = topic
    BY DEF Shown
  <2>3. seen' = [seen EXCEPT ![s] = [shown |-> [row |-> topic, comment |-> shown.comment], parts |-> 1]]
    BY <1>1, <1>2, <1>4, <1>5, <2>1, <2>2
  <2> QED BY <1>1, <1>2, <1>4, <2>3, SMTT(30) DEF TopicsInv, TopicsTyped, VersionsTell, Loaded, Topics
<1>6. CASE parts = 2
  <2>1. [shown EXCEPT !["comment"] = comment] = [row |-> shown.row, comment |-> comment]
    <3>1. DOMAIN shown = {"row", "comment"}
      OBVIOUS
    <3>2. [shown EXCEPT !["comment"] = comment]
            = [x \in {"row", "comment"} |-> IF x = "comment" THEN comment ELSE shown[x]]
      BY <3>1
    <3> QED BY <3>2
  <2>2. Shown["comment"] = comment
    BY DEF Shown
  <2>3. seen' = [seen EXCEPT ![s] = [shown |-> [row |-> shown.row, comment |-> comment], parts |-> 2]]
    BY <1>1, <1>2, <1>4, <1>6, <2>1, <2>2
  <2> QED BY <1>1, <1>2, <1>4, <2>3, SMTT(30) DEF TopicsInv, TopicsTyped, VersionsTell, Loaded, Topics
<1> QED BY <1>2, <1>3, <1>5, <1>6 DEF Loaded

LEMMA DiscussingKeeps ==
  ASSUME TopicsInv, AccessTyped, Discussing
  PROVE  TopicsInv'
<1> USE DEF OnTopics
<1>1. topic \in Topics /\ comment \in Conversations /\ milestone \in {"none", "live", "deleted"}
  BY DEF TopicsInv, TopicsTyped
<1>2. ASSUME NEW actor \in Actors, NEW text \in Texts, CreateTopic(actor, text)
      PROVE  TopicsInv'
  <2>1. topic.version = 0
    BY <1>2 DEF CreateTopic, TopicsInv, VersionsTell
  <2>2. /\ topic' \in Topics /\ topic'.version = topic.version + 1 /\ topic'.status # "none"
        /\ Request /\ UNCHANGED <<comment, milestone, seen>>
    <3>1. topic' = [status |-> "there", version |-> 1, text |-> text, locked |-> FALSE,
                    milestone |-> FALSE, accepted |-> Nothing]
      BY <1>2 DEF CreateTopic, NoTopic
    <3>2. Request /\ UNCHANGED <<comment, milestone, seen>>
      BY <1>2 DEF CreateTopic
    <3>3. 1 \in 0..MaxRequests
      BY <2>1, <3>2, NextVersion
    <3> QED BY <2>1, <3>1, <3>2, <3>3 DEF Topics
  <2> QED BY <1>1, <2>2, NewVersion
<1>3. ASSUME NEW actor \in Actors, NEW c \in Comments, AddComment(actor, c)
      PROVE  TopicsInv'
  <2>1. /\ topic' \in Topics /\ topic'.version = topic.version + 1 /\ topic'.status # "none"
        /\ comment' \in Conversations
        /\ Request /\ UNCHANGED <<milestone, seen>>
    BY <1>1, <1>3, NextVersion DEF AddComment, There, Topics, Conversations
  <2> QED BY <1>1, <2>1, NewVersion
<1>4. ASSUME NEW c \in Comments, ModerateComment(c)
      PROVE  TopicsInv'
  <2>1. topic.status # "none"
    BY <1>4 DEF ModerateComment, TopicsInv, VersionsTell
  <2>2. /\ topic' \in Topics /\ topic'.version = topic.version + 1 /\ topic'.status # "none"
        /\ comment' \in Conversations
        /\ Request /\ UNCHANGED <<milestone, seen>>
    BY <1>1, <1>4, <2>1, NextVersion DEF ModerateComment, Topics, Conversations
  <2> QED BY <1>1, <2>2, NewVersion
<1>5. ASSUME NEW s \in Screens, Update(s)
      PROVE  TopicsInv'
  <2>1. PICK text \in Texts, locked \in BOOLEAN, inMilestone \in BOOLEAN,
             accepted \in Comments \cup {Nothing} : UpdateTopic(s, text, locked, inMilestone, accepted)
    BY <1>5 DEF Update
  <2>2. /\ topic' \in Topics /\ topic'.version = topic.version + 1 /\ topic'.status # "none"
        /\ Request /\ UNCHANGED <<comment, milestone, seen>>
    BY <1>1, <2>1, NextVersion DEF UpdateTopic, There, Topics
  <2> QED BY <1>1, <2>2, NewVersion
<1>6. CASE DeleteTopic
  <2>1. /\ topic' \in Topics /\ topic'.version = topic.version + 1 /\ topic'.status # "none"
        /\ Request /\ UNCHANGED <<comment, milestone, seen>>
    BY <1>1, <1>6, NextVersion DEF DeleteTopic, There, Topics
  <2> QED BY <1>1, <2>1, NewVersion
<1>7. CASE CreateMilestone
  BY <1>7, TopicsRest DEF CreateMilestone
<1>8. CASE DeleteMilestone
  <2>1. Request /\ UNCHANGED <<comment, seen>> /\ milestone' = "deleted"
    BY <1>8 DEF DeleteMilestone
  <2>2. CASE There /\ topic.milestone
    <3>1. topic' \in Topics /\ topic'.version = topic.version + 1 /\ topic'.status # "none"
      BY <1>1, <1>8, <2>1, <2>2, NextVersion DEF DeleteMilestone, There, Topics
    <3> QED BY <1>1, <2>1, <3>1, NewVersion
  <2>3. CASE ~(There /\ topic.milestone)
    BY <1>8, <2>1, <2>3, TopicsRest DEF DeleteMilestone
  <2> QED BY <2>2, <2>3
<1> QED BY <1>2, <1>3, <1>4, <1>5, <1>6, <1>7, <1>8, LoadKeeps DEF Discussing

---------------------------------------------------------------------------
(* The release.                                                            *)

\* Nothing but the number of requests changes.
LEMMA ReleasesRest ==
  ASSUME ReleasesInv, AccessTyped, UNCHANGED releaseVars, Request \/ requests' = requests
  PROVE  ReleasesInv'
<1>1. requests' >= requests /\ requests \in Nat /\ requests' \in Nat
  BY RequestFacts DEF AccessTyped
<1>2. release.version \in Nat
  BY DEF ReleasesInv, ReleasesTyped
<1> QED BY <1>1, <1>2 DEF ReleasesInv, ReleasesTyped, PublicationStands, PublishedStays, Free, releaseVars

\* A draft is changed: no release is published, and no export of one is going on.
LEMMA DraftChanges ==
  ASSUME ReleasesInv, ReleasesTyped', release.state = "draft", release'.state \in {"none", "draft"},
         release'.version + (IF busy'.work = "adding" THEN 1 ELSE 0) <= requests',
         ~Free' => release'.state = "draft", busy'.work = "adding" => busy'.asset \in Assets,
         UNCHANGED export
  PROVE  ReleasesInv'
<1>1. ~(export.at = "told" /\ export.published)
  BY DEF ReleasesInv, PublicationStands
<1> QED BY <1>1 DEF ReleasesInv, PublicationStands, PublishedStays

LEMMA ReleasingKeeps ==
  ASSUME ReleasesInv, AccessTyped, Releasing
  PROVE  ReleasesInv'
<1> USE DEF OnRelease, ByOwner, bounds
<1>1. /\ release \in [state : {"none", "draft", "published"}, version : 0..MaxRequests]
      /\ rows \in SUBSET Assets /\ files \in SUBSET Assets
      /\ busy \in [work : Works, asset : Assets \cup {Nothing}]
      /\ release.version + (IF busy.work = "adding" THEN 1 ELSE 0) <= requests
      /\ requests \in 0..MaxRequests /\ MaxRequests \in Nat
      /\ ~Free => release.state = "draft"
      /\ busy.work = "adding" => busy.asset \in Assets
  BY Parameters DEF ReleasesInv, ReleasesTyped, PublicationStands, AccessTyped
<1>2. CASE CreateRelease
  <2>1. /\ release' = [state |-> "draft", version |-> 1]
        /\ Request /\ UNCHANGED <<rows, files, busy, recorded, export>> /\ Free /\ release.state = "none"
    BY <1>2 DEF CreateRelease
  <2>2. ReleasesTyped'
    BY <1>1, <2>1, RequestFacts DEF ReleasesInv, ReleasesTyped
  <2>3. PublicationStands'
    BY <1>1, <2>1, RequestFacts DEF ReleasesInv, PublicationStands, Free
  <2>4. PublishedStays'
    BY <2>1 DEF ReleasesInv, PublishedStays
  <2> QED BY <2>2, <2>3, <2>4 DEF ReleasesInv
<1>3. CASE UpdateRelease
  <2>1. /\ release' = [release EXCEPT !.version = @ + 1] /\ Free
        /\ Request /\ UNCHANGED <<rows, files, busy, recorded, export>> /\ release.state = "draft"
    BY <1>3 DEF UpdateRelease
  <2>2. release' = [state |-> "draft", version |-> release.version + 1]
    BY <1>1, <2>1
  <2>3. ReleasesTyped'
    BY <1>1, <2>1, <2>2, RequestFacts DEF ReleasesInv, ReleasesTyped, Free
  <2> QED BY <1>1, <2>1, <2>2, <2>3, RequestFacts, DraftChanges DEF Free
<1>4. ASSUME NEW a \in Assets, WriteAsset(a) PROVE ReleasesInv'
  <2>1. /\ busy' = [work |-> "adding", asset |-> a] /\ files' = files \cup {a} /\ Free
        /\ Request /\ UNCHANGED <<release, rows, recorded, export>> /\ release.state = "draft"
    BY <1>4 DEF WriteAsset
  <2>2. ReleasesTyped'
    BY <1>1, <2>1 DEF ReleasesInv, ReleasesTyped, Works
  <2> QED BY <1>1, <2>1, <2>2, RequestFacts, DraftChanges DEF Free
<1>5. CASE CommitAsset
  <2>1. /\ release' = [release EXCEPT !.version = @ + 1] /\ busy.work = "adding"
        /\ rows' = rows \cup {busy.asset} /\ busy' = [work |-> "free", asset |-> Nothing]
        /\ UNCHANGED <<files, recorded, export, requests>> /\ release.state = "draft"
    BY <1>1, <1>5 DEF CommitAsset, Free
  <2>2. release' = [state |-> "draft", version |-> release.version + 1]
    BY <1>1, <2>1
  <2>3. ReleasesTyped'
    BY <1>1, <2>1, <2>2 DEF ReleasesInv, ReleasesTyped, Works
  <2> QED BY <1>1, <2>1, <2>2, <2>3, DraftChanges DEF Free
<1>6. CASE AssetFails
  <2>1. /\ busy.work = "adding" /\ files' = files \ {busy.asset}
        /\ busy' = [work |-> "free", asset |-> Nothing]
        /\ UNCHANGED <<release, rows, recorded, export, requests>> /\ release.state = "draft"
    BY <1>1, <1>6 DEF AssetFails, Free
  <2>2. ReleasesTyped'
    BY <1>1, <2>1 DEF ReleasesInv, ReleasesTyped, Works
  <2> QED BY <1>1, <2>1, <2>2, DraftChanges DEF Free
<1>7. CASE Publish
  <2>1. /\ release' = [state |-> "published", version |-> release.version + 1] /\ Free
        /\ Request /\ UNCHANGED <<rows, files, busy, export>> /\ release.state = "draft"
        /\ recorded' = "due" /\ rows \subseteq files
    BY <1>7 DEF Publish
  <2>2. ReleasesTyped'
    BY <1>1, <2>1, RequestFacts DEF ReleasesInv, ReleasesTyped, Free
  <2>3. PublicationStands'
    BY <1>1, <2>1, RequestFacts DEF ReleasesInv, PublicationStands, Free
  <2>4. PublishedStays'
    BY <2>1 DEF ReleasesInv, PublishedStays
  <2> QED BY <2>2, <2>3, <2>4 DEF ReleasesInv
<1>8. CASE RecordPublication
  BY <1>8 DEF RecordPublication, ReleasesInv, ReleasesTyped, PublicationStands, PublishedStays, Free
<1>9. CASE BeginCleaning
  <2>1. /\ busy' = [work |-> "cleaning", asset |-> Nothing] /\ Free
        /\ Request /\ UNCHANGED <<release, rows, files, recorded, export>> /\ release.state = "draft"
    BY <1>9 DEF BeginCleaning
  <2>2. ReleasesTyped'
    BY <1>1, <2>1 DEF ReleasesInv, ReleasesTyped, Works
  <2> QED BY <1>1, <2>1, <2>2, RequestFacts, DraftChanges DEF Free
<1>10. ASSUME NEW a \in Assets, CleanFile(a) PROVE ReleasesInv'
  <2>1. /\ busy.work = "cleaning" /\ files' = files \ {a}
        /\ UNCHANGED <<release, rows, busy, recorded, export, requests>> /\ release.state = "draft"
    BY <1>1, <1>10 DEF CleanFile, Free
  <2>2. ReleasesTyped'
    BY <1>1, <2>1 DEF ReleasesInv, ReleasesTyped
  <2> QED BY <1>1, <2>1, <2>2, DraftChanges DEF Free
<1>11. CASE CommitCleaning
  <2>1. /\ busy.work = "cleaning" /\ release' = [state |-> "none", version |-> 0] /\ rows' = {}
        /\ busy' = [work |-> "free", asset |-> Nothing]
        /\ UNCHANGED <<files, recorded, export, requests>> /\ release.state = "draft"
    BY <1>1, <1>11 DEF CommitCleaning, Free
  <2>2. ReleasesTyped'
    BY <1>1, <2>1 DEF ReleasesInv, ReleasesTyped, Works
  <2> QED BY <1>1, <2>1, <2>2, DraftChanges DEF Free
<1>12. CASE BeginExport
  <2>1. /\ export' = [at |-> "told", told |-> rows, packed |-> {}, published |-> release.state = "published"]
        /\ UNCHANGED <<release, rows, files, busy, recorded, requests>>
    BY <1>12 DEF BeginExport
  <2>2. ReleasesTyped'
    BY <1>1, <2>1 DEF ReleasesInv, ReleasesTyped
  <2> QED BY <1>1, <2>1, <2>2 DEF ReleasesInv, PublicationStands, PublishedStays, Free
<1>13. CASE PackExport
  <2>1. /\ export' = [export EXCEPT !.at = "packed", !.packed = rows] /\ export.at = "told"
        /\ UNCHANGED <<release, rows, files, busy, recorded, requests>>
    BY <1>13 DEF PackExport
  <2>2. export' = [at |-> "packed", told |-> export.told, packed |-> rows, published |-> export.published]
    BY <2>1 DEF ReleasesInv, ReleasesTyped
  <2>3. ReleasesTyped'
    BY <1>1, <2>1, <2>2 DEF ReleasesInv, ReleasesTyped
  <2> QED BY <1>1, <2>1, <2>2, <2>3 DEF ReleasesInv, PublicationStands, PublishedStays, Free
<1>14. CASE EndExport
  <2>1. export' = NoExport /\ UNCHANGED <<release, rows, files, busy, recorded, requests>>
    BY <1>14 DEF EndExport
  <2>2. ReleasesTyped'
    BY <1>1, <2>1 DEF ReleasesInv, ReleasesTyped, NoExport
  <2> QED BY <1>1, <2>1, <2>2 DEF ReleasesInv, PublicationStands, PublishedStays, Free, NoExport
<1>15. CASE Die
  <2>1. /\ UNCHANGED <<release, rows, files, export, requests>>
        /\ \/ ~Free /\ busy' = [work |-> "free", asset |-> Nothing] /\ UNCHANGED recorded
           \/ recorded' = "no" /\ UNCHANGED busy
    BY <1>15 DEF Die
  <2>2. ReleasesTyped'
    BY <1>1, <2>1 DEF ReleasesInv, ReleasesTyped, Works
  <2> QED BY <1>1, <2>1, <2>2 DEF ReleasesInv, PublicationStands, PublishedStays, Free
<1> QED BY <1>2, <1>3, <1>4, <1>5, <1>6, <1>7, <1>8, <1>9, <1>10, <1>11, <1>12, <1>13, <1>14, <1>15
        DEF Releasing

---------------------------------------------------------------------------
(* The board: where a card is placed.                                      *)

\* A set of naturals has a least element.
LEMMA LeastNatural ==
  ASSUME NEW T, T \subseteq Nat, T # {}
  PROVE  \E n \in T : \A m \in T : n <= m
<1> DEFINE U == {1..n : n \in T}
<1>1. U \subseteq FiniteSubsetsOf(Nat)
  BY FS_Interval DEF FiniteSubsetsOf
<1>2. U # {}
  OBVIOUS
<1> HIDE DEF U
<1>3. PICK u \in U : \A v \in U : <<v, u>> \notin StrictSubsetOrdering(Nat)
  BY <1>1, <1>2, FS_StrictSubsetOrderingWellFounded, WFMin
<1>4. PICK n \in T : u = 1..n
  BY DEF U
<1>5. ASSUME NEW m \in T, m < n PROVE FALSE
  <2>1. 1..m \in U
    BY DEF U
  <2>2. 1..m \subseteq 1..n /\ 1..m # 1..n
    BY <1>5
  <2>3. 1..m \in SUBSET Nat /\ 1..n \in SUBSET Nat
    OBVIOUS
  <2>4. <<1..m, 1..n>> \in StrictSubsetOrdering(Nat)
    BY <2>2, <2>3, Zenon DEF StrictSubsetOrdering
  <2> QED BY <1>3, <1>4, <2>1, <2>4
<1> QED BY <1>5

LEMMA HighestFacts ==
  ASSUME BoardInv, NEW S \in SUBSET Cards, S # {}
  PROVE  Highest(S) \in S /\ \A k \in S : card[k].rank <= card[Highest(S)].rank
<1>1. PICK b \in Int : \A k \in Cards : card[k].rank \in Int /\ card[k].rank <= b
  BY DEF BoardInv, BoardTyped
<1> DEFINE Depths == {b - card[k].rank : k \in S}
<1>2. PICK d \in Depths : \A e \in Depths : d <= e
  <2>1. Depths \subseteq Nat /\ Depths # {}
    BY <1>1
  <2> HIDE DEF Depths
  <2> QED BY <2>1, LeastNatural
<1>3. PICK j \in S : d = b - card[j].rank
  OBVIOUS
<1>4. ASSUME NEW k \in S PROVE card[k].rank <= card[j].rank
  <2>1. b - card[k].rank \in Depths
    OBVIOUS
  <2> HIDE DEF Depths
  <2>2. d <= b - card[k].rank
    BY <1>2, <2>1
  <2>3. j \in Cards /\ k \in Cards
    OBVIOUS
  <2> QED BY <1>1, <1>3, <2>2, <2>3
<1> QED BY <1>4 DEF Highest

\* The rank of a card that is dropped on another one, or at the end.
Placed(k, col, before) ==
  IF before = Nothing THEN LastRank(k, col) ELSE RankBefore(k, col, before)

LEMMA PlacedBounded ==
  ASSUME BoardInv, NEW k \in Cards, NEW col \in Columns, NEW before \in Cards \cup {Nothing},
         NEW b \in Int, \A j \in Cards : card[j].rank <= b
  PROVE  Placed(k, col, before) \in Int /\ (Placed(k, col, before) <= b + Gap \/ Placed(k, col, before) <= Gap)
<1>1. Gap \in Nat /\ Gap > 0 /\ \A j \in Cards : card[j].rank \in Int
  BY Parameters DEF BoardInv, BoardTyped
<1>2. CASE before = Nothing
  <2> DEFINE others == InColumn(col) \ {k}
  <2>1. others \in SUBSET Cards
    BY DEF InColumn
  <2>2. LastRank(k, col) = IF others = {} THEN Gap ELSE card[Highest(others)].rank + Gap
    BY DEF LastRank
  <2> HIDE DEF others
  <2>3. CASE others = {}
    BY <1>1, <1>2, <2>2, <2>3 DEF Placed
  <2>4. CASE others # {}
    <3>1. Highest(others) \in Cards
      BY <2>1, <2>4, HighestFacts
    <3> QED BY <1>1, <1>2, <2>2, <2>4, <3>1 DEF Placed
  <2> QED BY <2>3, <2>4
<1>3. CASE before \in Cards
  <2> DEFINE lower == {j \in InColumn(col) \ {k} : card[j].rank < card[before].rank}
  <2>1. lower \in SUBSET Cards
    BY DEF InColumn
  <2>2. Placed(k, col, before) = IF lower = {} THEN card[before].rank - Gap
                                 ELSE Middle(card[Highest(lower)].rank, card[before].rank)
    BY <1>3, Parameters DEF Placed, RankBefore
  <2> HIDE DEF lower
  <2>3. CASE lower = {}
    BY <1>1, <1>3, <2>2, <2>3
  <2>4. CASE lower # {}
    <3>1. Highest(lower) \in Cards
      BY <2>1, <2>4, HighestFacts
    <3>2. ASSUME NEW x \in Int, NEW y \in Int, x <= b, y <= b
          PROVE  Middle(x, y) \in Int /\ Middle(x, y) <= b + 1
      BY <3>2 DEF Middle
    <3> QED BY <1>1, <1>3, <2>2, <2>4, <3>1, <3>2
  <2> QED BY <2>3, <2>4
<1> QED BY <1>2, <1>3

LEMMA PlacedKeeps ==
  ASSUME BoardInv, NEW k \in Cards, NEW col \in Columns, NEW before \in Cards \cup {Nothing},
         card' = [card EXCEPT ![k] = [column |-> col, rank |-> Placed(k, col, before)]],
         board' \in [view : BOOLEAN, move : BOOLEAN]
  PROVE  BoardInv'
<1>1. PICK b \in Int : \A j \in Cards : card[j].rank <= b
  BY DEF BoardInv
<1>2. /\ Placed(k, col, before) \in Int
      /\ Placed(k, col, before) <= b + Gap \/ Placed(k, col, before) <= Gap
  BY <1>1, PlacedBounded
<1>3. BoardTyped'
  BY <1>2 DEF BoardInv, BoardTyped
<1>4. PICK c \in Int : b <= c /\ Placed(k, col, before) <= c
  <2>1. b + Gap \in Int /\ Gap \in Int /\ Gap >= 0
    BY Parameters
  <2> QED BY <1>2, <2>1
<1>5. \A j \in Cards : card'[j].rank <= c
  BY <1>1, <1>2, <1>4 DEF BoardInv, BoardTyped
<1> QED BY <1>3, <1>5 DEF BoardInv

LEMMA BoardingKeeps ==
  ASSUME BoardInv, Boarding
  PROVE  BoardInv'
<1>1. ASSUME NEW view \in BOOLEAN, NEW move \in BOOLEAN, UpdateBoard(view, move)
      PROVE  BoardInv'
  BY <1>1 DEF UpdateBoard, BoardInv, BoardTyped
<1>2. ASSUME NEW k \in Cards, NEW col \in Columns, AddCard(k, col)
      PROVE  BoardInv'
  <2>1. card' = [card EXCEPT ![k] = [column |-> col, rank |-> Placed(k, col, Nothing)]]
    BY <1>2 DEF AddCard, Placed
  <2>2. board' \in [view : BOOLEAN, move : BOOLEAN]
    BY <1>2 DEF AddCard, BoardInv, BoardTyped
  <2> QED BY <2>1, <2>2, PlacedKeeps
<1>3. ASSUME NEW actor \in Actors, NEW k \in Cards, NEW col \in Columns,
             NEW before \in Cards \cup {Nothing}, MoveCard(actor, k, col, before)
      PROVE  BoardInv'
  <2>1. card' = [card EXCEPT ![k] = [column |-> col, rank |-> Placed(k, col, before)]]
    BY <1>3 DEF MoveCard, Placed
  <2>2. board' \in [view : BOOLEAN, move : BOOLEAN]
    BY <1>3 DEF MoveCard, BoardInv, BoardTyped
  <2> QED BY <2>1, <2>2, PlacedKeeps
<1> QED BY <1>1, <1>2, <1>3 DEF Boarding, Move

---------------------------------------------------------------------------
(* The board: ranks that can be halved.                                    *)

\* What the distance of ranks is divided into, request by request.
Halvings ==
  {unit \in [0..MaxRequests -> Nat \ {0}] :
     unit[0] = Gap /\ \A n \in 1..MaxRequests : unit[n - 1] = 2 * unit[n]}

Fits(x, u) == \E m \in Int : x = m * u

\* No two cards of a column have the same rank.
RanksApart ==
  \A j, k \in Cards : j # k /\ card[j].column # Nothing /\ card[j].column = card[k].column
                        => card[j].rank # card[k].rank

\* The ranks are multiples of what is left of the distance.
RanksFit(u) == Fits(Gap, u) /\ \A k \in Cards : Fits(card[k].rank, u)

LEMMA HalvedFacts ==
  ASSUME NEW v \in Nat \ {0}, NEW x \in Int, NEW y \in Int, Fits(x, 2 * v), Fits(y, 2 * v)
  PROVE  /\ Fits(x, v) /\ Fits(x + y, v) /\ Fits(x - y, v) /\ Fits(Middle(x, y), v)
         /\ x < y => x < Middle(x, y) /\ Middle(x, y) < y
<1>1. PICK m \in Int, n \in Int : x = m * (2 * v) /\ y = n * (2 * v)
  BY DEF Fits
<1>2. x = 2 * (m * v) /\ y = 2 * (n * v)
  BY <1>1
<1>3. x = (2 * m) * v /\ x + y = (2 * m + 2 * n) * v /\ x - y = (2 * m - 2 * n) * v
  BY <1>1
<1>4. x + y = 2 * ((m + n) * v) /\ (m + n) * v \in Int
  BY <1>2
<1>5. PICK h \in Int : h = (m + n) * v
  BY <1>4
<1>6. (x + y) % 2 = 0 /\ (x + y) \div 2 = h
  BY <1>4, <1>5
<1>7. Middle(x, y) = h
  BY <1>6 DEF Middle
<1>8. Fits(x, v) /\ Fits(x + y, v) /\ Fits(x - y, v)
  <2>1. 2 * m \in Int /\ 2 * m + 2 * n \in Int /\ 2 * m - 2 * n \in Int
    OBVIOUS
  <2> QED BY <1>3, <2>1, Zenon DEF Fits
<1>9. Fits(h, v)
  BY <1>5 DEF Fits
<1> QED BY <1>4, <1>5, <1>7, <1>8, <1>9

\* A card that is placed is the only one between the card it is dropped on and
\* those that were before that one; or it is last.
LEMMA PlacedLands ==
  ASSUME BoardInv, RanksApart, NEW v \in Nat \ {0}, RanksFit(2 * v),
         NEW k \in Cards, NEW col \in Columns, NEW before \in Cards \cup {Nothing},
         before # Nothing => card[before].column = col
  PROVE  LET r == Placed(k, col, before) IN
         /\ Fits(r, v)
         /\ before = Nothing => \A j \in InColumn(col) \ {k} : card[j].rank < r
         /\ before # Nothing =>
              /\ r < card[before].rank
              /\ \A j \in InColumn(col) \ {k, before} : card[j].rank < r \/ card[before].rank < card[j].rank
<1>1. Gap \in Nat /\ Gap > 0 /\ \A j \in Cards : card[j].rank \in Int
  BY Parameters DEF BoardInv, BoardTyped
<1>2. \A j \in Cards : Fits(card[j].rank, 2 * v) /\ Fits(Gap, 2 * v)
  BY DEF RanksFit
<1>3. CASE before = Nothing
  <2> DEFINE others == InColumn(col) \ {k}
  <2>1. others \in SUBSET Cards
    BY DEF InColumn
  <2>2. Placed(k, col, before) = IF others = {} THEN Gap ELSE card[Highest(others)].rank + Gap
    BY <1>3 DEF LastRank, Placed
  <2> HIDE DEF others
  <2>3. CASE others = {}
    BY <1>1, <1>2, <1>3, <2>2, <2>3, HalvedFacts DEF others
  <2>4. CASE others # {}
    <3>1. Highest(others) \in Cards /\ \A j \in others : card[j].rank <= card[Highest(others)].rank
      BY <2>1, <2>4, HighestFacts
    <3>2. Fits(card[Highest(others)].rank + Gap, v)
      BY <1>1, <1>2, <3>1, HalvedFacts
    <3>3. \A j \in others : card[j].rank < Placed(k, col, before)
      BY <1>1, <2>1, <2>2, <2>4, <3>1
    <3>4. Fits(Placed(k, col, before), v)
      BY <2>2, <2>4, <3>2
    <3> QED BY <1>3, <3>3, <3>4 DEF others
  <2> QED BY <2>3, <2>4
<1>4. CASE before \in Cards
  <2> DEFINE lower == {j \in InColumn(col) \ {k} : card[j].rank < card[before].rank}
  <2>1. lower \in SUBSET Cards /\ before # Nothing
    BY <1>4, Parameters DEF InColumn
  <2>2. Placed(k, col, before) = IF lower = {} THEN card[before].rank - Gap
                                 ELSE Middle(card[Highest(lower)].rank, card[before].rank)
    BY <2>1 DEF Placed, RankBefore
  <2>3. ASSUME NEW j \in InColumn(col) \ {k, before}
        PROVE  j \in Cards /\ (j \in lower \/ card[before].rank < card[j].rank)
    BY <1>1, <1>4, <2>1, <2>3, Parameters DEF InColumn, RanksApart
  <2>4. \A j \in lower : card[j].rank < card[before].rank
    OBVIOUS
  <2> HIDE DEF lower
  <2>5. CASE lower = {}
    <3>1. Fits(card[before].rank - Gap, v)
      BY <1>1, <1>2, <1>4, HalvedFacts
    <3> QED BY <1>1, <1>4, <2>1, <2>2, <2>3, <2>5, <3>1
  <2>6. CASE lower # {}
    <3>1. Highest(lower) \in lower /\ \A j \in lower : card[j].rank <= card[Highest(lower)].rank
      BY <2>1, <2>6, HighestFacts
    <3> DEFINE x == card[Highest(lower)].rank
    <3> DEFINE y == card[before].rank
    <3>2. x \in Int /\ y \in Int /\ x < y /\ Fits(x, 2 * v) /\ Fits(y, 2 * v)
      BY <1>1, <1>2, <1>4, <2>1, <2>4, <3>1
    <3>3. Fits(Middle(x, y), v) /\ x < Middle(x, y) /\ Middle(x, y) < y
      BY <3>2, HalvedFacts
    <3>4. Middle(x, y) \in Int
      BY <3>2 DEF Middle
    <3>5. Placed(k, col, before) = Middle(x, y)
      BY <2>2, <2>6
    <3>6. ASSUME NEW j \in InColumn(col) \ {k, before}
          PROVE  card[j].rank < Middle(x, y) \/ card[before].rank < card[j].rank
      <4>1. j \in Cards /\ (j \in lower => card[j].rank <= x)
        BY <2>3, <3>1
      <4> QED BY <1>1, <2>3, <3>2, <3>3, <3>4, <4>1
    <3> QED BY <2>1, <3>3, <3>5, <3>6
  <2> QED BY <2>5, <2>6
<1> QED BY <1>3, <1>4

RanksInv(unit) == RanksApart /\ RanksFit(unit[requests])

LEMMA UnitFacts ==
  ASSUME NEW unit \in Halvings, AccessTyped, Request
  PROVE  unit[requests'] \in Nat \ {0} /\ unit[requests] = 2 * unit[requests']
<1>1. requests \in Nat /\ requests' \in 1..MaxRequests /\ requests = requests' - 1
  BY RequestFacts DEF AccessTyped
<1> QED BY <1>1 DEF Halvings

\* A request that places no card: the ranks are multiples of half the unit, too.
LEMMA RanksRest ==
  ASSUME NEW unit \in Halvings, AccessTyped, BoardInv, RanksInv(unit), UNCHANGED card,
         Request \/ requests' = requests
  PROVE  RanksInv(unit)'
<1>1. RanksApart'
  BY DEF RanksInv, RanksApart
<1>2. CASE requests' = requests
  BY <1>1, <1>2 DEF RanksInv, RanksFit
<1>3. CASE Request
  <2>1. PICK v \in Nat \ {0} : v = unit[requests'] /\ unit[requests] = 2 * v
    BY <1>3, UnitFacts
  <2>2. Gap \in Int /\ \A k \in Cards : card[k].rank \in Int
    BY Parameters DEF BoardInv, BoardTyped
  <2>3. Fits(Gap, 2 * v) /\ \A k \in Cards : Fits(card[k].rank, 2 * v)
    BY <2>1 DEF RanksInv, RanksFit
  <2>4. Fits(Gap, v) /\ \A k \in Cards : Fits(card[k].rank, v)
    BY <2>2, <2>3, HalvedFacts
  <2> QED BY <1>1, <2>1, <2>4 DEF RanksInv, RanksFit
<1> QED BY <1>2, <1>3

LEMMA PlacedApart ==
  ASSUME NEW unit \in Halvings, AccessTyped, BoardInv, RanksInv(unit), Request,
         NEW k \in Cards, NEW col \in Columns, NEW before \in Cards \cup {Nothing},
         before # Nothing => card[before].column = col,
         card' = [card EXCEPT ![k] = [column |-> col, rank |-> Placed(k, col, before)]]
  PROVE  RanksInv(unit)'
<1>1. PICK v \in Nat \ {0} : v = unit[requests'] /\ unit[requests] = 2 * v
  BY UnitFacts
<1>2. RanksApart /\ RanksFit(2 * v)
  BY <1>1 DEF RanksInv
<1>3. Gap \in Int /\ \A j \in Cards : card[j].rank \in Int
  BY Parameters DEF BoardInv, BoardTyped
<1> DEFINE r == Placed(k, col, before)
<1>4. PICK b \in Int : \A j \in Cards : card[j].rank <= b
  BY DEF BoardInv
<1>5. r \in Int
  BY <1>4, PlacedBounded
<1>6. Fits(r, v)
  BY <1>2, PlacedLands
<1>7. ASSUME NEW j \in InColumn(col) \ {k}
      PROVE  card[j].rank # r
  <2>1. CASE before = Nothing
    <3>1. card[j].rank < r
      BY <1>2, <2>1, PlacedLands
    <3> QED BY <1>3, <1>5, <3>1 DEF InColumn
  <2>2. CASE before # Nothing
    <3>1. /\ r < card[before].rank
          /\ j # before => card[j].rank < r \/ card[before].rank < card[j].rank
      BY <1>2, <2>2, PlacedLands
    <3> HIDE DEF r
    <3> QED BY <1>3, <1>5, <2>2, <3>1 DEF InColumn
  <2> QED BY <2>1, <2>2
<1>8. /\ card'[k].column = col /\ card'[k].rank = r
      /\ \A j \in Cards \ {k} : card'[j] = card[j]
  BY DEF BoardInv, BoardTyped
<1>9. RanksApart'
  <2> SUFFICES ASSUME NEW i \in Cards, NEW j \in Cards, i # j, card'[i].column # Nothing,
                      card'[i].column = card'[j].column
               PROVE  card'[i].rank # card'[j].rank
    BY DEF RanksApart
  <2> HIDE DEF r
  <2>1. CASE i = k
    BY <1>7, <1>8, <2>1 DEF InColumn
  <2>2. CASE j = k
    BY <1>7, <1>8, <2>2 DEF InColumn
  <2>3. CASE i # k /\ j # k
    BY <1>2, <1>8, <2>3 DEF RanksApart
  <2> QED BY <2>1, <2>2, <2>3
<1>10. RanksFit(v)'
  <2>1. Fits(Gap, v) /\ \A j \in Cards : Fits(card[j].rank, v)
    BY <1>2, <1>3, HalvedFacts DEF RanksFit
  <2> HIDE DEF r
  <2> QED BY <1>6, <1>8, <2>1 DEF RanksFit
<1> QED BY <1>1, <1>9, <1>10 DEF RanksInv, RanksFit

LEMMA BoardingKeepsApart ==
  ASSUME NEW unit \in Halvings, AccessTyped, BoardInv, RanksInv(unit), Boarding
  PROVE  RanksInv(unit)'
<1>1. ASSUME NEW view \in BOOLEAN, NEW move \in BOOLEAN, UpdateBoard(view, move)
      PROVE  RanksInv(unit)'
  BY <1>1, RanksRest DEF UpdateBoard, OnBoard
<1>2. ASSUME NEW k \in Cards, NEW col \in Columns, AddCard(k, col)
      PROVE  RanksInv(unit)'
  <2>1. /\ card' = [card EXCEPT ![k] = [column |-> col, rank |-> Placed(k, col, Nothing)]]
        /\ Request
    BY <1>2 DEF AddCard, Placed, OnBoard
  <2> QED BY <2>1, PlacedApart
<1>3. ASSUME NEW actor \in Actors, NEW k \in Cards, NEW col \in Columns,
             NEW before \in Cards \cup {Nothing}, MoveCard(actor, k, col, before)
      PROVE  RanksInv(unit)'
  <2>1. /\ card' = [card EXCEPT ![k] = [column |-> col, rank |-> Placed(k, col, before)]]
        /\ Request /\ (before # Nothing => card[before].column = col)
    BY <1>3 DEF MoveCard, Placed, OnBoard
  <2> QED BY <2>1, PlacedApart
<1> QED BY <1>1, <1>2, <1>3 DEF Boarding, Move

\* A card that is moved lands where it was dropped.
LEMMA MoveLands ==
  ASSUME NEW unit \in Halvings, AccessTyped, BoardInv, RanksInv(unit),
         NEW actor \in Actors, NEW k \in Cards, NEW col \in Columns,
         NEW before \in Cards \cup {Nothing}, MoveCard(actor, k, col, before), before # k
  PROVE  /\ before # Nothing => Adjacent(k, before)'
         /\ before = Nothing => (\A j \in InColumn(col) \ {k} : Precedes(j, k))'
<1>1. PICK v \in Nat \ {0} : v = unit[requests'] /\ unit[requests] = 2 * v
  BY UnitFacts DEF MoveCard, OnBoard
<1>2. RanksApart /\ RanksFit(2 * v)
  BY <1>1 DEF RanksInv
<1> DEFINE r == Placed(k, col, before)
<1>3. /\ card' = [card EXCEPT ![k] = [column |-> col, rank |-> r]]
      /\ before # Nothing => card[before].column = col
  BY DEF MoveCard, Placed
<1>4. /\ card'[k].column = col /\ card'[k].rank = r
      /\ \A j \in Cards \ {k} : card'[j] = card[j]
      /\ InColumn(col)' \ {k} = InColumn(col) \ {k}
  BY <1>3 DEF BoardInv, BoardTyped, InColumn
<1>5. CASE before = Nothing
  <2>1. \A j \in InColumn(col) \ {k} : card[j].rank < r
    BY <1>2, <1>5, PlacedLands
  <2> HIDE DEF r
  <2> QED BY <1>4, <1>5, <2>1 DEF Precedes, InColumn
<1>6. CASE before # Nothing
  <2>1. /\ r < card[before].rank
        /\ \A j \in InColumn(col) \ {k, before} : card[j].rank < r \/ card[before].rank < card[j].rank
    BY <1>2, <1>3, <1>6, PlacedLands
  <2> HIDE DEF r
  <2>2. card'[before] = card[before] /\ card'[before].column = col
    BY <1>3, <1>4, <1>6
  <2>3. Precedes(k, before)'
    BY <1>4, <2>1, <2>2 DEF Precedes
  <2>4. ASSUME NEW i \in InColumn(col)' \ {k, before}
        PROVE  Precedes(i, k)' \/ Precedes(before, i)'
    <3>1. i \in InColumn(col) \ {k, before} /\ i \in Cards \ {k}
      BY <1>4 DEF InColumn
    <3> QED BY <1>4, <2>1, <2>2, <3>1 DEF Precedes
  <2> QED BY <1>4, <1>6, <2>2, <2>3, <2>4 DEF Adjacent
<1> QED BY <1>5, <1>6

---------------------------------------------------------------------------
(* The specification.                                                      *)

LEMMA InvInit == Init => IInv
<1> SUFFICES ASSUME Init PROVE IInv
  OBVIOUS
<1> USE Parameters DEF Init
<1>1. NoTopic \in Topics /\ comment \in Conversations
  BY DEF NoTopic, Topics, Conversations
<1>2. TopicsInv
  <2>1. topic.version = 0 /\ \A c \in Comments : comment[c] = "none"
    BY DEF NoTopic
  <2>2. \A s \in Screens : seen[s].shown = [row |-> topic, comment |-> comment] /\ seen[s].parts = 0
    BY DEF Shown
  <2>3. TopicsTyped
    BY <1>1 DEF TopicsTyped, Shown
  <2>4. VersionsTell
    BY <2>1, <2>2 DEF VersionsTell
  <2> QED BY <2>3, <2>4 DEF TopicsInv
<1>3. ReleasesInv
  BY DEF ReleasesInv, ReleasesTyped, PublicationStands, PublishedStays, Works, Free, NoExport
<1>4. BoardInv
  BY DEF BoardInv, BoardTyped, OffBoard
<1>5. AccessTyped
  BY DEF AccessTyped
<1> QED BY <1>2, <1>3, <1>4, <1>5 DEF IInv

\* What the parts of the system leave alone.
LEMMA Apart ==
  ASSUME AccessTyped, [Next]_vars
  PROVE  /\ AccessTyped'
         /\ Request \/ requests' = requests
         /\ Discussing \/ UNCHANGED topicVars
         /\ Boarding \/ UNCHANGED boardVars
         /\ Releasing \/ UNCHANGED releaseVars
<1> USE Parameters DEF AccessTyped, OnTopics, OnBoard, OnRelease, By, ByOwner, Protected, Request,
      accessVars, bounds
<1>1. CASE Discussing
  BY <1>1, RequestFacts, ZenonT(60) DEF Discussing, CreateTopic, AddComment, ModerateComment, Load, Update,
    UpdateTopic, DeleteTopic, CreateMilestone, DeleteMilestone
<1>2. CASE Boarding
  BY <1>2, RequestFacts, ZenonT(60) DEF Boarding, UpdateBoard, AddCard, Move, MoveCard
<1>3. CASE Releasing
  BY <1>3, RequestFacts, SMTT(30) DEF Releasing, CreateRelease, UpdateRelease, WriteAsset, CommitAsset,
    AssetFails, Publish, RecordPublication, BeginCleaning, CleanFile, CommitCleaning, BeginExport, PackExport,
    EndExport, Die, topicVars, boardVars
<1>4. CASE (\E kind \in {"topic", "comment", "move"} : Admit(kind)) \/ Revoke \/ LedgerChanges
  BY <1>4 DEF Admit, Revoke, LedgerChanges
<1>5. CASE UNCHANGED vars
  BY <1>5 DEF vars
<1> QED BY <1>1, <1>2, <1>3, <1>4, <1>5 DEF Next

LEMMA InvStep == IInv /\ [Next]_vars => IInv'
<1> SUFFICES ASSUME IInv, [Next]_vars PROVE IInv'
  OBVIOUS
<1> USE DEF IInv
<1>1. AccessTyped'
  BY Apart
<1>2. TopicsInv'
  <2>1. CASE UNCHANGED topicVars
    BY <2>1, Apart, TopicsRest DEF topicVars, TopicsInv, TopicsTyped
  <2> QED BY <2>1, Apart, DiscussingKeeps
<1>3. ReleasesInv'
  BY Apart, ReleasesRest, ReleasingKeeps
<1>4. BoardInv'
  <2>1. CASE UNCHANGED boardVars
    BY <2>1 DEF boardVars, BoardInv, BoardTyped
  <2> QED BY <2>1, Apart, BoardingKeeps
<1> QED BY <1>1, <1>2, <1>3, <1>4

\* The invariant, from which the theorems follow.
LEMMA Invariant == Spec => []IInv
BY InvInit, InvStep, PTL DEF Spec

\* Every variable of the discussion, the board and the release keeps its type.
THEOREM TypeCorrect == Spec => []TypeOK
<1>1. IInv => TypeOK
  BY DEF IInv, TypeOK, TopicsInv, TopicsTyped, ReleasesInv, ReleasesTyped, BoardInv, BoardTyped, AccessTyped
<1> QED BY <1>1, Invariant, PTL

\* A published release keeps the files of all its assets, and its exports agree
\* with their manifests: whatever was added, cleaned or cut short before.
THEOREM PublicationsStay == Spec => []PublishedStays
<1>1. IInv => PublishedStays
  BY DEF IInv, ReleasesInv
<1> QED BY <1>1, Invariant, PTL

\* No window of the owner, of any number of them, changes a discussion over a
\* comment, a moderation or an update that it has not shown him.
THEOREM UpdatesAreSeen == Spec => NoLostUpdate
<1>1. IInv /\ [Next]_vars =>
        [topic' # topic => \A s \in Screens : Update(s) => seen[s].shown = Shown]_vars
  <2> SUFFICES ASSUME IInv, NEW s \in Screens, Update(s) PROVE seen[s].shown = Shown
    OBVIOUS
  <2>1. Loaded(s) /\ seen[s].shown.row.version = topic.version
    BY DEF Update, UpdateTopic
  <2>2. seen[s].shown.row = topic /\ seen[s].shown.comment = comment
    BY <2>1 DEF IInv, TopicsInv, VersionsTell
  <2>3. seen[s].shown \in [row : Topics, comment : Conversations]
    BY DEF IInv, TopicsInv, TopicsTyped
  <2> QED BY <2>2, <2>3 DEF Shown
<1> QED BY <1>1, Invariant, PTL DEF Spec, NoLostUpdate

LEMMA RanksInit ==
  ASSUME NEW unit \in Halvings PROVE Init => RanksInv(unit)
<1> SUFFICES ASSUME Init PROVE RanksInv(unit)
  OBVIOUS
<1>1. /\ \A k \in Cards : card[k].column = Nothing /\ card[k].rank = 0
      /\ requests = 0
  BY DEF Init, OffBoard
<1>2. Gap = 1 * Gap /\ 0 = 0 * Gap
  BY Parameters
<1>3. Fits(Gap, Gap) /\ Fits(0, Gap)
  BY <1>2 DEF Fits
<1> QED BY <1>1, <1>3 DEF RanksInv, RanksApart, RanksFit, Halvings

LEMMA RanksStep ==
  ASSUME NEW unit \in Halvings PROVE IInv /\ RanksInv(unit) /\ [Next]_vars => RanksInv(unit)'
<1> SUFFICES ASSUME IInv, RanksInv(unit), [Next]_vars PROVE RanksInv(unit)'
  OBVIOUS
<1>1. CASE UNCHANGED boardVars
  BY <1>1, Apart, RanksRest DEF boardVars, IInv
<1> QED BY <1>1, Apart, BoardingKeepsApart DEF IInv

\* Cards land where they are dropped, any number of them in any number of columns,
\* as long as the distance of the ranks can be halved once for each request: the
\* ranks of a column stay apart.
THEOREM CardsLand ==
  ASSUME NEW unit \in Halvings
  PROVE  Spec => MovesLand
<1>1. Spec => []RanksInv(unit)
  BY RanksInit, RanksStep, Invariant, PTL DEF Spec
<1>2. IInv /\ RanksInv(unit) /\ [Next]_vars =>
        [card' # card =>
           \A actor \in Actors, k \in Cards, col \in Columns, before \in Cards \cup {Nothing} :
             MoveCard(actor, k, col, before) /\ before # k =>
               /\ before # Nothing => Adjacent(k, before)'
               /\ before = Nothing => (\A j \in InColumn(col) \ {k} : Precedes(j, k))']_vars
  BY MoveLands DEF IInv
<1> QED BY <1>1, <1>2, Invariant, PTL DEF Spec, MovesLand

=============================================================================
