---------------------------- MODULE ProjectRecords ----------------------------
(***************************************************************************)
(* The project records beside a repository: a discussion with its comments *)
(* and a milestone (project_coordination.py), a board with ranked cards    *)
(* (project_boards.py), and a release with assets (releases.py).  They are *)
(* three databases with a lock each, and share the invitation that lets a  *)
(* contributor in and the security ledger that protected requests need.    *)
(* No request changes two of them or goes by the rows of another, but for  *)
(* a card, whose discussion has to be there when it is added: a behaviour  *)
(* of this module uses one of them, its area.                              *)
(*                                                                         *)
(* A request of the first two is one transaction under its lock; that of   *)
(* a release also touches files, and may die in between.  An invitation is *)
(* looked at before the lock.  Requests with an old version are refused,   *)
(* and of those only the owner's updates of the discussion are modelled:   *)
(* the others show the current version.                                    *)
(***************************************************************************)
EXTENDS Integers, FiniteSets, Sequences

CONSTANTS
    Screens,      \* the owner's browser windows
    Texts,        \* what a discussion may say
    Comments,     \* the comments that may be made
    Cards,        \* the cards, numbers in the order of their identities
    Columns,      \* the columns of the board
    Assets,       \* the assets that may be added
    Nothing,      \* no comment, no card, no column, no asset
    Gap,          \* the distance of ranks, 1000, in units of their precision
    MaxRequests,  \* bound: requests that change something
    MaxDeaths     \* bound: deaths of a process inside a request

ASSUME Parameters ==
  /\ Cards \subseteq Nat /\ Gap \in Nat \ {0}
  /\ Nothing \notin Comments \cup Cards \cup Columns \cup Assets
  /\ {MaxRequests, MaxDeaths} \subseteq Nat

VARIABLES
    topic,      \* the row of the discussion
    comment,    \* its comments: none, shown or hidden
    milestone,  \* none, live or deleted
    seen,       \* the discussion as each window has loaded it, by parts
    board,      \* what contributors may do with the board
    card,       \* the column and the rank of each card
    release,    \* the row of the release: its state and version
    rows,       \* the rows of its assets
    files,      \* the files of its assets
    busy,       \* the request that holds the releases' lock, see Works
    recorded,   \* the event of the publication: no, due or in the ledger
    export,     \* an export: where it is, what its manifest and its archive have
    area,       \* the database in use
    permitted,  \* the invitation lets a contributor take part
    admitted,   \* requests of a contributor that were let in
    ledger,     \* the security ledger can be written to
    requests, deaths

topicVars   == <<topic, comment, milestone, seen>>
boardVars   == <<board, card>>
releaseVars == <<release, rows, files, busy, recorded, export>>
accessVars  == <<area, permitted, admitted, ledger>>
bounds      == <<requests, deaths>>
vars == <<topicVars, boardVars, releaseVars, accessVars, bounds>>

Works    == {"free", "adding", "cleaning"}
NoTopic  == [status |-> "none", version |-> 0, text |-> Nothing, locked |-> FALSE,
             milestone |-> FALSE, accepted |-> Nothing]
OffBoard == [column |-> Nothing, rank |-> 0]
NoExport == [at |-> "none", told |-> {}, packed |-> {}, published |-> FALSE]

Topics ==
  [status : {"none", "there", "deleted"}, version : 0..MaxRequests,
   text : Texts \cup {Nothing}, locked : BOOLEAN, milestone : BOOLEAN,
   accepted : Comments \cup {Nothing}]
Conversations == [Comments -> {"none", "shown", "hidden"}]

\* Every variable keeps its type.
TypeOK ==
  /\ topic \in Topics /\ comment \in Conversations
  /\ milestone \in {"none", "live", "deleted"}
  /\ seen \in [Screens -> [shown : [row : Topics, comment : Conversations], parts : 0..2]]
  /\ board \in [view : BOOLEAN, move : BOOLEAN]
  /\ card \in [Cards -> [column : Columns \cup {Nothing}, rank : Int]]
  /\ release \in [state : {"none", "draft", "published"}, version : 0..MaxRequests]
  /\ rows \in SUBSET Assets /\ files \in SUBSET Assets
  /\ busy \in [work : Works, asset : Assets \cup {Nothing}]
  /\ recorded \in {"no", "due", "yes"}
  /\ export \in [at : {"none", "told", "packed"}, told : SUBSET Assets,
                 packed : SUBSET Assets, published : BOOLEAN]
  /\ area \in {"topics", "board", "releases"}
  /\ permitted \in BOOLEAN /\ admitted \in SUBSET {"topic", "comment", "move"}
  /\ ledger \in BOOLEAN /\ requests \in 0..MaxRequests /\ deaths \in 0..MaxDeaths

\* Variant: the comments first.
CommentsFirst == <<"comment", "row">>

\* A window loads the row, and then the comments, each as it is at that moment.
Parts == <<"row", "comment">>

\* The discussion as it is now.
Shown == [row |-> topic, comment |-> comment]

Loaded(s) == seen[s].parts = Len(Parts)

Init ==
  /\ topic = NoTopic /\ comment = [c \in Comments |-> "none"] /\ milestone = "none"
  /\ seen = [s \in Screens |-> [shown |-> Shown, parts |-> 0]]
  /\ board = [view |-> FALSE, move |-> FALSE] /\ card = [k \in Cards |-> OffBoard]
  /\ release = [state |-> "none", version |-> 0] /\ rows = {} /\ files = {}
  /\ busy = [work |-> "free", asset |-> Nothing] /\ recorded = "no" /\ export = NoExport
  /\ area \in {"topics", "board", "releases"}
  /\ permitted = TRUE /\ admitted = {} /\ ledger = TRUE
  /\ requests = 0 /\ deaths = 0

Request == requests < MaxRequests /\ requests' = requests + 1 /\ UNCHANGED deaths

---------------------------------------------------------------------------
(* Who may do what.                                                        *)

Actors == {"owner", "contributor"}

\* project_participant: the invitation is looked at, and then the request goes on.
Admit(kind) ==
  /\ area = IF kind = "move" THEN "board" ELSE "topics"
  /\ permitted /\ admitted' = admitted \cup {kind}
  /\ UNCHANGED <<topicVars, boardVars, releaseVars, area, permitted, ledger, bounds>>

\* The owner revokes the invitation, or it expires.
Revoke ==
  /\ permitted /\ permitted' = FALSE
  /\ UNCHANGED <<topicVars, boardVars, releaseVars, area, admitted, ledger, bounds>>

\* The ledger fails its verification or cannot be written, and is repaired.
LedgerChanges ==
  /\ ledger' = ~ledger
  /\ UNCHANGED <<topicVars, boardVars, releaseVars, area, permitted, admitted, bounds>>

By(actor, kind) ==
  /\ actor = "contributor" => kind \in admitted
  /\ admitted' = IF actor = "contributor" THEN admitted \ {kind} ELSE admitted
  /\ UNCHANGED <<area, permitted, ledger>>

ByOwner   == UNCHANGED accessVars
Protected == ledger /\ UNCHANGED accessVars
OnTopics  == area = "topics" /\ Request /\ UNCHANGED <<boardVars, releaseVars>>
OnBoard   == area = "board" /\ Request /\ UNCHANGED <<topicVars, releaseVars>>
OnRelease == area = "releases" /\ UNCHANGED <<topicVars, boardVars>>

---------------------------------------------------------------------------
(* The discussion.                                                         *)

There == topic.status = "there"

CreateTopic(actor, text) ==
  /\ OnTopics /\ By(actor, "topic") /\ topic.status = "none"
  /\ topic' = [NoTopic EXCEPT !.status = "there", !.version = 1, !.text = text]
  /\ UNCHANGED <<comment, milestone, seen>>

\* The window reads one part more, or begins again.
Load(s) ==
  /\ There
  /\ LET parts == IF Loaded(s) THEN 1 ELSE seen[s].parts + 1 IN
     seen' = [seen EXCEPT ![s] = [shown |-> [@.shown EXCEPT ![Parts[parts]] = Shown[Parts[parts]]],
                                  parts |-> parts]]
  /\ UNCHANGED <<topic, comment, milestone, boardVars, releaseVars, accessVars, bounds>>

\* A comment is made on the version that its author was shown.
AddComment(actor, c) ==
  /\ OnTopics /\ By(actor, "comment")
  /\ There /\ comment[c] = "none" /\ (topic.locked => actor = "owner")
  /\ comment' = [comment EXCEPT ![c] = "shown"]
  /\ topic' = [topic EXCEPT !.version = @ + 1]
  /\ UNCHANGED <<milestone, seen>>

\* Variant: hiding a comment is no change of the discussion.
ModerateQuietly(c) ==
  /\ OnTopics /\ Protected /\ comment[c] # "none"
  /\ comment' = [comment EXCEPT ![c] = "hidden"]
  /\ UNCHANGED <<topic, milestone, seen>>

\* An accepted answer stays accepted.
ModerateComment(c) ==
  /\ OnTopics /\ Protected /\ comment[c] # "none"
  /\ comment' = [comment EXCEPT ![c] = "hidden"]
  /\ topic' = [topic EXCEPT !.version = @ + 1]
  /\ UNCHANGED <<milestone, seen>>

\* The window shows the version that it has loaded.  What it leaves out stays as it
\* is in the row.  An answer has to be there and not hidden, also when it was
\* accepted before; a lock or an answer that changes needs the ledger.
UpdateTopic(s, text, locked, inMilestone, accepted) ==
  /\ OnTopics /\ ByOwner /\ There
  /\ Loaded(s) /\ seen[s].shown.row.version = topic.version
  /\ inMilestone => milestone = "live"
  /\ accepted # Nothing => comment[accepted] = "shown"
  /\ (locked # topic.locked \/ accepted # topic.accepted) => ledger
  /\ topic' = [topic EXCEPT !.text = text, !.locked = locked, !.milestone = inMilestone,
                            !.accepted = accepted, !.version = @ + 1]
  /\ UNCHANGED <<comment, milestone, seen>>

Update(s) ==
  \E text \in Texts, locked, inMilestone \in BOOLEAN, accepted \in Comments \cup {Nothing} :
    UpdateTopic(s, text, locked, inMilestone, accepted)

DeleteTopic ==
  /\ OnTopics /\ Protected /\ There
  /\ topic' = [topic EXCEPT !.status = "deleted", !.version = @ + 1]
  /\ UNCHANGED <<comment, milestone, seen>>

CreateMilestone ==
  /\ OnTopics /\ ByOwner /\ milestone = "none" /\ milestone' = "live"
  /\ UNCHANGED <<topic, comment, seen>>

\* Variant: the discussions keep their version.
DeleteMilestoneQuietly ==
  /\ OnTopics /\ Protected /\ milestone = "live" /\ milestone' = "deleted"
  /\ topic' = [topic EXCEPT !.milestone = FALSE]
  /\ UNCHANGED <<comment, seen>>

\* Every discussion in it leaves it, with a new version.
DeleteMilestone ==
  /\ OnTopics /\ Protected /\ milestone = "live" /\ milestone' = "deleted"
  /\ topic' = IF There /\ topic.milestone
              THEN [topic EXCEPT !.milestone = FALSE, !.version = @ + 1] ELSE topic
  /\ UNCHANGED <<comment, seen>>

---------------------------------------------------------------------------
(* The board.                                                              *)

\* Contributors who may move cards may see them.
UpdateBoard(view, move) ==
  /\ OnBoard /\ Protected
  /\ board' = [view |-> view, move |-> move /\ view]
  /\ UNCHANGED card

\* ORDER BY rank, id
Precedes(j, k) ==
  \/ card[j].rank < card[k].rank
  \/ card[j].rank = card[k].rank /\ j < k

InColumn(col) == {k \in Cards : card[k].column = col}
Highest(S)    == CHOOSE j \in S : \A k \in S : card[k].rank <= card[j].rank

\* Variant: the next rank comes from the number of the cards.
RankByCount(k, col) == (Cardinality(InColumn(col) \ {k}) + 1) * Gap

\* COALESCE(MAX(rank), 0) + 1000, of the other cards.
LastRank(k, col) ==
  LET others == InColumn(col) \ {k} IN
  IF others = {} THEN Gap ELSE card[Highest(others)].rank + Gap

\* Half of a sum, rounded to even when the precision is used up.
Middle(a, b) ==
  LET half == (a + b) \div 2 IN
  IF (a + b) % 2 = 0 \/ half % 2 = 0 THEN half ELSE half + 1

RankBefore(k, col, before) ==
  LET lower == {j \in InColumn(col) \ {k} : card[j].rank < card[before].rank} IN
  IF lower = {} THEN card[before].rank - Gap
  ELSE Middle(card[Highest(lower)].rank, card[before].rank)

AddCard(k, col) ==
  /\ OnBoard /\ ByOwner /\ card[k].column = Nothing
  /\ card' = [card EXCEPT ![k] = [column |-> col, rank |-> LastRank(k, col)]]
  /\ UNCHANGED board

\* before: the card that this one is dropped on, or none.
MoveCard(actor, k, col, before) ==
  /\ OnBoard /\ By(actor, "move")
  /\ actor = "contributor" => board.move
  /\ card[k].column # Nothing
  /\ before # Nothing => card[before].column = col
  /\ card' = [card EXCEPT ![k] =
       [column |-> col, rank |-> IF before = Nothing THEN LastRank(k, col) ELSE RankBefore(k, col, before)]]
  /\ UNCHANGED board

Move == \E actor \in Actors, k \in Cards, col \in Columns, before \in Cards \cup {Nothing} :
          MoveCard(actor, k, col, before)

---------------------------------------------------------------------------
(* The release.                                                            *)

Free == busy.work = "free"

CreateRelease ==
  /\ OnRelease /\ Request /\ ByOwner /\ Free /\ release.state = "none"
  /\ release' = [state |-> "draft", version |-> 1]
  /\ UNCHANGED <<rows, files, busy, recorded, export>>

UpdateRelease ==
  /\ OnRelease /\ Request /\ ByOwner /\ Free /\ release.state = "draft"
  /\ release' = [release EXCEPT !.version = @ + 1]
  /\ UNCHANGED <<rows, files, busy, recorded, export>>

\* add_asset_base64: the file takes its place, and then the rows are committed.
WriteAsset(a) ==
  /\ OnRelease /\ Request /\ ByOwner /\ Free /\ release.state = "draft"
  /\ a \notin rows \cup files
  /\ files' = files \cup {a} /\ busy' = [work |-> "adding", asset |-> a]
  /\ UNCHANGED <<release, rows, recorded, export>>

CommitAsset ==
  /\ OnRelease /\ ByOwner /\ UNCHANGED bounds /\ busy.work = "adding"
  /\ rows' = rows \cup {busy.asset} /\ release' = [release EXCEPT !.version = @ + 1]
  /\ busy' = [work |-> "free", asset |-> Nothing]
  /\ UNCHANGED <<files, recorded, export>>

\* The rows cannot be written: the file goes.
AssetFails ==
  /\ OnRelease /\ ByOwner /\ UNCHANGED bounds /\ busy.work = "adding"
  /\ files' = files \ {busy.asset} /\ busy' = [work |-> "free", asset |-> Nothing]
  /\ UNCHANGED <<release, rows, recorded, export>>

\* Variant: the assets are not verified.
PublishUnverified ==
  /\ OnRelease /\ Request /\ ByOwner /\ Free /\ release.state = "draft"
  /\ release' = [state |-> "published", version |-> release.version + 1]
  /\ recorded' = "due" /\ UNCHANGED <<rows, files, busy, export>>

\* Every asset is verified under the lock.  Publishing again changes nothing.
Publish ==
  /\ OnRelease /\ Request /\ ByOwner /\ Free /\ release.state = "draft"
  /\ rows \subseteq files
  /\ release' = [state |-> "published", version |-> release.version + 1]
  /\ recorded' = "due" /\ UNCHANGED <<rows, files, busy, export>>

\* The event comes after the commit; it raises when the ledger does not take it.
RecordPublication ==
  /\ OnRelease /\ ByOwner /\ UNCHANGED bounds /\ recorded = "due"
  /\ recorded' = IF ledger THEN "yes" ELSE "no"
  /\ UNCHANGED <<release, rows, files, busy, export>>

\* cleanup_retention of an old draft: its files go, and then the rows are committed.
\* (It is an operation of the service that only the tests call.)
BeginCleaning ==
  /\ OnRelease /\ Request /\ ByOwner /\ Free /\ release.state = "draft"
  /\ busy' = [work |-> "cleaning", asset |-> Nothing]
  /\ UNCHANGED <<release, rows, files, recorded, export>>

CleanFile(a) ==
  /\ OnRelease /\ ByOwner /\ UNCHANGED bounds
  /\ busy.work = "cleaning" /\ a \in rows \cap files
  /\ files' = files \ {a}
  /\ UNCHANGED <<release, rows, busy, recorded, export>>

CommitCleaning ==
  /\ OnRelease /\ ByOwner /\ UNCHANGED bounds
  /\ busy.work = "cleaning" /\ rows \cap files = {}
  /\ release' = [state |-> "none", version |-> 0] /\ rows' = {}
  /\ busy' = [work |-> "free", asset |-> Nothing]
  /\ UNCHANGED <<files, recorded, export>>

\* A process dies.  The one that holds the lock: the database forgets what was not
\* committed, and the lock is free.  The one that publishes: the event is never told.
Die ==
  /\ deaths < MaxDeaths /\ deaths' = deaths + 1 /\ ByOwner /\ OnRelease
  /\ \/ /\ ~Free /\ busy' = [work |-> "free", asset |-> Nothing]
        /\ UNCHANGED recorded
     \/ /\ recorded = "due" /\ recorded' = "no" /\ UNCHANGED busy
  /\ UNCHANGED <<release, rows, files, export, requests>>

\* export_release takes no lock: it reads the release for the manifest, and then the
\* assets again, verifies them, and packs them.
BeginExport ==
  /\ release.state # "none" /\ export.at = "none"
  /\ export' = [at |-> "told", told |-> rows, packed |-> {}, published |-> release.state = "published"]
  /\ UNCHANGED <<topicVars, boardVars, release, rows, files, busy, recorded, accessVars, bounds>>

PackExport ==
  /\ export.at = "told" /\ rows \subseteq files
  /\ export' = [export EXCEPT !.at = "packed", !.packed = rows]
  /\ UNCHANGED <<topicVars, boardVars, release, rows, files, busy, recorded, accessVars, bounds>>

\* It was sent, or an asset was missing.
EndExport ==
  /\ export.at = "packed" \/ (export.at = "told" /\ ~(rows \subseteq files))
  /\ export' = NoExport
  /\ UNCHANGED <<topicVars, boardVars, release, rows, files, busy, recorded, accessVars, bounds>>

---------------------------------------------------------------------------
(* The system.                                                             *)

Discussing ==
  \/ \E actor \in Actors, text \in Texts : CreateTopic(actor, text)
  \/ \E actor \in Actors, c \in Comments : AddComment(actor, c)
  \/ \E c \in Comments : ModerateComment(c)
  \/ \E s \in Screens : Load(s) \/ Update(s)
  \/ DeleteTopic \/ CreateMilestone \/ DeleteMilestone

Boarding ==
  \/ \E view, move \in BOOLEAN : UpdateBoard(view, move)
  \/ \E k \in Cards, col \in Columns : AddCard(k, col)
  \/ Move

Releasing ==
  \/ CreateRelease \/ UpdateRelease \/ CommitAsset \/ AssetFails
  \/ Publish \/ RecordPublication \/ BeginCleaning \/ CommitCleaning
  \/ \E a \in Assets : WriteAsset(a) \/ CleanFile(a)
  \/ BeginExport \/ PackExport \/ EndExport \/ Die

Next ==
  \/ Discussing \/ Boarding \/ Releasing
  \/ \E kind \in {"topic", "comment", "move"} : Admit(kind)
  \/ Revoke \/ LedgerChanges

Spec == Init /\ [][Next]_vars

---------------------------------------------------------------------------
(* Properties.                                                             *)

\* The owner never changes a discussion over what his window has not shown him: a
\* comment, a moderation, another window's update or the end of its milestone since
\* he loaded it is a version that his request does not have (update_topic refuses),
\* also when it came between the two parts that he loaded.
NoLostUpdate == [][topic' # topic => \A s \in Screens : Update(s) => seen[s].shown = Shown]_vars

\* j comes right before k in the column of k.
Adjacent(j, k) ==
  /\ card[j].column = card[k].column /\ Precedes(j, k)
  /\ \A i \in InColumn(card[k].column) \ {j, k} : Precedes(i, j) \/ Precedes(k, i)

\* A card that is moved is shown right before the card it was dropped on, or last in
\* the column, whatever additions and moves made the ranks (_move_card looks at the
\* ranks of two cards, and get_board sorts them).  It needs ranks that can be halved.
MovesLand ==
  [][card' # card =>
     \A actor \in Actors, k \in Cards, col \in Columns, before \in Cards \cup {Nothing} :
       MoveCard(actor, k, col, before) /\ before # k =>
         /\ before # Nothing => Adjacent(k, before)'
         /\ before = Nothing => (\A j \in InColumn(col) \ {k} : Precedes(j, k))']_vars

\* A published release has the files of all its assets, whatever was added, cleaned
\* or cut short when it was a draft, and an export of it packs what its manifest
\* tells (publish verifies, and export_release reads the release and the rows apart).
PublishedStays ==
  /\ release.state = "published" => rows \subseteq files
  /\ export.at = "packed" /\ export.published => export.packed = export.told

\* Not so: an answer that was accepted can be read.  Hiding a comment keeps it as
\* the accepted answer, and no update passes until the answer is taken away.
AcceptedIsVisible == There /\ topic.accepted # Nothing => comment[topic.accepted] = "shown"

\* Not so: when the invitation is gone, its contributor changes nothing more.
RevokedStaysOut ==
  [][~permitted => \A c \in Comments : ~AddComment("contributor", c)]_vars

\* Not so: a release that is published will be in the ledger.
PublicationsAreRecorded == release.state = "published" => recorded # "no"

\* Not so for drafts: an export packs what its manifest tells.
ExportsAgree == export.at = "packed" => export.packed = export.told

=============================================================================
