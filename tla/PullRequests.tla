------------------------------ MODULE PullRequests ------------------------------
(***************************************************************************)
(* A pull request of collaboration.py and its conversation in              *)
(* review_conversations.py: the contributor's staged files, the submitted  *)
(* revisions, kept for good on disk, the threads that block an approval,   *)
(* the review, and the end.  ConflictResolution adds the owner's decisions *)
(* and the merge, and composes them.                                       *)
(*                                                                         *)
(* One lock of the process admits one request at a time, and a request is  *)
(* one transaction of the database: it commits whole or not at all.  What  *)
(* a request did to files before the transaction failed stays, and so it   *)
(* does when the process dies there: every handler that touches a file has *)
(* the outcome Fails.  A request that shows an old revision or an old      *)
(* version of a thread is refused and changes nothing: requests here show  *)
(* the current one.  A digest is the bytes.                                *)
(***************************************************************************)
EXTENDS Naturals, FiniteSets

CONSTANTS
    Paths,        \* of the repository and of the pull request
    Contents,     \* the bytes of a file
    Absent,       \* there is no such file
    Same,         \* the pull request does not touch the path
    Threads,      \* the review threads that may be opened
    MaxRevision,  \* bound: the revision of the pull request
    MaxVersion,   \* bound: the version of a thread
    MaxFaults     \* bound: requests that fail or die after they touched a file

ASSUME Parameters ==
  /\ Absent \notin Contents /\ Same \notin Contents \cup {Absent}
  /\ MaxRevision \in Nat \ {0} /\ {MaxVersion, MaxFaults} \subseteq Nat

VARIABLES
    pr,        \* the row of the pull request: its status and its revision
    base,      \* the baseline manifest it was opened on
    change,    \* its rows of files (bytes) and of deletions (Absent)
    staged,    \* the files of its quarantine
    revisions, \* the rows of the submitted revisions, with their manifests
    evidence,  \* the directories of the submitted revisions
    threads,   \* the review threads
    invited,   \* the invitation is neither revoked nor expired
    tree,      \* the files of the repository
    writable,  \* its effective access mode
    faults

requestVars == <<pr, base, change, staged, invited>>
reviewVars  == <<revisions, evidence, threads>>
ownerVars   == <<tree, writable>>

Files      == Contents \cup {Absent}
Statuses   == {"none", "draft", "open", "approved", "changes_requested", "merged", "closed"}
Untouched  == [p \in Paths |-> Same]
Unstaged   == [p \in Paths |-> Absent]
NoThread   == [revision |-> 0, open |-> FALSE, version |-> 0]
NoRevision == [r \in {} |-> Untouched]

ThreadRows == [revision : 0..MaxRevision, open : BOOLEAN, version : 0..MaxVersion]
Manifests  == [Paths -> Files \cup {Same}]

PullRequestTypeOK ==
  /\ pr \in [status : Statuses, revision : 1..MaxRevision]
  /\ base \in [Paths -> Files] /\ tree \in [Paths -> Files] /\ staged \in [Paths -> Files]
  /\ change \in Manifests
  /\ DOMAIN revisions \subseteq 1..MaxRevision /\ \A r \in DOMAIN revisions : revisions[r] \in Manifests
  /\ DOMAIN evidence \subseteq 1..MaxRevision /\ \A r \in DOMAIN evidence : evidence[r] \in Manifests
  /\ threads \in [Threads -> ThreadRows]
  /\ invited \in BOOLEAN /\ writable \in BOOLEAN /\ faults \in 0..MaxFaults

PullRequestInit ==
  /\ pr = [status |-> "none", revision |-> 1]
  /\ base = Unstaged /\ change = Untouched /\ staged = Unstaged
  /\ revisions = NoRevision /\ evidence = NoRevision
  /\ threads = [t \in Threads |-> NoThread]
  /\ invited = TRUE /\ writable \in BOOLEAN
  /\ tree \in [Paths -> Files] /\ faults = 0

---------------------------------------------------------------------------
(* Where the pull request stands.                                          *)

\* A pull request that the owner may review.  The status conflict of the
\* source is written by a transaction that always rolls back.
IsReviewable(status) == status \in {"open", "approved", "changes_requested", "conflict"}
Terminal   == pr.status \in {"merged", "closed"}
Editable   == pr.status \in {"draft", "changes_requested"} /\ invited
Changed    == {p \in Paths : change[p] # Same}
FileRows   == {p \in Paths : change[p] \in Contents}

\* The paths that the repository changed since the baseline.
Conflicts  == {p \in Changed : tree[p] # base[p]}

OnRevision(t) == threads[t].revision = pr.revision
Unresolved    == {t \in Threads : OnRevision(t) /\ threads[t].open}

\* A request commits, or it fails or dies once it has touched its files.
Commits == UNCHANGED faults
Fails   == faults < MaxFaults /\ faults' = faults + 1

Without(f, r) == [x \in DOMAIN f \ {r} |-> f[x]]
With(f, r, v) == [x \in DOMAIN f \cup {r} |-> IF x = r THEN v ELSE f[x]]

---------------------------------------------------------------------------
(* The contributor.                                                        *)

Edited == [status |-> "draft", revision |-> pr.revision + 1]

CreatePullRequest ==
  /\ pr.status = "none" /\ invited
  /\ pr' = [pr EXCEPT !.status = "draft"]
  /\ base' = tree
  /\ UNCHANGED <<change, staged, invited, reviewVars, ownerVars, faults>>

\* The bytes are staged first.  Bytes that equal the baseline are no change.
UploadAs(p, c) ==
  LET isBase == base[p] = c IN
  /\ Editable /\ pr.revision < MaxRevision
  /\ \/ /\ Commits
        /\ pr' = Edited
        /\ change' = [change EXCEPT ![p] = IF isBase THEN Same ELSE c]
        /\ staged' = [staged EXCEPT ![p] = IF isBase THEN Absent ELSE c]
     \/ /\ Fails
        /\ \E left \in IF isBase THEN {c, Absent} ELSE {c} : staged' = [staged EXCEPT ![p] = left]
        /\ UNCHANGED <<pr, change>>
  /\ UNCHANGED <<base, invited, reviewVars, ownerVars>>

Upload == \E p \in Paths, c \in Contents : UploadAs(p, c)

\* The request to delete a file of the baseline.
AddDeletionOf(p) ==
  /\ Editable /\ pr.revision < MaxRevision
  /\ base[p] # Absent
  /\ staged' = [staged EXCEPT ![p] = Absent]
  /\ \/ /\ Commits
        /\ pr' = Edited
        /\ change' = [change EXCEPT ![p] = Absent]
     \/ Fails /\ UNCHANGED <<pr, change>>
  /\ UNCHANGED <<base, invited, reviewVars, ownerVars>>

AddDeletion == \E p \in Paths : AddDeletionOf(p)

\* Variant: the staged files are taken as they are.
StagedUnread == TRUE

\* The staged files are those that the rows tell of.
StagedAsRecorded == \A p \in FileRows : staged[p] = change[p]

Captured == [p \in Paths |-> IF p \in FileRows THEN staged[p] ELSE change[p]]

\* The copies are verified, moved to the place of the next revision, and
\* recorded.  A refusal clears that place: no row knows a directory there.
Submit ==
  LET next == pr.revision + 1 IN
  /\ pr.status = "draft" /\ invited /\ pr.revision < MaxRevision
  /\ Changed # {}
  /\ IF StagedAsRecorded /\ next \notin DOMAIN evidence
     THEN /\ evidence' = With(evidence, next, Captured)
          /\ \/ /\ Commits
                /\ revisions' = With(revisions, next, change)
                /\ pr' = [status |-> "open", revision |-> next]
             \/ Fails /\ UNCHANGED <<revisions, pr>>
     ELSE /\ evidence' = Without(evidence, next)
          /\ UNCHANGED <<revisions, pr, faults>>
  /\ UNCHANGED <<base, change, staged, threads, invited, ownerVars>>

EndInvitation ==
  /\ Editable /\ invited' = FALSE
  /\ UNCHANGED <<pr, base, change, staged, reviewVars, ownerVars, faults>>

---------------------------------------------------------------------------
(* The conversation.  Both sides open threads and reply; the owner         *)
(* resolves, reopens, and may request changes with a thread.               *)

\* An approval does not outlive a thread on its revision.
OpenThreadOn(t, requestChanges) ==
  /\ IsReviewable(pr.status)
  /\ threads[t] = NoThread /\ MaxVersion > 0
  /\ threads' = [threads EXCEPT ![t] = [revision |-> pr.revision, open |-> TRUE, version |-> 1]]
  /\ pr' = [pr EXCEPT !.status =
              IF requestChanges THEN "changes_requested"
              ELSE IF pr.status = "approved" THEN "open" ELSE pr.status]
  /\ UNCHANGED <<base, change, staged, invited, revisions, evidence, ownerVars, faults>>

OpenThread == \E t \in Threads, requestChanges \in BOOLEAN : OpenThreadOn(t, requestChanges)

CanWriteTo(t) == ~Terminal /\ threads[t].revision > 0 /\ threads[t].version < MaxVersion

ReplyTo(t) ==
  /\ CanWriteTo(t) /\ threads[t].open
  /\ threads' = [threads EXCEPT ![t].version = @ + 1]
  /\ UNCHANGED <<requestVars, revisions, evidence, ownerVars, faults>>

Reply == \E t \in Threads : ReplyTo(t)

ResolveThread(t) ==
  /\ CanWriteTo(t) /\ threads[t].open
  /\ threads' = [threads EXCEPT ![t].version = @ + 1, ![t].open = FALSE]
  /\ UNCHANGED <<requestVars, revisions, evidence, ownerVars, faults>>

\* Variant: an approval stays.
ReopenThreadOnly(t) ==
  /\ CanWriteTo(t) /\ ~threads[t].open
  /\ threads' = [threads EXCEPT ![t].version = @ + 1, ![t].open = TRUE]
  /\ UNCHANGED <<requestVars, revisions, evidence, ownerVars, faults>>

ReopenThread(t) ==
  /\ CanWriteTo(t) /\ ~threads[t].open
  /\ threads' = [threads EXCEPT ![t].version = @ + 1, ![t].open = TRUE]
  /\ pr' = [pr EXCEPT !.status = IF OnRevision(t) /\ pr.status = "approved" THEN "open" ELSE @]
  /\ UNCHANGED <<base, change, staged, invited, revisions, evidence, ownerVars, faults>>

SetResolution == \E t \in Threads : ResolveThread(t) \/ ReopenThread(t)

---------------------------------------------------------------------------
(* The owner's review, and the end.                                        *)

\* resolved: the conflicts that have a confirmed resolution that is current.
Approve(resolved) ==
  /\ IsReviewable(pr.status)
  /\ Unresolved = {}
  /\ Conflicts \subseteq resolved
  /\ pr' = [pr EXCEPT !.status = "approved"]
  /\ UNCHANGED <<base, change, staged, invited, reviewVars, ownerVars, faults>>

RequestChanges ==
  /\ IsReviewable(pr.status)
  /\ pr' = [pr EXCEPT !.status = "changes_requested"]
  /\ UNCHANGED <<base, change, staged, invited, reviewVars, ownerVars, faults>>

\* The quarantine goes after the commit; a start does what was left of it.
Purged ==
  \/ Commits /\ staged' = Unstaged
  \/ Fails /\ UNCHANGED staged

Close ==
  /\ pr.status \notin {"none", "merged"}
  /\ pr' = [pr EXCEPT !.status = "closed"]
  /\ Purged
  /\ UNCHANGED <<base, change, invited, reviewVars, ownerVars>>

\* Work of the owner on the repository, and its access mode.  What is done
\* before the pull request or after its end touches nothing here.
Ongoing == pr.status # "none" /\ ~Terminal

OwnerWrites ==
  /\ Ongoing /\ writable
  /\ \E p \in Paths, c \in Files : c # tree[p] /\ tree' = [tree EXCEPT ![p] = c]
  /\ UNCHANGED <<requestVars, reviewVars, writable, faults>>

SwitchMode ==
  /\ Ongoing
  /\ writable' = ~writable
  /\ UNCHANGED <<requestVars, reviewVars, tree, faults>>

\* The directories of revisions that have a row.
Known(rows) == [r \in DOMAIN evidence \cap DOMAIN rows |-> evidence[r]]

\* A start, after a stop or a death: old terminal pull requests lose their
\* review, ended ones their quarantine, and directories without a row go.
Restart(old) ==
  /\ old => Terminal
  /\ staged' = IF Terminal THEN Unstaged ELSE staged
  /\ revisions' = IF old THEN NoRevision ELSE revisions
  /\ threads' = IF old THEN [t \in Threads |-> NoThread] ELSE threads
  /\ evidence' = Known(revisions')
  /\ UNCHANGED <<pr, base, change, invited, ownerVars, faults>>

=============================================================================
