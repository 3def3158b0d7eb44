----------------------- MODULE ConflictResolution_proofs -----------------------
(***************************************************************************)
(* What the owner and the contributor of a pull request rely on, for any   *)
(* paths, contents and threads, any number of revisions, merges and        *)
(* requests that fail or die after they touched a file.                    *)
(***************************************************************************)
EXTENDS ConflictResolution, TLAPS

---------------------------------------------------------------------------
(* The inductive invariant.                                                *)

\* The revision of the pull request only grows: the next one has no row yet.
RevisionsAreOld == DOMAIN revisions \subseteq 1..pr.revision

\* No thread is on a revision to come, and an open one has been written to.
ThreadsAreOld ==
  \A t \in Threads :
    /\ threads[t].revision <= pr.revision
    /\ threads[t].open => threads[t].version > 0

\* What a pull request and its conversation keep, whatever becomes of drafts.
RequestInv ==
  /\ PullRequestTypeOK
  /\ RevisionsAreOld /\ SubmissionsAreKept
  /\ ThreadsAreOld /\ ApprovalsAreClean

\* Only a decision is confirmed.
ConfirmedIsDecided == \A p \in Paths : draft[p].status = "confirmed" => draft[p].result # Undecided

DraftsInv ==
  /\ draft \in [Paths -> Drafts]
  /\ resolved \in [Paths -> Files]
  /\ merges \in 0..MaxMerges
  /\ ConfirmedIsDecided

IInv == RequestInv /\ DraftsInv

---------------------------------------------------------------------------
(* The steps of the pull request.                                          *)

\* A pull request that nobody reviews changes status, bytes or revision but
\* not what was submitted: no revision is under review, and none is approved.
LEMMA NotUnderReview ==
  ASSUME RequestInv, PullRequestTypeOK', pr'.status \notin {"open", "approved", "changes_requested", "merged"},
         pr'.revision >= pr.revision, UNCHANGED reviewVars
  PROVE  RequestInv'
<1>1. RevisionsAreOld'
  BY DEF RequestInv, RevisionsAreOld, PullRequestTypeOK, reviewVars
<1>2. ThreadsAreOld'
  BY DEF RequestInv, ThreadsAreOld, PullRequestTypeOK, reviewVars, ThreadRows
<1>3. SubmissionsAreKept'
  <2>1. ~IsReviewable(pr'.status)
    BY DEF PullRequestTypeOK, Statuses, IsReviewable
  <2> QED BY <2>1 DEF RequestInv, SubmissionsAreKept, reviewVars
<1>4. ApprovalsAreClean'
  BY DEF ApprovalsAreClean
<1> QED BY <1>1, <1>2, <1>3, <1>4 DEF RequestInv

LEMMA CreateKeeps == ASSUME RequestInv, CreatePullRequest PROVE RequestInv'
<1> USE DEF CreatePullRequest, ownerVars
<1>1. PullRequestTypeOK'
  BY DEF RequestInv, PullRequestTypeOK, Statuses, reviewVars
<1>2. pr'.status = "draft" /\ pr'.revision = pr.revision
  BY DEF RequestInv, PullRequestTypeOK
<1> QED BY <1>1, <1>2, NotUnderReview DEF RequestInv, PullRequestTypeOK

\* What is under review stays as it is, and so does the conversation.
LEMMA ReviewStays ==
  ASSUME RequestInv, PullRequestTypeOK', UNCHANGED <<pr, change, reviewVars>>
  PROVE  RequestInv'
BY DEF RequestInv, RevisionsAreOld, SubmissionsAreKept, ThreadsAreOld, ApprovalsAreClean, Unresolved,
  OnRevision, reviewVars

LEMMA UploadKeeps == ASSUME RequestInv, Upload PROVE RequestInv'
<1>1. PICK p \in Paths, c \in Contents : UploadAs(p, c)
  BY DEF Upload
<1> USE DEF UploadAs
<1>2. /\ pr.status \in {"draft", "changes_requested"}
      /\ pr.revision < MaxRevision
      /\ UNCHANGED <<base, invited, reviewVars, tree, writable>>
  BY <1>1 DEF Editable, ownerVars
<1>3. CASE Commits /\ pr' = Edited
  <2>1. PullRequestTypeOK'
    BY <1>1, <1>2, <1>3, Parameters
       DEF RequestInv, PullRequestTypeOK, Commits, Edited, Statuses, Files, Manifests, reviewVars, Fails
  <2> QED BY <1>2, <1>3, <2>1, NotUnderReview DEF Edited, RequestInv, PullRequestTypeOK
<1>4. CASE Fails /\ UNCHANGED <<pr, change>>
  <2>1. PICK left \in {c, Absent} : staged' = [staged EXCEPT ![p] = left]
    BY <1>1, <1>4 DEF Commits, Fails, RequestInv, PullRequestTypeOK
  <2>2. PullRequestTypeOK'
    BY <1>2, <1>4, <2>1, Parameters DEF RequestInv, PullRequestTypeOK, Fails, Files, reviewVars
  <2> QED BY <1>2, <1>4, <2>2, ReviewStays
<1> QED BY <1>1, <1>3, <1>4

LEMMA AddDeletionKeeps == ASSUME RequestInv, AddDeletion PROVE RequestInv'
<1>1. PICK p \in Paths : AddDeletionOf(p)
  BY DEF AddDeletion
<1> USE DEF AddDeletionOf
<1>2. /\ pr.status \in {"draft", "changes_requested"}
      /\ pr.revision < MaxRevision
      /\ staged' \in [Paths -> Files]
      /\ UNCHANGED <<base, invited, reviewVars, tree, writable>>
  BY <1>1 DEF Editable, ownerVars, RequestInv, PullRequestTypeOK, Files
<1>3. CASE Commits /\ pr' = Edited /\ change' = [change EXCEPT ![p] = Absent]
  <2>1. PullRequestTypeOK'
    BY <1>2, <1>3, Parameters
       DEF RequestInv, PullRequestTypeOK, Commits, Edited, Statuses, Files, Manifests, reviewVars
  <2> QED BY <1>2, <1>3, <2>1, NotUnderReview DEF Edited, RequestInv, PullRequestTypeOK
<1>4. CASE Fails /\ UNCHANGED <<pr, change>>
  <2>1. PullRequestTypeOK'
    BY <1>2, <1>4, Parameters DEF RequestInv, PullRequestTypeOK, Fails, reviewVars
  <2> QED BY <1>2, <1>4, <2>1, ReviewStays
<1> QED BY <1>1, <1>3, <1>4

\* A submission that is verified records what its contributor has changed: the
\* copies are the bytes that the rows tell of.
LEMMA CapturedIsChange ==
  ASSUME PullRequestTypeOK, StagedAsRecorded
  PROVE  Captured = change /\ Captured \in Manifests
BY DEF PullRequestTypeOK, StagedAsRecorded, Captured, FileRows, Manifests

LEMMA SubmitKeeps == ASSUME RequestInv, Submit PROVE RequestInv'
<1> DEFINE next == pr.revision + 1
<1> DEFINE copied == With(evidence, next, Captured)
<1> DEFINE cleared == Without(evidence, next)
<1>1. /\ pr.status = "draft" /\ next \in 1..MaxRevision /\ pr.revision \in Nat /\ next > pr.revision
      /\ next \notin DOMAIN revisions
      /\ UNCHANGED <<base, change, staged, threads, invited, tree, writable>>
  BY Parameters DEF Submit, ownerVars, RequestInv, RevisionsAreOld, PullRequestTypeOK
<1>2. /\ DOMAIN copied = DOMAIN evidence \cup {next} /\ copied[next] = Captured
      /\ \A r \in DOMAIN evidence \ {next} : copied[r] = evidence[r]
      /\ DOMAIN cleared = DOMAIN evidence \ {next}
      /\ \A r \in DOMAIN evidence \ {next} : cleared[r] = evidence[r]
  BY DEF With, Without
<1>3. \/ /\ StagedAsRecorded /\ next \notin DOMAIN evidence
         /\ evidence' = copied /\ UNCHANGED faults
         /\ revisions' = With(revisions, next, change)
         /\ pr' = [status |-> "open", revision |-> next]
      \/ /\ StagedAsRecorded
         /\ evidence' = copied /\ Fails /\ UNCHANGED <<revisions, pr>>
      \/ evidence' = cleared /\ UNCHANGED <<revisions, pr, faults>>
  BY DEF Submit, Commits
<1> HIDE DEF copied, cleared, next
<1>4. CASE /\ StagedAsRecorded /\ next \notin DOMAIN evidence
           /\ evidence' = copied /\ UNCHANGED faults
           /\ revisions' = With(revisions, next, change)
           /\ pr' = [status |-> "open", revision |-> next]
  <2> DEFINE recorded == With(revisions, next, change)
  <2>1. /\ DOMAIN recorded = DOMAIN revisions \cup {next} /\ recorded[next] = change
        /\ \A r \in DOMAIN revisions : recorded[r] = revisions[r]
    BY <1>1 DEF With
  <2>2. revisions' = recorded
    BY <1>4
  <2> HIDE DEF recorded
  <2>3. PullRequestTypeOK'
    BY <1>1, <1>2, <1>4, <2>1, <2>2, CapturedIsChange DEF RequestInv, PullRequestTypeOK, Statuses
  <2>4. RevisionsAreOld'
    BY <1>1, <1>4, <2>1, <2>2 DEF RequestInv, PullRequestTypeOK, RevisionsAreOld
  <2>5. SubmissionsAreKept'
    BY <1>1, <1>2, <1>4, <2>1, <2>2, CapturedIsChange DEF RequestInv, SubmissionsAreKept
  <2>6. ThreadsAreOld'
    BY <1>1, <1>4 DEF RequestInv, ThreadsAreOld, PullRequestTypeOK, ThreadRows
  <2>7. ApprovalsAreClean'
    BY <1>4 DEF ApprovalsAreClean
  <2> QED BY <2>3, <2>4, <2>5, <2>6, <2>7 DEF RequestInv
<1>5. CASE /\ UNCHANGED <<revisions, pr>>
           /\ \/ evidence' = copied /\ StagedAsRecorded /\ Fails
              \/ evidence' = cleared /\ UNCHANGED faults
  <2>1. PullRequestTypeOK'
    BY <1>1, <1>2, <1>5, Parameters, CapturedIsChange DEF RequestInv, PullRequestTypeOK, Fails
  <2>2. SubmissionsAreKept'
    BY <1>1, <1>2, <1>5 DEF RequestInv, SubmissionsAreKept, IsReviewable
  <2>3. RevisionsAreOld' /\ ThreadsAreOld'
    BY <1>1, <1>5 DEF RequestInv, RevisionsAreOld, ThreadsAreOld
  <2>4. ApprovalsAreClean'
    BY <1>1, <1>5 DEF ApprovalsAreClean
  <2> QED BY <2>1, <2>2, <2>3, <2>4 DEF RequestInv
<1> QED BY <1>3, <1>4, <1>5

LEMMA EndInvitationKeeps == ASSUME RequestInv, EndInvitation PROVE RequestInv'
<1>1. PullRequestTypeOK'
  BY DEF EndInvitation, ownerVars, reviewVars, RequestInv, PullRequestTypeOK
<1> QED BY <1>1, ReviewStays DEF EndInvitation

---------------------------------------------------------------------------
(* The steps of the conversation.                                          *)

LEMMA OpenThreadKeeps == ASSUME RequestInv, OpenThread PROVE RequestInv'
<1>1. PICK t \in Threads, requestChanges \in BOOLEAN : OpenThreadOn(t, requestChanges)
  BY DEF OpenThread
<1> USE DEF OpenThreadOn
<1>2. /\ IsReviewable(pr.status) /\ IsReviewable(pr'.status)
      /\ pr' \in [status : Statuses, revision : 1..MaxRevision]
      /\ pr'.status # "merged" /\ pr'.status # "approved"
      /\ pr'.revision = pr.revision
      /\ UNCHANGED <<base, change, staged, invited, revisions, evidence, tree, writable, faults>>
  BY <1>1 DEF RequestInv, PullRequestTypeOK, Statuses, IsReviewable, ownerVars
<1>3. [revision |-> pr.revision, open |-> TRUE, version |-> 1] \in ThreadRows
  BY <1>1, Parameters DEF ThreadRows, RequestInv, PullRequestTypeOK
<1>4. PullRequestTypeOK'
  BY <1>1, <1>2, <1>3 DEF RequestInv, PullRequestTypeOK
<1>5. RevisionsAreOld' /\ SubmissionsAreKept'
  BY <1>2 DEF RequestInv, RevisionsAreOld, SubmissionsAreKept
<1>6. ThreadsAreOld'
  BY <1>1, <1>2 DEF RequestInv, ThreadsAreOld, PullRequestTypeOK
<1>7. ApprovalsAreClean'
  BY <1>2 DEF ApprovalsAreClean
<1> QED BY <1>4, <1>5, <1>6, <1>7 DEF RequestInv

\* A reply, a resolution or a reopening: the thread's version grows.
LEMMA ThreadWritten ==
  ASSUME RequestInv, NEW t \in Threads, NEW open \in BOOLEAN, CanWriteTo(t),
         threads' = [threads EXCEPT ![t] = [revision |-> threads[t].revision, open |-> open,
                                            version |-> threads[t].version + 1]],
         pr' \in [status : Statuses, revision : 1..MaxRevision],
         pr'.revision = pr.revision,
         pr' = pr \/ (pr.status = "approved" /\ pr'.status = "open"),
         open => threads[t].open \/ ~OnRevision(t) \/ pr'.status # "approved",
         UNCHANGED <<base, change, staged, invited, revisions, evidence, ownerVars, faults>>
  PROVE  RequestInv'
<1>1. [revision |-> threads[t].revision, open |-> open, version |-> threads[t].version + 1] \in ThreadRows
  BY Parameters DEF CanWriteTo, RequestInv, PullRequestTypeOK, ThreadRows
<1>2. PullRequestTypeOK'
  BY <1>1 DEF RequestInv, PullRequestTypeOK, ownerVars
<1>3. RevisionsAreOld'
  BY DEF RequestInv, RevisionsAreOld
<1>4. SubmissionsAreKept'
  BY DEF RequestInv, SubmissionsAreKept, IsReviewable
<1>5. ThreadsAreOld'
  BY DEF RequestInv, ThreadsAreOld, PullRequestTypeOK, ThreadRows
<1>6. ApprovalsAreClean'
  <2> SUFFICES ASSUME pr'.status \in {"approved", "merged"}, NEW u \in Threads,
                      OnRevision(u)', threads'[u].open
               PROVE  FALSE
    BY DEF ApprovalsAreClean, Unresolved
  <2>1. pr' = pr /\ pr.status = "approved" /\ Unresolved = {}
    BY DEF CanWriteTo, Terminal, RequestInv, ApprovalsAreClean
  <2>2. OnRevision(u) /\ (u = t \/ threads[u].open)
    BY <2>1 DEF OnRevision, RequestInv, PullRequestTypeOK
  <2> QED BY <2>1, <2>2 DEF Unresolved, RequestInv, PullRequestTypeOK
<1> QED BY <1>2, <1>3, <1>4, <1>5, <1>6 DEF RequestInv

LEMMA ReplyKeeps == ASSUME RequestInv, Reply PROVE RequestInv'
<1>1. PICK t \in Threads : ReplyTo(t)
  BY DEF Reply
<1>2. PICK row \in ThreadRows : row = threads[t]
  BY DEF RequestInv, PullRequestTypeOK
<1>3. PICK open \in BOOLEAN : open = row.open
  BY DEF ThreadRows
<1>4. [row EXCEPT !.version = row.version + 1]
        = [revision |-> row.revision, open |-> open, version |-> row.version + 1]
  BY <1>3 DEF ThreadRows
<1>5. threads' = [threads EXCEPT ![t] = [revision |-> threads[t].revision, open |-> open,
                                         version |-> threads[t].version + 1]]
  BY <1>1, <1>2, <1>4 DEF ReplyTo
<1>6. UNCHANGED <<pr, base, change, staged, invited, revisions, evidence, ownerVars, faults>>
  BY <1>1 DEF ReplyTo, requestVars
<1>7. open => threads[t].open
  BY <1>2, <1>3
<1> QED BY <1>1, <1>5, <1>6, <1>7, ThreadWritten DEF ReplyTo, RequestInv, PullRequestTypeOK

LEMMA SetResolutionKeeps == ASSUME RequestInv, SetResolution PROVE RequestInv'
<1>1. PICK t \in Threads : ResolveThread(t) \/ ReopenThread(t)
  BY DEF SetResolution
<1>2. CASE ResolveThread(t)
  <2>1. threads' = [threads EXCEPT ![t] = [revision |-> threads[t].revision, open |-> FALSE,
                                           version |-> threads[t].version + 1]]
    BY <1>2 DEF ResolveThread, RequestInv, PullRequestTypeOK, ThreadRows
  <2> QED BY <1>2, <2>1, ThreadWritten DEF ResolveThread, requestVars, RequestInv, PullRequestTypeOK
<1>3. CASE ReopenThread(t)
  <2>1. threads' = [threads EXCEPT ![t] = [revision |-> threads[t].revision, open |-> TRUE,
                                           version |-> threads[t].version + 1]]
    BY <1>3 DEF ReopenThread, RequestInv, PullRequestTypeOK, ThreadRows
  <2>2. /\ pr' \in [status : Statuses, revision : 1..MaxRevision] /\ pr'.revision = pr.revision
        /\ pr' = pr \/ (pr.status = "approved" /\ pr'.status = "open")
        /\ ~OnRevision(t) \/ pr'.status # "approved"
    <3>1. pr \in [status : Statuses, revision : 1..MaxRevision] /\ "open" \in Statuses
      BY DEF RequestInv, PullRequestTypeOK, Statuses
    <3>2. CASE OnRevision(t) /\ pr.status = "approved"
      BY <1>3, <3>1, <3>2 DEF ReopenThread
    <3>3. CASE ~(OnRevision(t) /\ pr.status = "approved")
      <4>1. pr' = pr
        BY <1>3, <3>1, <3>3 DEF ReopenThread
      <4> QED BY <3>1, <3>3, <4>1
    <3> QED BY <3>2, <3>3
  <2> QED BY <1>3, <2>1, <2>2, ThreadWritten DEF ReopenThread
<1> QED BY <1>1, <1>2, <1>3

---------------------------------------------------------------------------
(* The steps of the owner, the end and the start.                          *)

LEMMA ApproveKeeps ==
  ASSUME RequestInv, NEW P, Approve(P) PROVE RequestInv'
<1> USE DEF Approve
<1>1. /\ pr'.status = "approved" /\ pr'.revision = pr.revision
      /\ UNCHANGED <<change, revisions, evidence, threads>>
  BY DEF RequestInv, PullRequestTypeOK, reviewVars
<1>2. PullRequestTypeOK'
  BY DEF RequestInv, PullRequestTypeOK, Statuses, reviewVars, ownerVars
<1>3. RevisionsAreOld' /\ ThreadsAreOld' /\ SubmissionsAreKept'
  BY <1>1 DEF RequestInv, RevisionsAreOld, ThreadsAreOld, SubmissionsAreKept
<1>4. ApprovalsAreClean'
  BY <1>1 DEF ApprovalsAreClean, Unresolved, OnRevision
<1> QED BY <1>2, <1>3, <1>4 DEF RequestInv

LEMMA RequestChangesKeeps == ASSUME RequestInv, RequestChanges PROVE RequestInv'
<1> USE DEF RequestChanges
<1>1. /\ pr'.status = "changes_requested" /\ pr'.revision = pr.revision
      /\ UNCHANGED <<change, revisions, evidence, threads>>
  BY DEF RequestInv, PullRequestTypeOK, reviewVars
<1>2. PullRequestTypeOK'
  BY DEF RequestInv, PullRequestTypeOK, Statuses, reviewVars, ownerVars
<1>3. RevisionsAreOld' /\ ThreadsAreOld' /\ SubmissionsAreKept'
  BY <1>1 DEF RequestInv, RevisionsAreOld, ThreadsAreOld, SubmissionsAreKept
<1>4. ApprovalsAreClean'
  BY <1>1 DEF ApprovalsAreClean
<1> QED BY <1>2, <1>3, <1>4 DEF RequestInv

LEMMA CloseKeeps == ASSUME RequestInv, Close PROVE RequestInv'
<1> USE DEF Close
<1>1. pr'.status = "closed" /\ pr'.revision = pr.revision
  BY DEF RequestInv, PullRequestTypeOK
<1>2. PullRequestTypeOK'
  BY Parameters
     DEF RequestInv, PullRequestTypeOK, Statuses, reviewVars, ownerVars, Purged, Unstaged, Files, Commits, Fails
<1> QED BY <1>1, <1>2, NotUnderReview DEF RequestInv, PullRequestTypeOK

LEMMA OwnerKeeps == ASSUME RequestInv, OwnerWrites \/ SwitchMode PROVE RequestInv'
<1>1. UNCHANGED <<pr, base, change, staged, invited, revisions, evidence, threads, faults>>
  BY DEF OwnerWrites, SwitchMode, requestVars, reviewVars
<1>2. tree' \in [Paths -> Files] /\ writable' \in BOOLEAN
  BY DEF OwnerWrites, SwitchMode, RequestInv, PullRequestTypeOK
<1>3. PullRequestTypeOK'
  BY <1>1, <1>2 DEF RequestInv, PullRequestTypeOK
<1> QED BY <1>1, <1>3, ReviewStays DEF reviewVars

\* A start removes directories, but none that a row tells of, and rows of
\* pull requests that ended long ago.
LEMMA RestartKeeps ==
  ASSUME RequestInv, NEW old \in BOOLEAN, Restart(old) PROVE RequestInv'
<1> USE DEF Restart
<1>1. /\ UNCHANGED <<pr, base, change, invited, tree, writable, faults>>
      /\ staged' \in [Paths -> Files]
      /\ evidence' = Known(revisions')
  BY DEF ownerVars, RequestInv, PullRequestTypeOK, Unstaged, Files
<1>2. /\ DOMAIN evidence' = DOMAIN evidence \cap DOMAIN revisions'
      /\ \A r \in DOMAIN evidence' : evidence'[r] = evidence[r]
  BY <1>1 DEF Known
<1>3. CASE old
  <2>1. Terminal /\ revisions' = NoRevision /\ threads' = [t \in Threads |-> NoThread]
    BY <1>3
  <2>2. DOMAIN revisions' = {} /\ threads' \in [Threads -> ThreadRows]
    <3>1. NoThread \in ThreadRows
      BY Parameters DEF NoThread, ThreadRows
    <3> QED BY <2>1, <3>1 DEF NoRevision
  <2>3. PullRequestTypeOK'
    BY <1>1, <1>2, <2>2 DEF RequestInv, PullRequestTypeOK
  <2>4. RevisionsAreOld' /\ SubmissionsAreKept'
    BY <1>1, <2>1, <2>2 DEF RevisionsAreOld, SubmissionsAreKept, Terminal, IsReviewable
  <2>5. ThreadsAreOld' /\ ApprovalsAreClean'
    BY <1>1, <2>1 DEF ThreadsAreOld, ApprovalsAreClean, Unresolved, NoThread, RequestInv, PullRequestTypeOK
  <2> QED BY <2>3, <2>4, <2>5 DEF RequestInv
<1>4. CASE ~old
  <2>1. UNCHANGED <<revisions, threads>>
    BY <1>4
  <2>2. PullRequestTypeOK'
    BY <1>1, <1>2, <2>1 DEF RequestInv, PullRequestTypeOK
  <2>3. SubmissionsAreKept'
    BY <1>1, <1>2, <2>1 DEF RequestInv, SubmissionsAreKept
  <2>4. RevisionsAreOld' /\ ThreadsAreOld' /\ ApprovalsAreClean'
    BY <1>1, <2>1 DEF RequestInv, RevisionsAreOld, ThreadsAreOld, ApprovalsAreClean, Unresolved, OnRevision
  <2> QED BY <2>2, <2>3, <2>4 DEF RequestInv
<1> QED BY <1>3, <1>4

---------------------------------------------------------------------------
(* The drafts.                                                             *)

LEMMA BindingTyped == ASSUME RequestInv PROVE Binding \in Bindings
<1>1. ASSUME NEW t \in Unresolved PROVE <<t, threads[t].version>> \in Threads \X (1..MaxVersion)
  BY <1>1, Parameters DEF Unresolved, RequestInv, PullRequestTypeOK, ThreadsAreOld, ThreadRows
<1>2. Gate \subseteq Threads \X (1..MaxVersion)
  BY <1>1 DEF Gate
<1> QED BY <1>2 DEF Binding, Bindings, RequestInv, PullRequestTypeOK

\* What a step of a draft has to keep.
LEMMA DraftsStay ==
  ASSUME DraftsInv,
         draft' \in [Paths -> Drafts], resolved' \in [Paths -> Files], merges' \in 0..MaxMerges,
         \A p \in Paths : draft'[p].status = "confirmed" => draft'[p].result # Undecided
  PROVE  DraftsInv'
BY DEF DraftsInv, ConfirmedIsDecided

LEMMA NoDraftTyped == NoDraft \in Drafts /\ NoDraft.status # "confirmed"
<1>1. NoDraft.binding \in Bindings
  BY DEF NoDraft, Bindings, Unstaged, Files
<1> QED BY <1>1 DEF NoDraft, Drafts

\* A draft that is marked keeps its decision and its binding.
LEMMA MarkedKeeps ==
  ASSUME DraftsInv, NEW P, NEW status
  PROVE  /\ Marked(P, status) \in [Paths -> Drafts]
         /\ \A p \in Paths : Marked(P, status)[p].status = "confirmed"
              => Marked(P, status)[p].result # Undecided
<1>1. ASSUME NEW p \in Paths
      PROVE  /\ Marked(P, status)[p] \in Drafts
             /\ Marked(P, status)[p].status = "confirmed" => Marked(P, status)[p].result # Undecided
  <2>1. draft[p] \in Drafts /\ (draft[p].status = "confirmed" => draft[p].result # Undecided)
    BY DEF DraftsInv, ConfirmedIsDecided
  <2>2. /\ [draft[p] EXCEPT !.status = "stale"] \in Drafts
        /\ [draft[p] EXCEPT !.status = "stale"].status = "stale"
    BY <2>1 DEF Drafts
  <2>3. Marked(P, status)[p] \in {draft[p], [draft[p] EXCEPT !.status = "stale"]}
    BY DEF Marked
  <2> QED BY <2>1, <2>2, <2>3
<1>2. Marked(P, status) = [p \in Paths |-> Marked(P, status)[p]]
  BY DEF Marked
<1> QED BY <1>1, <1>2

LEMMA ViewedKeeps ==
  ASSUME DraftsInv, NEW status, draft' = Viewed(status), UNCHANGED <<resolved, merges>>
  PROVE  DraftsInv'
<1>1. CASE draft' = draft
  BY <1>1 DEF DraftsInv, ConfirmedIsDecided
<1>2. CASE draft' = Marked(Conflicts, status)
  BY <1>2, MarkedKeeps, DraftsStay DEF DraftsInv
<1> QED BY <1>1, <1>2 DEF Viewed

LEMMA PrepareKeeps == ASSUME RequestInv, DraftsInv, Prepare PROVE DraftsInv'
<1> DEFINE new == {p \in Conflicts : ~IsFresh(p, pr.status)}
<1>1. /\ draft' = [p \in Paths |-> IF p \in new THEN NewDraft ELSE draft[p]]
      /\ resolved' = [p \in Paths |-> IF p \in new THEN Absent ELSE resolved[p]]
      /\ merges' = merges
  BY DEF Prepare
<1> HIDE DEF new
<1>2. NewDraft \in Drafts /\ NewDraft.status = "draft"
  BY BindingTyped DEF NewDraft, Drafts
<1>3. draft' \in [Paths -> Drafts] /\ resolved' \in [Paths -> Files]
  BY <1>1, <1>2 DEF DraftsInv, Files
<1>4. \A p \in Paths : draft'[p].status = "confirmed" => draft'[p].result # Undecided
  BY <1>1, <1>2 DEF DraftsInv, ConfirmedIsDecided
<1> QED BY <1>1, <1>3, <1>4, DraftsStay DEF DraftsInv

LEMMA SaveDecisionKeeps == ASSUME DraftsInv, SaveDecision PROVE DraftsInv'
<1>1. PICK p \in Paths, result \in Files : Decide(p, result)
  BY DEF SaveDecision
<1> USE DEF Decide
<1>2. CASE draft' = Marked({p}, pr.status) /\ UNCHANGED resolved
  BY <1>1, <1>2, MarkedKeeps, DraftsStay DEF DraftsInv
<1>3. CASE resolved' = [resolved EXCEPT ![p] = result] /\ UNCHANGED draft
  BY <1>1, <1>3 DEF DraftsInv, ConfirmedIsDecided
<1>4. CASE /\ resolved' = [resolved EXCEPT ![p] = result]
           /\ draft' = [draft EXCEPT ![p].result = result, ![p].status = "draft"]
  <2>1. PICK d \in Drafts : d = draft[p]
    BY DEF DraftsInv
  <2>2. draft' = [draft EXCEPT ![p] = [status |-> "draft", result |-> result, binding |-> d.binding]]
    <3>1. PICK e \in Drafts : e = [d EXCEPT !.result = result]
      BY DEF Drafts
    <3>2. e.result = result /\ e.binding = d.binding
      BY <3>1 DEF Drafts
    <3>3. [e EXCEPT !.status = "draft"] = [status |-> "draft", result |-> result, binding |-> d.binding]
      BY <3>2 DEF Drafts
    <3> QED BY <1>4, <2>1, <3>1, <3>3 DEF DraftsInv
  <2>3. [status |-> "draft", result |-> result, binding |-> d.binding] \in Drafts
    BY DEF Drafts
  <2>4. draft' \in [Paths -> Drafts] /\ resolved' \in [Paths -> Files]
    BY <1>4, <2>2, <2>3 DEF DraftsInv
  <2>5. \A q \in Paths : draft'[q].status = "confirmed" => draft'[q].result # Undecided
    BY <2>2 DEF DraftsInv, ConfirmedIsDecided
  <2> QED BY <1>1, <2>4, <2>5, DraftsStay DEF DraftsInv
<1> QED BY <1>1, <1>2, <1>3, <1>4

LEMMA ConfirmKeeps == ASSUME DraftsInv, Confirm PROVE DraftsInv'
<1>1. PICK p \in Paths : ConfirmOf(p)
  BY DEF Confirm
<1> USE DEF ConfirmOf
<1>2. CASE draft' = Marked({p}, pr.status)
  BY <1>1, <1>2, MarkedKeeps, DraftsStay DEF DraftsInv
<1>3. CASE draft' = [draft EXCEPT ![p].status = "confirmed"]
  <2>1. PICK d \in Drafts : d = draft[p] /\ d.result # Undecided
    BY <1>1 DEF DraftsInv
  <2>2. draft' = [draft EXCEPT ![p] = [status |-> "confirmed", result |-> d.result, binding |-> d.binding]]
    <3>1. [d EXCEPT !.status = "confirmed"]
            = [status |-> "confirmed", result |-> d.result, binding |-> d.binding]
      BY DEF Drafts
    <3> QED BY <1>3, <2>1, <3>1 DEF DraftsInv
  <2>3. [status |-> "confirmed", result |-> d.result, binding |-> d.binding] \in Drafts
    BY DEF Drafts
  <2>4. draft' \in [Paths -> Drafts]
    BY <2>2, <2>3 DEF DraftsInv
  <2>5. \A q \in Paths : draft'[q].status = "confirmed" => draft'[q].result # Undecided
    BY <2>1, <2>2 DEF DraftsInv, ConfirmedIsDecided
  <2> QED BY <1>1, <2>4, <2>5, DraftsStay DEF DraftsInv
<1> QED BY <1>1, <1>2, <1>3

---------------------------------------------------------------------------
(* The merge.                                                              *)

\* What a merge puts in place: the decision of each conflict, whose bytes are
\* checked, and for the rest the revision that was submitted and reviewed.
LEMMA PlannedIsDecided ==
  ASSUME IInv, Merge, NEW p \in Paths
  PROVE  /\ Planned(p) = IF p \in Conflicts THEN draft[p].result
                         ELSE IF p \in Changed THEN revisions[pr.revision][p] ELSE tree[p]
         /\ Planned(p) \in Files
<1> USE DEF IInv
<1>1. CASE p \in Conflicts
  <2>1. draft[p].status = "confirmed" /\ Intact(p)
    BY <1>1 DEF Merge, IsResolved
  <2>2. draft[p].result \in Files
    BY <2>1 DEF DraftsInv, ConfirmedIsDecided, Drafts
  <2> QED BY <1>1, <2>1, <2>2 DEF Planned, Intact, Files
<1>2. CASE p \in Changed \ Conflicts
  <2>1. /\ evidence[pr.revision] = revisions[pr.revision]
        /\ revisions[pr.revision] = change
    BY DEF Merge, RequestInv, SubmissionsAreKept, IsReviewable
  <2>2. change[p] \in Files
    BY <1>2 DEF Changed, RequestInv, PullRequestTypeOK, Manifests
  <2> QED BY <1>2, <2>1, <2>2 DEF Planned
<1>3. CASE p \notin Changed
  BY <1>3 DEF Planned, Conflicts, RequestInv, PullRequestTypeOK
<1> QED BY <1>1, <1>2, <1>3

\* A conflict is merged with a draft that was made from the bytes that are
\* there; any other path is as the contributor found it, or is left alone.
LEMMA OverwritesSeen ==
  ASSUME IInv, Merge, NEW p \in Paths, tree'[p] # tree[p]
  PROVE  tree[p] = base[p] \/ (HasDraft(p) /\ tree[p] = draft[p].binding.tree[p])
<1>1. tree'[p] = Planned(p)
  BY DEF Merge
<1>2. CASE p \in Conflicts
  <2>1. draft[p].status = "confirmed" /\ IsFresh(p, pr.status)
    BY <1>2 DEF Merge, IsResolved
  <2> QED BY <2>1 DEF IsFresh, Binding
<1>3. CASE p \in Changed \ Conflicts
  BY <1>3 DEF Conflicts
<1>4. CASE p \notin Changed
  BY <1>1, <1>4 DEF Planned, Conflicts
<1> QED BY <1>2, <1>3, <1>4

LEMMA MergeKeeps == ASSUME IInv, Merge PROVE IInv'
<1> USE DEF IInv
<1>1. tree' \in [Paths -> Files]
  BY PlannedIsDecided DEF Merge
<1>2. merges' \in 0..MaxMerges
  BY ResolutionParameters DEF Merge, DraftsInv
<1>3. UNCHANGED <<base, change, invited, revisions, evidence, threads, writable, resolved>>
  BY DEF Merge, reviewVars
<1>4. CASE Fails /\ UNCHANGED <<pr, draft, staged>>
  <2>1. PullRequestTypeOK'
    BY <1>1, <1>3, <1>4, Parameters DEF RequestInv, PullRequestTypeOK, Fails
  <2> QED BY <1>2, <1>3, <1>4, <2>1, ReviewStays DEF reviewVars, DraftsInv, ConfirmedIsDecided
<1>5. CASE Purged /\ pr' = [pr EXCEPT !.status = "merged"] /\ draft' = Applied
  <2>1. pr'.status = "merged" /\ pr'.revision = pr.revision
    BY <1>5 DEF RequestInv, PullRequestTypeOK
  <2>2. PullRequestTypeOK'
    BY <1>1, <1>3, <1>5, Parameters
       DEF RequestInv, PullRequestTypeOK, Statuses, Purged, Commits, Fails, Unstaged, Files
  <2>3. RevisionsAreOld' /\ ThreadsAreOld' /\ SubmissionsAreKept'
    BY <1>3, <2>1 DEF RequestInv, RevisionsAreOld, ThreadsAreOld, SubmissionsAreKept, IsReviewable
  <2>4. ApprovalsAreClean'
    BY <1>3, <2>1 DEF Merge, ApprovalsAreClean, Unresolved, OnRevision
  <2>5. ASSUME NEW p \in Paths
        PROVE  /\ [draft[p] EXCEPT !.status = "applied"] \in Drafts
               /\ [draft[p] EXCEPT !.status = "applied"].status = "applied"
    BY DEF DraftsInv, Drafts
  <2>6. draft' \in [Paths -> Drafts]
    BY <1>5, <2>5 DEF Applied, DraftsInv
  <2>7. \A p \in Paths : draft'[p].status = "confirmed" => draft'[p].result # Undecided
    BY <1>5, <2>5 DEF Applied, DraftsInv, ConfirmedIsDecided
  <2> QED BY <1>2, <1>3, <2>2, <2>3, <2>4, <2>6, <2>7, DraftsStay DEF RequestInv, DraftsInv
<1> QED BY <1>4, <1>5 DEF Merge

---------------------------------------------------------------------------
(* The specification.                                                      *)

LEMMA InvInit == Init => IInv
<1> SUFFICES ASSUME Init PROVE IInv
  OBVIOUS
<1> USE Parameters, ResolutionParameters DEF Init
<1>1. PullRequestTypeOK
  BY DEF PullRequestInit, PullRequestTypeOK, Statuses, Unstaged, Untouched, Files, Manifests,
    NoRevision, NoThread, ThreadRows
<1>2. RevisionsAreOld /\ SubmissionsAreKept /\ ThreadsAreOld /\ ApprovalsAreClean
  BY DEF PullRequestInit, NoRevision, NoThread, RevisionsAreOld, SubmissionsAreKept, ThreadsAreOld,
    ApprovalsAreClean, IsReviewable
<1>3. DraftsInv
  BY NoDraftTyped DEF DraftsInv, ConfirmedIsDecided, Unstaged, Files
<1> QED BY <1>1, <1>2, <1>3 DEF IInv, RequestInv

LEMMA DraftsUnchanged ==
  ASSUME DraftsInv, UNCHANGED decisions
  PROVE  DraftsInv'
BY DEF DraftsInv, ConfirmedIsDecided, decisions

\* No revision's draft outlives it.
LEMMA NoDraftsKeep ==
  ASSUME DraftsInv, draft' = [p \in Paths |-> NoDraft], resolved' = Unstaged, UNCHANGED merges
  PROVE  DraftsInv'
BY NoDraftTyped DEF DraftsInv, ConfirmedIsDecided, Unstaged, Files

LEMMA InvStep == IInv /\ [Next]_vars => IInv'
<1> SUFFICES ASSUME IInv, [Next]_vars PROVE IInv'
  OBVIOUS
<1> USE DEF IInv
<1>1. CASE Contributor
  <2>1. RequestInv'
    BY <1>1, CreateKeeps, UploadKeeps, AddDeletionKeeps, SubmitKeeps, EndInvitationKeeps DEF Contributor
  <2>2. DraftsInv'
    BY <1>1, DraftsUnchanged, NoDraftsKeep DEF Contributor, decisions
  <2> QED BY <2>1, <2>2
<1>2. CASE Conversation
  BY <1>2, OpenThreadKeeps, ReplyKeeps, SetResolutionKeeps, DraftsUnchanged DEF Conversation
<1>3. CASE Owner
  BY <1>3, OwnerKeeps, DraftsUnchanged DEF Owner
<1>4. CASE Review
  BY <1>4, ApproveKeeps, RequestChangesKeeps, ViewedKeeps DEF Review
<1>5. CASE End
  BY <1>5, CloseKeeps, ViewedKeeps DEF End
<1>6. ASSUME UNCHANGED <<requestVars, reviewVars, ownerVars>>, faults' \in 0..MaxFaults
      PROVE  RequestInv'
  <2>1. PullRequestTypeOK'
    BY <1>6 DEF requestVars, reviewVars, ownerVars, RequestInv, PullRequestTypeOK
  <2> QED BY <1>6, <2>1, ReviewStays DEF requestVars
<1>7. CASE View
  BY <1>6, <1>7, ViewedKeeps DEF View, RequestInv, PullRequestTypeOK
<1>8. CASE Prepare
  BY <1>6, <1>8, PrepareKeeps DEF Prepare, RequestInv, PullRequestTypeOK
<1>9. CASE SaveDecision
  <2>1. /\ UNCHANGED <<requestVars, reviewVars, ownerVars>>
        /\ Commits \/ Fails
    BY <1>9 DEF SaveDecision, Decide, Commits
  <2>2. faults' \in 0..MaxFaults
    BY <2>1, Parameters DEF Commits, Fails, RequestInv, PullRequestTypeOK
  <2> QED BY <1>6, <1>9, <2>1, <2>2, SaveDecisionKeeps
<1>10. CASE Confirm
  <2>1. UNCHANGED <<requestVars, reviewVars, ownerVars, faults>>
    BY <1>10 DEF Confirm, ConfirmOf
  <2> QED BY <1>6, <1>10, <2>1, ConfirmKeeps DEF RequestInv, PullRequestTypeOK
<1>11. CASE Merge
  BY <1>11, MergeKeeps
<1>12. ASSUME NEW old \in BOOLEAN, Start(old) PROVE IInv'
  BY <1>12, RestartKeeps, DraftsUnchanged, NoDraftsKeep DEF Start, decisions
<1>13. CASE UNCHANGED vars
  BY <1>6, <1>13, DraftsUnchanged DEF vars, decisions, RequestInv, PullRequestTypeOK
<1> QED BY <1>1, <1>2, <1>3, <1>4, <1>5, <1>7, <1>8, <1>9, <1>10, <1>11, <1>12, <1>13 DEF Next

\* The invariant, from which the theorems follow.
LEMMA Invariant == Spec => []IInv
BY InvInit, InvStep, PTL DEF Spec

\* Every variable of a pull request, its conversation and its drafts keeps its
\* type, whatever request comes, fails or dies.
THEOREM TypeCorrect == Spec => []TypeOK
<1>1. IInv => TypeOK
  BY DEF IInv, TypeOK, RequestInv, DraftsInv
<1> QED BY <1>1, Invariant, PTL

\* An approved or merged pull request has no unresolved thread on its revision:
\* opening and reopening a thread take the approval away.
THEOREM ApprovalsClean == Spec => []ApprovalsAreClean
<1>1. IInv => ApprovalsAreClean
  BY DEF IInv, RequestInv
<1> QED BY <1>1, Invariant, PTL

\* Every submitted revision is on disk as it was submitted, and what is under
\* review is the last of them: for any number of uploads, submissions and starts
\* that fail or die.
THEOREM SubmissionsKept == Spec => []SubmissionsAreKept
<1>1. IInv => SubmissionsAreKept
  BY DEF IInv, RequestInv
<1> QED BY <1>1, Invariant, PTL

\* Only the merge counts as one.
LEMMA OnlyMerges == ASSUME [Next]_vars, merges' # merges PROVE Merge
BY DEF Next, vars, Contributor, Conversation, Owner, Review, End, View, Prepare, SaveDecision, Decide,
  Confirm, ConfirmOf, Start, decisions

\* A merge, also the retry of one that died half-way, replaces only bytes that
\* the contributor started from, or the draft the owner decided upon.
THEOREM NothingUnseen == Spec => NoUnseenOverwrite
<1>1. IInv /\ [Next]_vars =>
        [merges' # merges =>
           \A p \in Paths : tree'[p] # tree[p] =>
             \/ tree[p] = base[p]
             \/ HasDraft(p) /\ tree[p] = draft[p].binding.tree[p]]_vars
  BY OnlyMerges, OverwritesSeen
<1> QED BY <1>1, Invariant, PTL DEF Spec, NoUnseenOverwrite

\* A merge writes what the owner last decided for each conflict, and the
\* submitted revision for the rest.
THEOREM MergesDecided == Spec => MergesAreDecided
<1>1. IInv /\ [Next]_vars =>
        [merges' # merges =>
           \A p \in Paths : tree'[p] =
             IF p \in Conflicts THEN draft[p].result
             ELSE IF p \in Changed THEN revisions[pr.revision][p] ELSE tree[p]]_vars
  <2> SUFFICES ASSUME IInv, [Next]_vars, merges' # merges, NEW p \in Paths
               PROVE  tree'[p] = IF p \in Conflicts THEN draft[p].result
                                 ELSE IF p \in Changed THEN revisions[pr.revision][p] ELSE tree[p]
    OBVIOUS
  <2>1. Merge
    BY OnlyMerges
  <2>2. tree'[p] = Planned(p)
    BY <2>1 DEF Merge
  <2> QED BY <2>1, <2>2, PlannedIsDecided
<1> QED BY <1>1, Invariant, PTL DEF Spec, MergesAreDecided

=============================================================================
