--------------------------- MODULE ConflictResolution ---------------------------
(***************************************************************************)
(* The owner's decisions about the conflicts of a pull request, as         *)
(* conflict_resolution.py keeps them, and the merge of collaboration.py    *)
(* that applies them: pull requests, drafts and the repository composed.   *)
(*                                                                         *)
(* A draft keeps the bytes it was made from and is bound to the revision,  *)
(* the files of the repository, its access mode and the unresolved         *)
(* threads.  Only the newest draft of a path counts, and no draft outlives *)
(* its revision: draft[p] is the newest one of the current revision.      *)
(***************************************************************************)
EXTENDS PullRequests

CONSTANTS
    Undecided,  \* a draft without a decision
    MaxMerges   \* bound: merges in the repository

ASSUME ResolutionParameters ==
  /\ Undecided \notin Contents \cup {Absent} /\ MaxMerges \in Nat

VARIABLES
    draft,     \* the newest draft of each path for this revision
    resolved,  \* its resolved.bin
    merges     \* the merges of the pull request that the repository has

vars == <<requestVars, reviewVars, ownerVars, faults, draft, resolved, merges>>
decisions == <<draft, resolved, merges>>

\* The gate: the unresolved threads of the revision and their versions.
Gate    == {<<t, threads[t].version>> : t \in Unresolved}
Binding == [tree |-> tree, writable |-> writable, gate |-> Gate]
NoDraft == [status |-> "none", result |-> Undecided,
            binding |-> [tree |-> Unstaged, writable |-> FALSE, gate |-> {}]]

Bindings == [tree : [Paths -> Files], writable : BOOLEAN, gate : SUBSET (Threads \X (1..MaxVersion))]

Drafts   == [status : {"none", "draft", "confirmed", "stale", "applied"},
             result : Files \cup {Undecided}, binding : Bindings]

\* Every variable keeps its type: what PullRequests has, and the drafts.
TypeOK ==
  /\ PullRequestTypeOK
  /\ draft \in [Paths -> Drafts]
  /\ resolved \in [Paths -> Files]
  /\ merges \in 0..MaxMerges

Init ==
  /\ PullRequestInit
  /\ draft = [p \in Paths |-> NoDraft]
  /\ resolved = Unstaged
  /\ merges = 0

---------------------------------------------------------------------------
(* Where a draft stands.                                                   *)

IsActive(d) == d.status \in {"draft", "confirmed"}
HasDraft(p) == draft[p].status # "none"

\* Variant: the files of the repository are no part of the binding.
FreshWhateverTheFiles(p, status) ==
  \/ draft[p].status = "applied"
  \/ /\ HasDraft(p)
     /\ draft[p].binding.gate = Gate /\ draft[p].binding.writable = writable
     /\ p \in Conflicts
     /\ IsReviewable(status)

\* No reason to be stale: what it is bound to is as it was, the path is in
\* conflict, and the pull request is under review.  Applied drafts are history.
IsFresh(p, status) ==
  \/ draft[p].status = "applied"
  \/ /\ HasDraft(p) /\ draft[p].binding = Binding
     /\ p \in Conflicts
     /\ IsReviewable(status)

Marked(P, status) ==
  [p \in Paths |-> IF p \in P /\ IsActive(draft[p]) /\ ~IsFresh(p, status)
                   THEN [draft[p] EXCEPT !.status = "stale"] ELSE draft[p]]

\* Variant: the resolved bytes are used as they are.
IntactUnread(p) == TRUE

\* The resolved bytes are those of the decision: checked before every use.
Intact(p) == draft[p].result \in Contents => resolved[p] = draft[p].result

\* The owner's view of the conflicts checks their drafts and marks the stale.
Viewed(status) ==
  IF \A p \in Conflicts : Intact(p) THEN Marked(Conflicts, status) ELSE draft

IsResolved(p) == draft[p].status = "confirmed" /\ IsFresh(p, pr.status)

---------------------------------------------------------------------------
(* The owner's decisions.                                                  *)

View ==
  /\ pr.status # "none"
  /\ draft' = Viewed(pr.status)
  /\ UNCHANGED <<requestVars, reviewVars, ownerVars, faults, resolved, merges>>

\* It keeps verified copies of the bytes of the three sides.
NewDraft == [status |-> "draft", binding |-> Binding, result |-> Undecided]

\* A draft for every conflict that has none, or one with a reason to be stale.
Prepare ==
  LET new == {p \in Conflicts : ~IsFresh(p, pr.status)} IN
  /\ IsReviewable(pr.status) /\ pr.revision \in DOMAIN revisions
  /\ Conflicts # {}
  /\ draft' = [p \in Paths |-> IF p \in new THEN NewDraft ELSE draft[p]]
  /\ resolved' = [p \in Paths |-> IF p \in new THEN Absent ELSE resolved[p]]
  /\ UNCHANGED <<requestVars, reviewVars, ownerVars, faults, merges>>

\* The current bytes, the incoming ones, other ones, or none.  They are
\* written first; a decision that was confirmed has to be confirmed again.
Decide(p, result) ==
  /\ IsActive(draft[p])
  /\ IF IsFresh(p, pr.status)
     THEN /\ Intact(p)
          /\ resolved' = [resolved EXCEPT ![p] = result]
          /\ \/ Commits /\ draft' = [draft EXCEPT ![p].result = result, ![p].status = "draft"]
             \/ Fails /\ UNCHANGED draft
     ELSE draft' = Marked({p}, pr.status) /\ UNCHANGED <<resolved, faults>>
  /\ UNCHANGED <<requestVars, reviewVars, ownerVars, merges>>

SaveDecision == \E p \in Paths, result \in Files : Decide(p, result)

ConfirmOf(p) ==
  /\ draft[p].status = "draft" /\ draft[p].result # Undecided
  /\ IF IsFresh(p, pr.status)
     THEN Intact(p) /\ draft' = [draft EXCEPT ![p].status = "confirmed"]
     ELSE draft' = Marked({p}, pr.status)
  /\ UNCHANGED <<requestVars, reviewVars, ownerVars, faults, resolved, merges>>

Confirm == \E p \in Paths : ConfirmOf(p)

---------------------------------------------------------------------------
(* The merge.                                                              *)

\* What the plan puts in place of a path: the decision, or what was submitted.
Planned(p) ==
  IF p \in Conflicts THEN IF draft[p].result = Absent THEN Absent ELSE resolved[p]
  ELSE IF p \in Changed THEN evidence[pr.revision][p]
  ELSE tree[p]

Applied == [p \in Paths |-> IF p \in Conflicts THEN [draft[p] EXCEPT !.status = "applied"] ELSE draft[p]]

\* Under the lock of the repository every binding is checked again, the
\* repository is changed, and only then the rows of the pull request.
Merge ==
  /\ pr.status = "approved" /\ writable /\ merges < MaxMerges
  /\ Unresolved = {}
  /\ \A p \in Conflicts : IsResolved(p) /\ Intact(p)
  /\ pr.revision \in DOMAIN revisions /\ pr.revision \in DOMAIN evidence
  /\ \A p \in FileRows \ Conflicts : evidence[pr.revision][p] = change[p]
  /\ tree' = [p \in Paths |-> Planned(p)]
  /\ merges' = merges + 1
  /\ \/ /\ Purged
        /\ pr' = [pr EXCEPT !.status = "merged"]
        /\ draft' = Applied
     \/ Fails /\ UNCHANGED <<pr, draft, staged>>
  /\ UNCHANGED <<base, change, invited, reviewVars, writable, resolved>>

---------------------------------------------------------------------------
(* The system.                                                             *)

Review ==
  \/ Approve({p \in Paths : IsResolved(p)}) /\ draft' = Viewed("approved") /\ UNCHANGED <<resolved, merges>>
  \/ RequestChanges /\ draft' = Viewed("changes_requested") /\ UNCHANGED <<resolved, merges>>

End == Close /\ draft' = Viewed("closed") /\ UNCHANGED <<resolved, merges>>

Start(old) ==
  /\ Restart(old)
  /\ draft' = IF old THEN [p \in Paths |-> NoDraft] ELSE draft
  /\ resolved' = IF old THEN Unstaged ELSE resolved
  /\ UNCHANGED merges

\* A new revision has no drafts yet.
Contributor ==
  /\ CreatePullRequest \/ Upload \/ AddDeletion \/ Submit \/ EndInvitation
  /\ IF pr'.revision = pr.revision THEN UNCHANGED <<draft, resolved>>
     ELSE draft' = [p \in Paths |-> NoDraft] /\ resolved' = Unstaged
  /\ UNCHANGED merges

Conversation == (OpenThread \/ Reply \/ SetResolution) /\ UNCHANGED decisions
Owner        == (OwnerWrites \/ SwitchMode) /\ UNCHANGED decisions

Next ==
  \/ Contributor \/ Conversation \/ Owner
  \/ Review \/ End
  \/ View \/ Prepare \/ SaveDecision \/ Confirm
  \/ Merge
  \/ \E old \in BOOLEAN : Start(old)

Spec == Init /\ [][Next]_vars

---------------------------------------------------------------------------
(* What the owner and the contributor rely on.                             *)

\* An approved or merged pull request has no unresolved thread on its
\* revision, whoever opened or reopened one and when.
ApprovalsAreClean == pr.status \in {"approved", "merged"} => Unresolved = {}

\* Every revision that was ever submitted is on disk as it was submitted, and
\* what is under review is what was submitted last: whichever upload, submission
\* or start failed or died, and whatever it left in the quarantine.
SubmissionsAreKept ==
  /\ \A r \in DOMAIN revisions : r \in DOMAIN evidence /\ evidence[r] = revisions[r]
  /\ IsReviewable(pr.status) =>
       pr.revision \in DOMAIN revisions /\ revisions[pr.revision] = change

\* A merge, also the retry of one that died after it changed the repository,
\* replaces only bytes that the contributor started from or that the draft the
\* owner decided upon was made from: nobody's work goes unseen.
NoUnseenOverwrite ==
  [][merges' # merges =>
       \A p \in Paths : tree'[p] # tree[p] =>
         \/ tree[p] = base[p]
         \/ HasDraft(p) /\ tree[p] = draft[p].binding.tree[p]]_vars

\* A merge writes what the owner last decided for each conflict and what was
\* submitted for the rest, also when the save of another decision died half-way.
MergesAreDecided ==
  [][merges' # merges =>
       \A p \in Paths : tree'[p] =
         IF p \in Conflicts THEN draft[p].result
         ELSE IF p \in Changed THEN revisions[pr.revision][p] ELSE tree[p]]_vars

\* Preparing replaces the drafts that are stale: not one that was marked while
\* a thread was open, or other files were there, and whose binding has come back.
StaleDraftsAreReplaced ==
  IsReviewable(pr.status) =>
    \A p \in Conflicts : draft[p].status = "stale" => ~IsFresh(p, pr.status)

\* What the repository has merged, its pull request tells: not after a failure
\* between the two.
MergesAreRecorded == merges > 0 => pr.status = "merged"

\* A decision can always be read again: not after a save that died half-way.
DecisionsStayReadable == \A p \in Paths : Intact(p)

=============================================================================
