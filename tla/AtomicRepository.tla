--------------------------- MODULE AtomicRepository ---------------------------
(***************************************************************************)
(* What a repository promises to the people who use it: a tree of paths, a *)
(* version and a history of snapshots that change together, one operation  *)
(* at a time, and that nothing else changes.  There is no journal, no lock *)
(* and no failure here: an operation happens or it does not.               *)
(* RepositoryTransaction implements this specification.                    *)
(***************************************************************************)
EXTENDS Naturals, Sequences

CONSTANTS Paths, Contents, Absent

VARIABLES
    content,  \* what each path holds
    version,  \* how many operations have happened
    history   \* the trees the snapshots recorded

Present == {f \in Paths : content[f] # Absent}

Recorded(tree) == \E i \in DOMAIN history : history[i] = tree

Init ==
  /\ content \in [Paths -> Contents \cup {Absent}]
  /\ version = 1
  /\ history = << >>

Write ==
  /\ \E f \in Paths, c \in Contents : content' = [content EXCEPT ![f] = c]
  /\ UNCHANGED history

Rename ==
  /\ \E f \in Present, g \in Paths \ Present :
       content' = [content EXCEPT ![f] = Absent, ![g] = content[f]]
  /\ UNCHANGED history

Delete ==
  /\ \E f \in Present : content' = [content EXCEPT ![f] = Absent]
  /\ UNCHANGED history

\* A merge starts from a recorded tree and records the tree it ends in.
Merge ==
  /\ Recorded(content)
  /\ content' \in [Paths -> Contents \cup {Absent}]
  /\ history' = Append(history, content')

\* An import deletes nothing.  It may replace what is not recorded: what is there
\* was looked at before its turn came.
Import ==
  /\ \E S \in SUBSET Paths : \E new \in [S -> Contents] :
       content' = [f \in Paths |-> IF f \in S THEN new[f] ELSE content[f]]
  /\ UNCHANGED history

Restore ==
  /\ Recorded(content')
  /\ UNCHANGED history

Snapshot ==
  /\ UNCHANGED content
  /\ history' = Append(history, content)

Next ==
  /\ version' = version + 1
  /\ Write \/ Rename \/ Delete \/ Merge \/ Import \/ Restore \/ Snapshot

Spec == Init /\ [][Next]_<<content, version, history>>
=============================================================================
