----------------------- MODULE MCRepositoryTransaction -----------------------
(* Small instances of RepositoryTransaction for TLC. *)
EXTENDS RepositoryTransaction, TLC

CONSTANTS t1, t2, h1, h2

OneHost  == [p \in Threads |-> h1]
TwoHosts == [p \in Threads |-> IF p = t1 THEN h1 ELSE h2]

\* Journals are visited in any order and paths and contents are never compared
\* with anything but themselves.
Symmetric == Permutations(Paths) \cup Permutations(TxnIds)
=============================================================================
