--------------------------- MODULE MCLockHierarchy ---------------------------
(* Small instances of LockHierarchy for TLC. *)
EXTENDS LockHierarchy, TLC

CONSTANTS t1, t2, t3, h1, h2

\* Two threads of one process and one of another.
TwoHosts == [p \in Threads |-> IF p = t3 THEN h2 ELSE h1]

=============================================================================
