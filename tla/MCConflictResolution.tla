------------------------ MODULE MCConflictResolution ------------------------
(* Small instances of ConflictResolution for TLC. *)
EXTENDS ConflictResolution, TLC

\* The bytes of files are only compared with each other.
BytesAreAlike == Permutations(Contents)
=============================================================================
