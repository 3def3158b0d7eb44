-------------------------- MODULE MCProjectRecords --------------------------
(* A small instance of ProjectRecords for TLC. *)
EXTENDS ProjectRecords, TLC

\* Windows, columns and assets are never compared with anything but themselves.
Alike == Permutations(Screens) \cup Permutations(Columns) \cup Permutations(Assets)
=============================================================================
