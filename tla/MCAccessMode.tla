----------------------------- MODULE MCAccessMode -----------------------------
(* Small instances of AccessMode for TLC. *)
EXTENDS AccessMode, TLC

CONSTANTS a, b, c

Anybody == Permutations({a, b, c})
=============================================================================
