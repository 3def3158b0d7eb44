-------------------------- MODULE MCManagedDeletion --------------------------
(* Instances of ManagedDeletion for TLC. *)
EXTENDS ManagedDeletion

CONSTANTS d1, d2, w1, w2, cli

=============================================================================
