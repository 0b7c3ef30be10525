------------------------------ MODULE MCBuilds ------------------------------
(* Builds with model values; the workspaces have the same owner.           *)
EXTENDS Builds

CONSTANT FirstUser

SameOwner == [w \in Workspaces |-> FirstUser]
=============================================================================
