---------------------------- MODULE MCKeyedLocks ----------------------------
(* KeyedLocks with model values for the keys, the tasks and the locks.     *)
(* Liveness is checked in the same run, so there is no symmetry reduction. *)
EXTENDS KeyedLocks
=============================================================================
