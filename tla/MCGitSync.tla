----------------------------- MODULE MCGitSync -----------------------------
(* GitSync with model values for the files.                                 *)
EXTENDS GitSync

\* The files are interchangeable.
Symmetry == Permutations(Files)
=============================================================================
