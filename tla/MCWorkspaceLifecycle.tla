------------------------ MODULE MCWorkspaceLifecycle ------------------------
(* WorkspaceLifecycle with model values for the requests.                  *)
EXTENDS WorkspaceLifecycle, TLC

\* Requests are interchangeable.
Symmetry == Permutations(Requests)
=============================================================================
