----------------------------- MODULE MCSession -----------------------------
(* Session with model values for the requests.                             *)
EXTENDS Session, TLC

\* Requests are interchangeable.
Symmetry == Permutations(Requests)
=============================================================================
