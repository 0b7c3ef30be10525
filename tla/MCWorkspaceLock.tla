--------------------------- MODULE MCWorkspaceLock --------------------------
(* Three requests and the cleanup script on one workspace.                  *)
EXTENDS WorkspaceLock
=============================================================================
