----------------------------- MODULE MCCommands -----------------------------
(* Commands with model values for two builds and an install.               *)
EXTENDS Commands
=============================================================================
