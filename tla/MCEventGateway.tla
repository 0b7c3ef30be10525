--------------------------- MODULE MCEventGateway ---------------------------
(* EventGateway with model values for the users, the workspace and the     *)
(* connections.                                                            *)
EXTENDS EventGateway
=============================================================================
