------------------------- MODULE MCRemoteExecution --------------------------
(* Small instances of RemoteExecution for TLC. *)
EXTENDS RemoteExecution

=============================================================================
