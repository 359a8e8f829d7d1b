---------------------------- MODULE MCLocalTurns ----------------------------
(* LocalTurns for TLC: the configurations differ in bounds and windows.    *)
EXTENDS LocalTurns

=============================================================================
