--------------------------- MODULE MCRunnerDaemon ---------------------------
(* Small instances of RunnerDaemon for TLC. *)
EXTENDS RunnerDaemon

=============================================================================
