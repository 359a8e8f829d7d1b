---------------------------- MODULE MCFinalization ----------------------------
(* Finalization for TLC.                                                   *)
EXTENDS Finalization

AllProjects == [qa : BOOLEAN, os : BOOLEAN, remote : BOOLEAN]
ProjectOS == {[qa |-> FALSE, os |-> TRUE, remote |-> FALSE]}

=============================================================================
