---------------------------- MODULE MCJobLeases -----------------------------
(* Small instances of JobLeases for TLC. *)
EXTENDS JobLeases, TLC

\* Jobs, sessions and handlers are interchangeable.
Symmetry == Permutations(Job) \cup Permutations(Session) \cup Permutations(Handler)

=============================================================================
