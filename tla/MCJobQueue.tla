----------------------------- MODULE MCJobQueue -----------------------------
(* A small instance of JobQueue for TLC. *)
EXTENDS JobQueue

\* The Jobs have one session, or all but the second: then only the tree is shared.
OneOrTwo ==
    LET first == CHOOSE o \in Owner : TRUE IN
    {who \in [Job -> Owner] : \A j \in Job \ {2} : who[j] = first}

=============================================================================
