----------------------------- MODULE JobStates ------------------------------
(***************************************************************************)
(* The states of a Job and the transitions that validate_transition lets   *)
(* through (controller/states.py).                                         *)
(***************************************************************************)

TerminalStates == {"COMPLETED", "FAILED", "CANCELLED"}
WaitingStates ==
    {"WAITING_AGENT", "WAITING_HUMAN", "WAITING_HOST", "WAITING_LEASE", "WAITING_QUOTA"}
JobState ==
    {"QUEUED", "ASSIGNED", "STARTING", "RUNNING", "PAUSED", "CANCELLING"}
    \cup WaitingStates \cup TerminalStates

\* A job in one of these states keeps its turn open while it waits for a user.
Suspended == {"WAITING_HUMAN", "WAITING_QUOTA", "PAUSED"}

\* _ALLOWED_TRANSITIONS without the two cancellation states, which CanMove adds:
\* every live job may go to CANCELLED and, unless it is there, to CANCELLING.
Allowed ==
    [QUEUED        |-> {"ASSIGNED", "WAITING_HOST", "WAITING_LEASE", "FAILED"},
     ASSIGNED      |-> {"STARTING", "WAITING_HOST", "WAITING_LEASE"},
     STARTING      |-> {"RUNNING", "FAILED", "WAITING_HOST", "WAITING_QUOTA", "PAUSED",
                        "COMPLETED"},
     RUNNING       |-> {"WAITING_AGENT", "WAITING_HUMAN", "WAITING_HOST",
                        "WAITING_QUOTA", "PAUSED", "FAILED", "COMPLETED"},
     WAITING_AGENT |-> {"RUNNING", "WAITING_HOST", "FAILED", "COMPLETED"},
     WAITING_HUMAN |-> {"RUNNING", "WAITING_HOST", "FAILED"},
     WAITING_HOST  |-> {"ASSIGNED", "FAILED"},
     WAITING_LEASE |-> {"ASSIGNED", "WAITING_HOST", "FAILED"},
     WAITING_QUOTA |-> {"RUNNING", "STARTING", "WAITING_HOST", "FAILED"},
     PAUSED        |-> {"RUNNING", "WAITING_HOST", "FAILED"},
     CANCELLING    |-> {},
     COMPLETED     |-> {}, FAILED |-> {}, CANCELLED |-> {}]

CanMove(from, to) ==
    \/ to \in Allowed[from]
    \/ to = "CANCELLED" /\ from \notin TerminalStates
    \/ to = "CANCELLING" /\ from \notin TerminalStates \cup {"CANCELLING"}

=============================================================================
