--------------------------- MODULE RunnerContract ---------------------------
(***************************************************************************)
(* What a Runner promises to the Controller about one execution id,        *)
(* whatever crashes, disconnects or failed disk writes happen in between:  *)
(* the durable record of the execution covers the whole life of its Codex  *)
(* process, a terminal result is only ever recorded for a process that is  *)
(* known to be gone, and that result is kept until it is acknowledged.     *)
(* RunnerDaemon is shown to implement this module.                         *)
(***************************************************************************)
CONSTANT Exec   \* execution ids, each dispatched at most once

VARIABLES
    record,     \* [Exec -> "absent" | "active" | "finished"], durable
    process,    \* [Exec -> "none" | "alive" | "exited"], the Codex process
    acked       \* executions whose result the Controller has acknowledged

vars == <<record, process, acked>>

Init ==
    /\ record = [e \in Exec |-> "absent"]
    /\ process = [e \in Exec |-> "none"]
    /\ acked = {}

\* A process exists only between an "active" record and its confirmed exit.
ProcessStep(e) ==
    \/ UNCHANGED process[e]
    \/ /\ process[e] = "none" /\ record[e] = "active"
       /\ process'[e] = "alive" /\ record'[e] = "active"
    \/ process[e] = "alive" /\ process'[e] = "exited"

\* An active record is closed only once no process can be alive behind it, and
\* a finished one is dropped only after its acknowledgement.
RecordStep(e) ==
    \/ UNCHANGED record[e]
    \/ record[e] = "absent" /\ record'[e] = "active" /\ process'[e] # "alive"
    \/ record[e] = "active" /\ record'[e] = "absent" /\ process'[e] # "alive"
    \/ record[e] = "active" /\ record'[e] = "finished" /\ process'[e] = "exited"
    \/ record[e] = "finished" /\ record'[e] = "absent" /\ e \in acked

\* The Controller acknowledges only what it was told.
AckStep(e) ==
    /\ e \in acked => e \in acked'
    /\ e \in acked' \ acked => process[e] = "exited"

Next ==
    /\ process' \in [Exec -> {"none", "alive", "exited"}]
    /\ record' \in [Exec -> {"absent", "active", "finished"}]
    /\ acked' \in SUBSET Exec
    /\ \A e \in Exec : ProcessStep(e) /\ RecordStep(e) /\ AckStep(e)

Spec == Init /\ [][Next]_vars

=============================================================================
