---------------------------- MODULE RunnerDaemon ----------------------------
(***************************************************************************)
(* One remote Runner process (runner_daemon.py), its execution journal     *)
(* (runner_journal.py), the Codex processes it spawns (runners/codex.py)   *)
(* and the Controller end of its WebSocket as far as it decides which      *)
(* commands can arrive.                                                    *)
(*                                                                         *)
(* The Runner is single threaded, but every await is a point where another *)
(* task runs, the WebSocket breaks, or the process dies.  The JOB_START    *)
(* handler is therefore cut at its awaits (variable start); every other    *)
(* handler is one action.                                                  *)
(***************************************************************************)
EXTENDS Naturals, Sequences, FiniteSets

CONSTANTS
    Exec,        \* execution ids the Controller may dispatch
    NoExec,      \* "no JOB_START handler is in progress"
    MaxInbox,    \* bound on the commands in flight to the Runner
    MaxCrashes,  \* bound on crashes and interrupts of the Runner process
    MaxFaults    \* bound on failed journal writes and failed terminations

ASSUME NoExecAssumption == NoExec \notin Exec
ASSUME BoundsAssumption == {MaxInbox, MaxCrashes, MaxFaults} \subseteq Nat

VARIABLES
    \* durable
    disk,        \* the journal file: [Exec -> entry state]
    proc,        \* the Codex process of each execution, an OS object
    \* memory of the Runner process
    daemon,      \* lifecycle of the Runner process
    entries,     \* RunnerExecutionJournal._entries
    running,     \* RunnerDaemon.running: handles by execution id
    completed,   \* RunnerDaemon.completed: results awaiting JOB_RESULT_ACK
    finisher,    \* executions whose _finish_job task is alive
    start,       \* the JOB_START handler: its execution and its await point
    fatal,       \* _fatal_error is set
    \* the connection and the Controller's end of it
    conn,        \* "down", "connecting", "up", "broken"
    inbox,       \* commands in flight to the Runner, in order
    results,     \* JOB_RESULTs (and completed_jobs reports) in flight
    issued,      \* executions the Controller has dispatched
    received,    \* executions whose result reached the Controller
    acked,       \* executions for which JOB_RESULT_ACK was sent
    \* bounds
    crashes, faults

memory == <<entries, running, completed, finisher, start, fatal>>
wire == <<conn, inbox, results>>
controller == <<issued, received, acked>>
bounds == <<crashes, faults>>
vars == <<disk, proc, daemon, memory, wire, controller, bounds>>

EntryState == {"none", "STARTING", "RUNNING", "COMPLETED"}
\* "child" is a process of the current boot, "orphan" one of an earlier boot.
ProcState == {"none", "child", "orphan", "exited"}
Command == [type : {"JOB_START", "JOB_CANCEL", "JOB_RESULT_ACK"}, exec : Exec]
Idle == [exec |-> NoExec, at |-> "idle"]

JournalTypeOK ==
    /\ disk \in [Exec -> EntryState]
    /\ entries \in [Exec -> EntryState]
    /\ proc \in [Exec -> ProcState]
TaskTypeOK ==
    /\ daemon \in {"down", "recovering", "serving", "exiting", "refused"}
    /\ running \subseteq Exec /\ completed \subseteq Exec /\ finisher \subseteq Exec
    /\ fatal \in BOOLEAN
StartTypeOK ==
    /\ start \in [exec : Exec \cup {NoExec},
                  at : {"idle", "reserved", "spawned", "cleanup", "accepting"}]
    /\ (start.at = "idle") <=> (start.exec = NoExec)
LinkTypeOK ==
    /\ conn \in {"down", "connecting", "up", "broken"}
    /\ results \subseteq Exec /\ issued \subseteq Exec
    /\ received \subseteq Exec /\ acked \subseteq Exec
InboxTypeOK == inbox \in Seq(Command)
BoundsTypeOK == crashes \in Nat /\ faults \in Nat

TypeOK ==
    /\ JournalTypeOK /\ TaskTypeOK /\ StartTypeOK
    /\ LinkTypeOK /\ InboxTypeOK /\ BoundsTypeOK

Alive(e) == proc[e] \in {"child", "orphan"}

Init ==
    /\ disk = [e \in Exec |-> "none"]
    /\ proc = [e \in Exec |-> "none"]
    /\ daemon = "down"
    /\ entries = [e \in Exec |-> "none"]
    /\ running = {} /\ completed = {} /\ finisher = {}
    /\ start = Idle
    /\ fatal = FALSE
    /\ conn = "down" /\ inbox = <<>> /\ results = {}
    /\ issued = {} /\ received = {} /\ acked = {}
    /\ crashes = 0 /\ faults = 0

-----------------------------------------------------------------------------
(* Journal writes and process termination, each of which may fail.         *)

Entry(e, state) == [entries EXCEPT ![e] = state]

\* _persist rewrites the whole file from _entries and renames it into place.
Persisted(new) == entries' = new /\ disk' = new /\ UNCHANGED faults

\* The write raised: _entries was already mutated, the file was not.
NotPersisted(new) ==
    /\ faults < MaxFaults /\ faults' = faults + 1
    /\ entries' = new /\ UNCHANGED disk

Killed(e) == proc' = [proc EXCEPT ![e] = "exited"]

\* SIGTERM, SIGKILL and the waits did not prove the process tree dead.
TerminationFails == faults < MaxFaults /\ faults' = faults + 1

\* The connection generation ends; _websocket is None until the next one.
Disconnected == conn' = "down" /\ inbox' = <<>> /\ results' = {}

\* A RunnerSafetyError leaves run_forever and the process shuts down.
SafetyExit == daemon' = "exiting" /\ Disconnected

-----------------------------------------------------------------------------
(* Process start-up: _recover_persisted_executions before any connection.  *)

Boot ==
    /\ daemon \in {"down", "refused"}
    /\ daemon' = "recovering"
    /\ entries' = disk
    /\ UNCHANGED <<disk, proc, running, completed, finisher, start, fatal,
                   wire, controller, bounds>>

\* Mutant: a STARTING entry is taken for a start that never spawned anything.
RecoverStartingForgets(e) ==
    /\ daemon = "recovering" /\ entries[e] = "STARTING"
    /\ Persisted(Entry(e, "none"))
    /\ UNCHANGED <<proc, daemon, running, completed, finisher, start, fatal, wire,
                   controller, crashes>>

\* A STARTING entry, or a PID whose identity or death cannot be proven, stops
\* the start-up; a failed journal write ends the process as well.
RecoverStarting(e) ==
    /\ daemon = "recovering" /\ entries[e] = "STARTING"
    /\ daemon' = "refused"
    /\ completed' = {}
    /\ UNCHANGED <<disk, proc, entries, running, finisher, start, fatal, wire,
                   controller, bounds>>

RecoverRunning(e) ==
    /\ daemon = "recovering" /\ entries[e] = "RUNNING"
    /\ \/ /\ Killed(e)
          /\ Persisted(Entry(e, "COMPLETED"))
          /\ completed' = completed \cup {e}
          /\ UNCHANGED daemon
       \/ /\ Killed(e)
          /\ NotPersisted(Entry(e, "COMPLETED"))
          /\ daemon' = "refused" /\ completed' = {}
       \/ /\ TerminationFails
          /\ daemon' = "refused" /\ completed' = {}
          /\ UNCHANGED <<proc, entries, disk>>
    /\ UNCHANGED <<running, finisher, start, fatal, wire, controller, crashes>>

RecoverCompleted(e) ==
    /\ daemon = "recovering" /\ entries[e] = "COMPLETED" /\ e \notin completed
    /\ completed' = completed \cup {e}
    /\ UNCHANGED <<disk, proc, daemon, entries, running, finisher, start, fatal,
                   wire, controller, bounds>>

Recovered ==
    /\ daemon = "recovering"
    /\ \A e \in Exec : entries[e] # "none" => e \in completed
    /\ daemon' = "serving"
    /\ UNCHANGED <<disk, proc, memory, wire, controller, bounds>>

-----------------------------------------------------------------------------
(* The connection loop: run_forever and _run_connection.                   *)

\* _fatal_error is tested before a connection is attempted ...
Connect ==
    /\ daemon = "serving" /\ conn = "down" /\ ~fatal
    /\ conn' = "connecting"
    /\ UNCHANGED <<disk, proc, daemon, memory, inbox, results, controller, bounds>>

FatalStop ==
    /\ daemon = "serving" /\ conn = "down" /\ fatal
    /\ daemon' = "exiting"
    /\ UNCHANGED <<disk, proc, memory, wire, controller, bounds>>

ConnectFails ==
    /\ daemon = "serving" /\ conn = "connecting"
    /\ conn' = "down"
    /\ UNCHANGED <<disk, proc, daemon, memory, inbox, results, controller, bounds>>

\* Mutant: registration does not flush the results recorded while offline.
RegisterWithoutFlush ==
    /\ daemon = "serving" /\ conn = "connecting"
    /\ conn' = "up" /\ results' = {}
    /\ UNCHANGED <<disk, proc, daemon, memory, inbox, controller, bounds>>

\* ... but not once the handshake is done: HOST_REGISTER, RUNNING_JOBS with
\* the completed snapshot, and a flush of the completed results.
Register ==
    /\ daemon = "serving" /\ conn = "connecting"
    /\ conn' = "up"
    /\ results' = completed
    /\ UNCHANGED <<disk, proc, daemon, memory, inbox, controller, bounds>>

SocketBreaks ==
    /\ conn = "up"
    /\ conn' = "broken" /\ results' = {}
    /\ UNCHANGED <<disk, proc, daemon, memory, inbox, controller, bounds>>

\* The receive loop reaches the end of the broken socket between two messages.
ReceiverEnds ==
    /\ daemon = "serving" /\ conn = "broken" /\ start = Idle
    /\ Disconnected
    /\ UNCHANGED <<disk, proc, daemon, memory, controller, bounds>>

\* What a CancelledError does to the JOB_START handler at its await: a spawned
\* Codex is terminated, and if that fails its PID is put in the journal.
AbandonStart ==
    /\ start' = Idle
    /\ \/ /\ start.at \in {"idle", "reserved", "accepting"}
          /\ UNCHANGED <<proc, disk, entries, faults>>
       \/ /\ start.at = "spawned"
          /\ Killed(start.exec)
          /\ UNCHANGED <<disk, entries, faults>>
       \/ /\ start.at = "spawned" /\ TerminationFails
          /\ entries' = Entry(start.exec, "RUNNING")
          /\ disk' \in {disk, entries'}
          /\ UNCHANGED proc
       \/ /\ start.at = "cleanup"
          /\ Killed(start.exec) \/ UNCHANGED proc
          /\ UNCHANGED <<disk, entries, faults>>

\* The heartbeat task fails first: the receiver is cancelled where it awaits,
\* and whatever it raises is swallowed by gather(return_exceptions=True).
HeartbeatFails ==
    /\ daemon = "serving" /\ conn = "broken"
    /\ AbandonStart
    /\ Disconnected
    /\ UNCHANGED <<daemon, running, completed, finisher, fatal, controller, crashes>>

-----------------------------------------------------------------------------
(* Commands.  The receive loop handles one message at a time.              *)

Handling(type, e) ==
    /\ daemon = "serving" /\ conn \in {"up", "broken"} /\ start = Idle
    /\ inbox # <<>> /\ Head(inbox) = [type |-> type, exec |-> e]

\* Mutant: the entry is reserved in memory and only written with the PID.
HandleStartUnreserved(e) ==
    /\ Handling("JOB_START", e)
    /\ inbox' = Tail(inbox)
    /\ entries' = Entry(e, "STARTING")
    /\ start' = [exec |-> e, at |-> "reserved"]
    /\ UNCHANGED <<disk, proc, daemon, running, completed, finisher, fatal, conn,
                   results, controller, bounds>>

\* JOB_START, first part: reserve the journal entry before anything is spawned.
HandleStart(e) ==
    /\ Handling("JOB_START", e)
    /\ inbox' = Tail(inbox)
    /\ \/ /\ Persisted(Entry(e, "STARTING"))
          /\ start' = [exec |-> e, at |-> "reserved"]
       \/ /\ NotPersisted(Entry(e, "STARTING"))    \* JOB_ERROR, entry not undone
          /\ UNCHANGED start
    /\ UNCHANGED <<proc, daemon, running, completed, finisher, fatal, conn,
                   results, controller, crashes>>

SpawnCodex ==
    /\ daemon = "serving" /\ start.at = "reserved"
    /\ proc' = [proc EXCEPT ![start.exec] = "child"]
    /\ start' = [start EXCEPT !.at = "spawned"]
    /\ UNCHANGED <<disk, daemon, entries, running, completed, finisher, fatal,
                   wire, controller, bounds>>

\* runner.start raised with no process left behind: drop the reservation.  A
\* failed removal is an ordinary exception and only costs the connection.
StartFails ==
    /\ daemon = "serving"
    /\ \/ start.at = "reserved" /\ UNCHANGED proc
       \/ start.at = "spawned" /\ Killed(start.exec)
    /\ start' = Idle
    /\ \/ Persisted(Entry(start.exec, "none")) /\ UNCHANGED wire
       \/ NotPersisted(Entry(start.exec, "none")) /\ Disconnected
    /\ UNCHANGED <<daemon, running, completed, finisher, fatal, controller, crashes>>

\* ProcessSafetyError: Codex was spawned and could not be terminated.
StartUnsafe ==
    /\ daemon = "serving" /\ start.at = "spawned"
    /\ TerminationFails
    /\ entries' = Entry(start.exec, "RUNNING")
    /\ disk' \in {disk, entries'}
    /\ start' = Idle
    /\ SafetyExit
    /\ UNCHANGED <<proc, running, completed, finisher, fatal, controller, crashes>>

\* The pid is written, and the handle kept.  The thread of Codex, which later writes add
\* to the entry (update_session), is left out.
AttachPid ==
    /\ daemon = "serving" /\ start.at = "spawned"
    /\ \/ /\ Persisted(Entry(start.exec, "RUNNING"))
          /\ running' = running \cup {start.exec}
          /\ start' = [start EXCEPT !.at = "accepting"]
       \/ /\ NotPersisted(Entry(start.exec, "RUNNING"))
          /\ start' = [start EXCEPT !.at = "cleanup"]
          /\ UNCHANGED running
    /\ UNCHANGED <<proc, daemon, completed, finisher, fatal, wire, controller,
                   crashes>>

\* After a failed PID write: terminate Codex and drop the entry, or give up.
CleanUpStart ==
    /\ daemon = "serving" /\ start.at = "cleanup"
    /\ start' = Idle
    /\ \/ /\ Killed(start.exec)
          /\ \/ Persisted(Entry(start.exec, "none")) /\ UNCHANGED <<daemon, wire>>
             \/ NotPersisted(Entry(start.exec, "none")) /\ SafetyExit
       \/ /\ TerminationFails /\ UNCHANGED <<proc, entries, disk>>
          /\ SafetyExit
    /\ UNCHANGED <<running, completed, finisher, fatal, controller, crashes>>

\* Mutant: the handler ends without dropping its execution.
AcceptJobKeepsExec ==
    /\ daemon = "serving" /\ start.at = "accepting"
    /\ start' = [start EXCEPT !.at = "idle"]
    /\ finisher' = finisher \cup {start.exec}
    /\ UNCHANGED <<disk, proc, daemon, entries, running, completed, fatal, wire,
                   controller, bounds>>

\* JOB_ACCEPTED goes out, and only then is the _finish_job task created.
AcceptJob ==
    /\ daemon = "serving" /\ start.at = "accepting"
    /\ start' = Idle
    /\ \/ finisher' = finisher \cup {start.exec} /\ UNCHANGED wire
       \/ conn = "broken" /\ Disconnected /\ UNCHANGED finisher
    /\ UNCHANGED <<disk, proc, daemon, entries, running, completed, fatal,
                   controller, bounds>>

\* Mutant: a cancel of a finished execution drops its entry and its result.
HandleCancelDrops(e) ==
    /\ Handling("JOB_CANCEL", e)
    /\ inbox' = Tail(inbox)
    /\ \/ /\ e \in running /\ Killed(e) /\ UNCHANGED <<entries, disk, completed, faults>>
       \/ /\ e \notin running /\ Persisted(Entry(e, "none"))
          /\ completed' = completed \ {e} /\ UNCHANGED proc
    /\ UNCHANGED <<daemon, running, finisher, start, fatal, conn, results, controller,
                   crashes>>

HandleCancel(e) ==
    /\ Handling("JOB_CANCEL", e)
    /\ \/ /\ e \in running
          /\ Killed(e)
          /\ inbox' = Tail(inbox)
          /\ UNCHANGED <<conn, results, faults>>
       \/ /\ e \in running /\ Alive(e)
          /\ TerminationFails /\ Disconnected      \* RuntimeError: reconnect
          /\ UNCHANGED proc
       \/ /\ e \notin running
          /\ inbox' = Tail(inbox)
          /\ results' = IF e \in completed /\ conn = "up" THEN results \cup {e}
                                                          ELSE results
          /\ UNCHANGED <<proc, conn, faults>>      \* else cancel_unconfirmed
    /\ UNCHANGED <<disk, daemon, memory, controller, crashes>>

\* remove() writes the file only when the entry is still there, which it is not
\* for a repeated ACK.  A failed removal is a RunnerSafetyError, which is lost
\* when the heartbeat of the broken connection has failed in the same tick.
HandleAck(e) ==
    /\ Handling("JOB_RESULT_ACK", e)
    /\ \/ /\ \/ entries[e] = "none" /\ UNCHANGED <<entries, disk, faults>>
             \/ entries[e] # "none" /\ Persisted(Entry(e, "none"))
          /\ completed' = completed \ {e}
          /\ inbox' = Tail(inbox)
          /\ UNCHANGED <<daemon, conn, results>>
       \/ /\ entries[e] # "none"
          /\ NotPersisted(Entry(e, "none"))
          /\ Disconnected
          /\ daemon' \in {"exiting"} \cup (IF conn = "broken" THEN {"serving"} ELSE {})
          /\ UNCHANGED completed
    /\ UNCHANGED <<proc, running, finisher, start, fatal, controller, crashes>>

-----------------------------------------------------------------------------
(* Execution ends: the _finish_job task.                                   *)

CodexExits(e) ==
    /\ Alive(e)
    /\ Killed(e)
    /\ UNCHANGED <<disk, daemon, memory, wire, controller, bounds>>

\* A RunnerSafetyError of a background task is recorded, and the current
\* connection, if there is one, is closed.
RecordFatal ==
    /\ fatal' = TRUE
    /\ IF conn = "up" THEN conn' = "broken" /\ results' = {}
                      ELSE UNCHANGED <<conn, results>>
    /\ UNCHANGED inbox

\* Mutant: the result is published although the journal could not record it.
FinishJobUnsaved(e) ==
    /\ daemon = "serving" /\ e \in finisher /\ proc[e] = "exited"
    /\ finisher' = finisher \ {e}
    /\ Persisted(Entry(e, "COMPLETED")) \/ NotPersisted(Entry(e, "COMPLETED"))
    /\ completed' = completed \cup {e} /\ running' = running \ {e}
    /\ results' = IF conn = "up" THEN results \cup completed' ELSE results
    /\ UNCHANGED <<proc, daemon, start, fatal, conn, inbox, controller, crashes>>

\* Mutant: the result is recorded without waiting for the process to be gone.
FinishJobEarly(e) ==
    /\ daemon = "serving" /\ e \in finisher
    /\ finisher' = finisher \ {e}
    /\ Persisted(Entry(e, "COMPLETED"))
    /\ completed' = completed \cup {e} /\ running' = running \ {e}
    /\ results' = IF conn = "up" THEN results \cup completed' ELSE results
    /\ UNCHANGED <<proc, daemon, start, fatal, conn, inbox, controller, crashes>>

\* complete() raises for an id without an entry; a finisher's entry is always
\* there (HandleInv below).
FinishJob(e) ==
    /\ daemon = "serving" /\ e \in finisher /\ proc[e] = "exited"
    /\ finisher' = finisher \ {e}
    /\ \/ /\ Persisted(Entry(e, "COMPLETED"))
          /\ completed' = completed \cup {e}
          /\ running' = running \ {e}
          /\ results' = IF conn = "up" THEN results \cup completed' ELSE results
          /\ UNCHANGED <<fatal, conn, inbox>>
       \/ /\ NotPersisted(Entry(e, "COMPLETED"))
          /\ RecordFatal
          /\ UNCHANGED <<completed, running>>
    /\ UNCHANGED <<proc, daemon, start, controller, crashes>>

\* The reader of Codex's output failed and the process could not be killed.
FinishUnsafe(e) ==
    /\ daemon = "serving" /\ e \in finisher /\ proc[e] = "child"
    /\ TerminationFails
    /\ finisher' = finisher \ {e}
    /\ RecordFatal
    /\ UNCHANGED <<disk, proc, daemon, entries, running, completed, start,
                   controller, crashes>>

-----------------------------------------------------------------------------
(* The Runner process ends.                                                *)

\* An interrupt (or any error leaving run_forever) cancels every task.
Stop ==
    /\ daemon = "serving" /\ crashes < MaxCrashes
    /\ crashes' = crashes + 1
    /\ AbandonStart
    /\ SafetyExit
    /\ UNCHANGED <<running, completed, finisher, fatal, controller>>

\* asyncio tears down the remaining finishers: each one kills its Codex and
\* records the cancelled result, or leaves the entry RUNNING.
TearDown(e) ==
    /\ daemon = "exiting" /\ e \in finisher
    /\ finisher' = finisher \ {e}
    /\ \/ /\ Killed(e)
          /\ Persisted(Entry(e, "COMPLETED")) \/ NotPersisted(Entry(e, "COMPLETED"))
       \/ /\ TerminationFails /\ UNCHANGED <<proc, entries, disk>>
    /\ UNCHANGED <<daemon, running, completed, start, fatal, wire, controller,
                   crashes>>

ProcessGone ==
    /\ daemon' = "down"
    /\ running' = {} /\ completed' = {} /\ finisher' = {}
    /\ start' = Idle /\ fatal' = FALSE
    /\ entries' = [e \in Exec |-> "none"]
    /\ Disconnected

\* Handles without a finisher are cancelled too; their Codex may survive.
Exited ==
    /\ daemon = "exiting" /\ finisher = {}
    /\ \E killed \in SUBSET {e \in Exec : proc[e] = "child"} :
          proc' = [e \in Exec |-> IF e \in killed THEN "exited"
                                  ELSE IF proc[e] = "child" THEN "orphan"
                                  ELSE proc[e]]
    /\ ProcessGone
    /\ UNCHANGED <<disk, controller, bounds>>

Crash ==
    /\ daemon \in {"recovering", "serving", "exiting"} /\ crashes < MaxCrashes
    /\ crashes' = crashes + 1
    /\ proc' = [e \in Exec |-> IF proc[e] = "child" THEN "orphan" ELSE proc[e]]
    /\ ProcessGone
    /\ UNCHANGED <<disk, controller, faults>>

-----------------------------------------------------------------------------
(* The Controller's end (transport/runner_ws.py).                          *)

CanSend == conn = "up" /\ Len(inbox) < MaxInbox
Send(type, e) == inbox' = Append(inbox, [type |-> type, exec |-> e])

\* Every dispatch carries an execution id that was never used before.
SendStart(e) ==
    /\ CanSend /\ e \notin issued
    /\ Send("JOB_START", e)
    /\ issued' = issued \cup {e}
    /\ UNCHANGED <<disk, proc, daemon, memory, conn, results, received, acked, bounds>>

SendCancel(e) ==
    /\ CanSend /\ e \in issued
    /\ Send("JOB_CANCEL", e)
    /\ UNCHANGED <<disk, proc, daemon, memory, conn, results, controller, bounds>>

ReceiveResult(e) ==
    /\ conn = "up" /\ e \in results
    /\ results' = results \ {e}
    /\ received' = received \cup {e}
    /\ UNCHANGED <<disk, proc, daemon, memory, conn, inbox, issued, acked, bounds>>

\* Sent for a result that arrived; again for every retransmission of it.
SendAck(e) ==
    /\ CanSend /\ e \in received
    /\ Send("JOB_RESULT_ACK", e)
    /\ acked' = acked \cup {e}
    /\ UNCHANGED <<disk, proc, daemon, memory, conn, results, issued, received, bounds>>

-----------------------------------------------------------------------------
Recover(e) == RecoverStarting(e) \/ RecoverRunning(e) \/ RecoverCompleted(e)

Connection ==
    \/ Connect \/ FatalStop \/ ConnectFails \/ Register \/ SocketBreaks
    \/ ReceiverEnds \/ HeartbeatFails

StartHandler ==
    SpawnCodex \/ StartFails \/ StartUnsafe \/ AttachPid \/ CleanUpStart \/ AcceptJob

HandleCommand(e) == HandleStart(e) \/ HandleCancel(e) \/ HandleAck(e)
Finish(e) == CodexExits(e) \/ FinishJob(e) \/ FinishUnsafe(e) \/ TearDown(e)
Controller(e) == SendStart(e) \/ SendCancel(e) \/ ReceiveResult(e) \/ SendAck(e)

Next ==
    \/ Boot \/ Recovered \/ Connection \/ StartHandler
    \/ Stop \/ Exited \/ Crash
    \/ \E e \in Exec : Recover(e) \/ HandleCommand(e) \/ Finish(e) \/ Controller(e)

Spec == Init /\ [][Next]_vars

-----------------------------------------------------------------------------
(* Properties.                                                             *)

\* A Codex process that may be alive always has a durable STARTING or RUNNING
\* entry, so a restart at any instant finds it (reserve before spawn, complete
\* and remove only after the exit).
LiveProcessJournaled ==
    \A e \in Exec : Alive(e) => disk[e] \in {"STARTING", "RUNNING"}

\* The inductive invariant behind LiveProcessJournaled.  The memory copy of the
\* journal must be as honest as the file, because every write of the file copies
\* all of it; a result must belong to a dead process, because its entry may be
\* dropped; and an id that no JOB_START handler has seen must be unused, because
\* a second start under one id would revive a finished execution.
Open == {"STARTING", "RUNNING"}
Loaded == daemon \in {"recovering", "serving", "exiting"}
Pending(e) ==
    \E i \in 1..Len(inbox) : inbox[i] = [type |-> "JOB_START", exec |-> e]
OpenInv ==
    \A e \in Exec :
        Alive(e) => disk[e] \in Open /\ (Loaded => entries[e] \in Open)
DeadInv ==
    \A e \in Exec :
        \/ disk[e] = "COMPLETED" \/ entries[e] = "COMPLETED"
        \/ e \in completed \cup results \cup received \cup acked
        => proc[e] = "exited"
FreshInv ==
    \A e \in Exec :
        e \notin issued \/ Pending(e) =>
            /\ proc[e] = "none" /\ disk[e] = "none" /\ entries[e] = "none"
            /\ e \notin running /\ e \notin finisher /\ e # start.exec
InboxInv ==
    /\ \A i \in 1..Len(inbox) :
          /\ inbox[i].type = "JOB_START" => inbox[i].exec \in issued
          /\ inbox[i].type = "JOB_RESULT_ACK" => inbox[i].exec \in acked
    /\ \A i, j \in 1..Len(inbox) :
          (inbox[i].type = "JOB_START" /\ inbox[i] = inbox[j]) => i = j
\* An execution in somebody's hands has an open entry and no result yet.
HandleInv ==
    /\ daemon \in {"down", "recovering", "refused"} => finisher = {}
    /\ start.exec \notin finisher
    /\ \A e \in Exec : e \in finisher \/ e = start.exec =>
          /\ disk[e] \in Open /\ entries[e] \in Open
          /\ e \notin completed \cup results \cup received \cup acked
\* The memory copy of the journal forgets a finished execution only after its
\* acknowledgement, and start-up works on exactly what the file said.
RecordInv ==
    /\ daemon = "recovering" => entries = disk
    /\ \A e \in Exec :
          /\ disk[e] = "COMPLETED" /\ Loaded =>
                entries[e] = "COMPLETED" \/ (entries[e] = "none" /\ e \in acked)
          /\ entries[e] = "COMPLETED" => disk[e] # "none"
SpawnedInv ==
    \A e \in Exec :
        \/ {disk[e], entries[e]} \cap {"RUNNING", "COMPLETED"} # {}
        \/ e \in running \cup finisher
        \/ e = start.exec /\ start.at # "reserved"
        => proc[e] # "none"
StartInv ==
    start.at # "idle" =>
        /\ daemon = "serving" /\ conn \in {"up", "broken"}
        /\ start.at = "reserved" =>
              /\ proc[start.exec] = "none"
              /\ disk[start.exec] = "STARTING" /\ entries[start.exec] = "STARTING"
CoreInv == TypeOK /\ OpenInv /\ DeadInv /\ FreshInv /\ InboxInv /\ StartInv
JournalInv == CoreInv /\ HandleInv /\ RecordInv /\ SpawnedInv

\* A Runner that takes work has no live Codex of an earlier boot beside it:
\* start-up either proved every journaled process dead or refused.
NoOrphanWhileServing ==
    daemon = "serving" => \A e \in Exec : proc[e] # "orphan"

\* Whatever the Controller has been told or is being told about a result
\* survives a crash of the Runner until the Controller has acknowledged it.
ReportedResultIsDurable ==
    \A e \in completed \cup results \cup received :
        disk[e] = "COMPLETED" \/ e \in acked

\* The journal and the processes keep the promise of RunnerContract: a record
\* covers the life of the process, ends in "finished" only after its exit, and
\* is dropped only after the acknowledgement.
RecordOf(state) ==
    CASE state = "none" -> "absent"
      [] state = "COMPLETED" -> "finished"
      [] OTHER -> "active"
ProcessOf(state) == IF state \in {"child", "orphan"} THEN "alive" ELSE state

Contract == INSTANCE RunnerContract WITH
    record <- [e \in Exec |-> RecordOf(disk[e])],
    process <- [e \in Exec |-> ProcessOf(proc[e])],
    acked <- acked
KeepsContract == Contract!Spec

-----------------------------------------------------------------------------
(* Fairness: every task of the Runner that can run does run, a Codex turn  *)
(* ends, a supervisor restarts the Runner, and a link that is retried for  *)
(* ever is up long enough, again and again, for a message to get through.  *)
Fairness ==
    /\ WF_vars(Boot) /\ WF_vars(Recovered) /\ WF_vars(StartHandler)
    /\ WF_vars(Connect) /\ WF_vars(FatalStop) /\ SF_vars(Register)
    /\ WF_vars(ReceiverEnds \/ HeartbeatFails) /\ WF_vars(Exited)
    /\ \A e \in Exec :
          /\ WF_vars(Recover(e)) /\ WF_vars(CodexExits(e))
          /\ WF_vars(FinishJob(e)) /\ WF_vars(TearDown(e))
          /\ SF_vars(HandleCommand(e)) /\ SF_vars(ReceiveResult(e))

FairSpec == Spec /\ Fairness

\* A durable result reaches the Controller although the Runner and the link
\* may fail in between, unless the Runner refuses to start, or has recorded a
\* fatal error (_run_connection flushes no more until the Runner is restarted).
ResultEventuallyDelivered ==
    \A e \in Exec :
        disk[e] = "COMPLETED" ~>
            (e \in received \cup acked \/ daemon = "refused" \/ fatal)

\* "The Controller matches execution_id and adopts the existing execution.  A
\* later JOB_RESULT resolves the adopted handle normally" (docs/RECOVERY.md):
\* an execution the Runner reports as running, whose Codex is gone, does not
\* stay "running" for ever.
RunningExecutionResolves ==
    \A e \in Exec : (e \in running /\ proc[e] = "exited") ~> (e \notin running)

\* "If the Runner cannot prove a spawned Codex process was terminated, it ...
\* refuses automatic reconnect" (docs/RUNNERS.md): at registration every live
\* Codex is in the RUNNING_JOBS snapshot.
NoReconnectWithUntrackedProcess ==
    [][conn = "connecting" /\ conn' = "up" =>
         \A e \in Exec : Alive(e) => e \in running]_vars

=============================================================================
