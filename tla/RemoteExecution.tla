-------------------------- MODULE RemoteExecution ---------------------------
(***************************************************************************)
(* One Job whose Codex runs on a remote host, between the Controller and   *)
(* its Runner: dispatch, the WebSocket and the pending handles of          *)
(* RunnerGateway (transport/runner_ws.py), the ledger of remote executions *)
(* (storage/repositories.py), cancellation and pause, and what             *)
(* JobManager.reconcile_runner makes of the snapshots a Runner sends.      *)
(*                                                                         *)
(* The Job keeps its working tree throughout (JobLeases), so that two live *)
(* executions are two Codex in one tree.  The Runner is what RunnerDaemon  *)
(* promises in RunnerContract; crashes of the Controller and of the        *)
(* Runner, broken and replaced connections lose what is in flight.         *)
(***************************************************************************)
EXTENDS Naturals, Sequences, FiniteSets, SequencesExt

CONSTANTS
    MaxExec,     \* bound on executions; they are numbered as they start
    Requests,    \* what users ask for: a subset of {"cancel", "pause"}
    MaxWire,     \* bound on commands and on answers in flight
    MaxFaults,   \* bound on lost and replaced connections, restarts of the Runner,
                 \* crashes and shutdowns of the Controller
    MaxEarly     \* bound on the events that come too early (see InTime)

ASSUME RequestAssumption == Requests \subseteq {"cancel", "pause"}
ASSUME BoundAssumption ==
    {MaxExec, MaxWire, MaxFaults, MaxEarly} \subseteq Nat

VARIABLES
    \* durable rows of the Controller
    state,      \* the Job
    rec,        \* its recovery record
    ledger,     \* remote_executions: [Exec -> "none", "ACTIVE", ...]
    session,    \* external_session_id is known
    \* memory of the Controller
    up,         \* the Controller runs
    handle,     \* _handles: the execution of the Job's handle
    future,     \* [Exec -> the result future of its handle]
    dispatch,   \* a task that has no execution yet, by its mode
    task,       \* [Exec -> the task that drives the execution]
    canceller,  \* the cancel request of a user and the adopted cancellation
    adopting,   \* the execution reconcile_runner is about to adopt
    \* the link and the Runner
    conn,       \* a WebSocket is attached
    synced,     \* ... and its first snapshot has been handled
    toRunner, toController,
    run,        \* [Exec -> the execution on the Runner]
    acked,      \* executions whose JOB_RESULT_ACK was sent
    \* history and bounds
    bound,      \* executions whose id reached the recovery record
    paused,     \* the Job was paused: "never", "paused" or, when it was resumed,
                \* its turn was "over" or still "live"
    faults, early

rows == <<state, rec, ledger, session>>
memory == <<up, handle, future, dispatch, task, canceller, adopting>>
link == <<conn, synced, toRunner, toController>>
runner == <<run, acked>>
history == <<bound, paused>>
bounds == <<faults, early>>
vars == <<rows, memory, link, runner, history, bounds>>

Exec == 1..MaxExec
NoExec == 0
Terminal == {"COMPLETED", "FAILED", "CANCELLED"}
Active == {"ASSIGNED", "STARTING", "RUNNING"}
Canceller == {"user", "adopted"}
NoRec == [mode |-> "none", exec |-> NoExec]
Idle == [at |-> "idle", exec |-> NoExec]
NoTask == [at |-> "none", mode |-> "none"]

Recovery ==
    [mode : {"START", "RESUME", "ADOPT", "CANCEL"}, exec : Exec \cup {NoExec}] \cup {NoRec}
Turn == [at : {"none", "send", "bind", "stop", "stopping", "await", "record", "ack"},
         mode : {"none", "FRESH", "RESUME", "NEW"}]
Cancellation ==
    [at : {"idle", "look", "send", "sent", "ack", "join"},
     exec : Exec \cup {NoExec}]
LedgerState == {"none", "ACTIVE", "RESULT_RECEIVED", "ACKNOWLEDGED"}
Future == {"none", "open", "result", "lost", "unconfirmed"}
ExecState == {"none", "reserved", "refused", "alive", "done", "gone"}
Order == [type : {"JOB_START", "JOB_CANCEL", "JOB_RESULT_ACK"}, exec : Exec]
Report == [type : {"RUNNING_JOBS"}, running : SUBSET Exec, completed : SUBSET Exec,
           full : BOOLEAN]
Answer == [type : {"JOB_RESULT"}, exec : Exec, kind : {"result", "unconfirmed"}]

TypeOK ==
    /\ state \in Active \cup Terminal \cup {"WAITING_HOST", "PAUSED", "CANCELLING"}
    /\ rec \in Recovery
    /\ ledger \in [Exec -> LedgerState]
    /\ session \in BOOLEAN /\ up \in BOOLEAN /\ conn \in BOOLEAN /\ synced \in BOOLEAN
    /\ handle \in Exec \cup {NoExec}
    /\ future \in [Exec -> Future]
    /\ dispatch \in {"none", "START", "FRESH", "RESUME", "NEW"}
    /\ task \in [Exec -> Turn] /\ canceller \in [Canceller -> Cancellation]
    /\ adopting \in Exec \cup {NoExec}
    /\ toRunner \in Seq(Order) /\ toController \in Seq(Report \cup Answer)
    /\ run \in [Exec -> ExecState]
    /\ acked \subseteq Exec /\ bound \subseteq Exec
    /\ paused \in {"never", "paused", "over", "live"}
    /\ faults \in 0..MaxFaults /\ early \in 0..MaxEarly

\* A Job that was created while its host was offline.
Init ==
    /\ session = FALSE
    /\ state = "WAITING_HOST"
    /\ rec = [mode |-> "START", exec |-> NoExec]
    /\ ledger = [e \in Exec |-> "none"]
    /\ up = TRUE /\ handle = NoExec /\ future = [e \in Exec |-> "none"]
    /\ dispatch = "none" /\ task = [e \in Exec |-> NoTask]
    /\ canceller = [c \in Canceller |-> Idle] /\ adopting = NoExec
    /\ conn = FALSE /\ synced = FALSE /\ toRunner = <<>> /\ toController = <<>>
    /\ run = [e \in Exec |-> "none"] /\ acked = {}
    /\ bound = {} /\ paused = "never"
    /\ faults = 0 /\ early = 0

-----------------------------------------------------------------------------
(* Shared steps.                                                           *)

Used == {e \in Exec : ledger[e] # "none"}
Record(mode, e) == rec' = [mode |-> mode, exec |-> e]
Move(to) == state' = to
Goto(e, at) == task' = [task EXCEPT ![e].at = at]

\* The task ends; its last act drops whatever handle the Job has.
Ended(e) == task' = [task EXCEPT ![e] = NoTask] /\ handle' = NoExec
Quiet == dispatch = "none" /\ \A e \in Exec : task[e] = NoTask

CanSend == conn /\ Len(toRunner) < MaxWire
Send(type, e) == toRunner' = Append(toRunner, [type |-> type, exec |-> e])

\* detach: the open futures of the host end with retry_kind = "host".
Lost == [e \in Exec |-> IF future[e] = "open" THEN "lost" ELSE future[e]]
Detached ==
    /\ conn' = FALSE /\ synced' = FALSE /\ toRunner' = <<>> /\ toController' = <<>>
    /\ future' = Lost

\* RUNNING_JOBS, followed by the results that wait for their acknowledgement.
Completed == {e \in Exec : run[e] = "done"}
Snapshot(full) ==
    [type |-> "RUNNING_JOBS",
     running |-> {e \in Exec : run[e] \in {"reserved", "alive"}},
     completed |-> IF full THEN Completed ELSE {}, full |-> full]
Result(e, kind) == [type |-> "JOB_RESULT", exec |-> e, kind |-> kind]
Flush ==
    \E s \in SetToSeqs(Completed) :
        toController' = <<Snapshot(TRUE)>> \o [i \in DOMAIN s |-> Result(s[i], "result")]

\* The code counts on time where it does not wait: for the first snapshot before it
\* dispatches to a Runner and for a Runner that takes longer to connect again
\* than a task to record the loss.  MaxEarly says how often time does not help.
InTime(settled) ==
    IF settled THEN UNCHANGED early ELSE early < MaxEarly /\ early' = early + 1
LossRecorded ==
    \A e \in Exec :
        task[e] # NoTask =>
            future[e] # "lost" /\ task[e].at \notin {"send", "record"}

-----------------------------------------------------------------------------
(* Dispatch: _retry_host, _execute_new, _resume_or_fallback.               *)

\* A tick of the scheduler, or /retry.  A Job in ADOPT is left to its Runner.
Retry ==
    /\ up /\ conn /\ Used # Exec /\ Quiet
    /\ state = "WAITING_HOST" /\ rec.mode \in {"START", "RESUME"}
    /\ InTime(synced)
    /\ Move(IF rec.mode = "START" THEN "ASSIGNED" ELSE "RUNNING")
    /\ dispatch' = rec.mode
    /\ UNCHANGED <<rec, ledger, session, up, handle, future, task, canceller, adopting,
                   link, runner, history, faults>>

\* _execute_new: a Job that has a session resumes it.  Any state but ASSIGNED
\* makes the transition raise, and _fail leaves such a Job alone.
StartTask ==
    /\ up /\ dispatch = "START"
    /\ IF state = "ASSIGNED"
       THEN /\ Move(IF session THEN "RUNNING" ELSE "STARTING")
            /\ dispatch' = IF session THEN "RESUME" ELSE "FRESH"
       ELSE dispatch' = "none" /\ UNCHANGED state
    /\ UNCHANGED <<rec, ledger, session, up, handle, future, task, canceller, adopting,
                   link, runner, history, bounds>>

\* _reserve_remote_execution: the ledger row is written before the command.
Reserve ==
    /\ up /\ dispatch \in {"FRESH", "RESUME", "NEW"}
    /\ dispatch' = "none"
    /\ IF dispatch = "FRESH" \/ state = "RUNNING"
       THEN \E e \in Exec \ Used :
              /\ \A f \in Exec \ Used : e <= f
              /\ ledger' = [ledger EXCEPT ![e] = "ACTIVE"]
              /\ task' = [task EXCEPT ![e] = [at |-> "send", mode |->
                     IF dispatch = "RESUME" /\ ~session THEN "NEW" ELSE dispatch]]
              /\ InTime(conn => synced)
       ELSE UNCHANGED <<ledger, task, early>>
    /\ UNCHANGED <<state, rec, session, up, handle, future, canceller, adopting, link,
                   runner, history, faults>>

\* _enter_host_wait: the state, then the record; a state that forbids it ends the task.
EnterHostWait(e) ==
    IF state \in {"STARTING", "RUNNING", "PAUSED"}
    THEN Move("WAITING_HOST") /\ Goto(e, "record") /\ UNCHANGED handle
    ELSE Ended(e) /\ UNCHANGED state

\* _start_remote_operation, or the connection is gone.
SendStart(e) ==
    /\ up /\ task[e].at = "send"
    /\ \/ /\ CanSend
          /\ Send("JOB_START", e) /\ future' = [future EXCEPT ![e] = "open"]
          /\ handle' = e /\ Goto(e, "bind")
          /\ InTime(synced) /\ UNCHANGED state
       \/ /\ ~conn
          /\ EnterHostWait(e)
          /\ UNCHANGED <<toRunner, future, early>>
    /\ UNCHANGED <<rec, ledger, session, up, dispatch, canceller, adopting, conn, synced,
                   toController, runner, history, faults>>

\* A mutant: the execution id is written to a record that may be gone.
BindToNone(e) ==
    /\ up /\ task[e].at = "bind"
    /\ Record(rec.mode, e)
    /\ bound' = bound \cup {e} /\ handle' = e
    /\ IF state = (IF task[e].mode = "FRESH" THEN "STARTING" ELSE "RUNNING")
       THEN /\ Move("RUNNING")
            /\ task' = [task EXCEPT ![e] = [at |-> "await", mode |->
                   IF @.mode = "FRESH" THEN "NEW" ELSE @.mode]]
       ELSE Goto(e, "stop") /\ UNCHANGED state
    /\ UNCHANGED <<ledger, session, up, future, dispatch, canceller, adopting, link, runner,
                   paused, bounds>>

\* _set_handle writes the execution id to the recovery record.  The Job may have
\* been paused or cancelled while the command was under way ...
Bind(e) ==
    /\ up /\ task[e].at = "bind"
    /\ Record(IF rec = NoRec THEN "ADOPT" ELSE rec.mode, e)
    /\ bound' = bound \cup {e} /\ handle' = e
    /\ IF state = (IF task[e].mode = "FRESH" THEN "STARTING" ELSE "RUNNING")
       THEN /\ Move("RUNNING")
            /\ task' = [task EXCEPT ![e] = [at |-> "await", mode |->
                   IF @.mode = "FRESH" THEN "NEW" ELSE @.mode]]
       ELSE Goto(e, "stop") /\ UNCHANGED state
    /\ UNCHANGED <<ledger, session, up, future, dispatch, canceller, adopting, link, runner,
                   paused, bounds>>

\* ... and then its turn is stopped.  A resumed turn that cannot be stopped puts
\* a paused Job into WAITING_HOST.
StopTurn(e) ==
    /\ up
    /\ \/ /\ task[e].at = "stop" /\ future[e] = "open" /\ CanSend
          /\ Send("JOB_CANCEL", e) /\ Goto(e, "stopping") /\ UNCHANGED <<state, handle>>
       \/ /\ \/ task[e].at \in {"stop", "stopping"} /\ future[e] # "open"
             \/ task[e].at = "stopping"             \* no answer in time
          /\ IF task[e].mode = "RESUME" /\ future[e] \in {"lost", "unconfirmed"}
             THEN EnterHostWait(e)
             ELSE Ended(e) /\ UNCHANGED state
          /\ UNCHANGED toRunner
    /\ UNCHANGED <<rec, ledger, session, up, future, dispatch, canceller, adopting, conn,
                   synced, toController, runner, history, bounds>>

\* The record keeps the execution id it has.
RecordHostWait(e) ==
    /\ up /\ task[e].at = "record"
    /\ Record(IF task[e].mode = "FRESH" /\ ~session THEN "START" ELSE "RESUME",
              IF rec = NoRec THEN handle ELSE rec.exec)
    /\ Ended(e)
    /\ UNCHANGED <<state, ledger, session, up, future, dispatch, canceller, adopting, link,
                   runner, history, bounds>>

-----------------------------------------------------------------------------
(* The end of a turn: _await_handle and _finish_or_continue.               *)

Cancelled == Move("CANCELLED") /\ rec' = NoRec
Received(e) == ledger' = [ledger EXCEPT ![e] = "RESULT_RECEIVED"]

\* A mutant: the result is acknowledged before the Job has taken it over.
AckFirst(e) ==
    /\ up /\ task[e].at = "await" /\ future[e] = "result" /\ CanSend
    /\ Send("JOB_RESULT_ACK", e) /\ acked' = acked \cup {e}
    /\ Received(e)
    /\ UNCHANGED <<state, rec, session, memory, conn, synced, toController, run, history,
                   bounds>>

\* What the result means depends on the state the Job has by now.
TakeResult(e) ==
    /\ up /\ task[e].at = "await" /\ future[e] # "open"
    /\ Received(e)
    /\ \/ /\ state = "CANCELLING" /\ future[e] = "result"
          /\ Cancelled /\ Goto(e, "ack") /\ UNCHANGED <<session, handle>>
       \/ /\ state = "CANCELLING" /\ future[e] # "result"
          /\ Record("CANCEL", e) /\ Ended(e) /\ UNCHANGED <<state, session>>
       \/ state = "WAITING_HOST" /\ Ended(e) /\ UNCHANGED <<state, rec, session>>
       \/ /\ state = "RUNNING" /\ future[e] = "lost"
          /\ EnterHostWait(e) /\ UNCHANGED <<rec, session>>
       \/ /\ state = "RUNNING" /\ future[e] # "lost"
          /\ Goto(e, "ack") /\ UNCHANGED handle
          /\ session' \in {session, TRUE}
          /\ \/ state' \in {"COMPLETED", "FAILED"} /\ rec' = NoRec
             \/ Used # Exec /\ UNCHANGED <<state, rec>>
       \/ /\ state \notin {"CANCELLING", "WAITING_HOST", "RUNNING"}
          /\ Goto(e, "ack") /\ UNCHANGED <<state, rec, session, handle>>
    /\ UNCHANGED <<up, future, dispatch, canceller, adopting, link, runner, history, bounds>>

\* _ack_result_handle.  Nothing is sent for a result that is not the Runner's,
\* but the ledger row is closed all the same; a failed send leaves it open.
Acknowledge(e) ==
    \/ /\ future[e] = "result" /\ CanSend
       /\ Send("JOB_RESULT_ACK", e) /\ acked' = acked \cup {e}
       /\ ledger' = [ledger EXCEPT ![e] = "ACKNOWLEDGED"]
    \/ /\ future[e] = "result" /\ ~conn
       /\ UNCHANGED <<toRunner, acked, ledger>>
    \/ /\ future[e] # "result"
       /\ ledger' = [ledger EXCEPT ![e] = "ACKNOWLEDGED"]
       /\ UNCHANGED <<toRunner, acked>>

\* A Job that is still RUNNING goes on with another turn: steering that was queued,
\* or a new session after a resume that failed.
AckResult(e) ==
    /\ up /\ task[e].at = "ack"
    /\ Acknowledge(e)
    /\ Ended(e)
    /\ \/ state # "RUNNING" /\ UNCHANGED dispatch
       \/ state = "RUNNING" /\ dispatch' = "RESUME"
       \/ state = "RUNNING" /\ task[e].mode = "RESUME" /\ dispatch' = "NEW"
    /\ UNCHANGED <<state, rec, session, up, future, canceller, adopting, conn, synced,
                   toController, run, history, bounds>>

-----------------------------------------------------------------------------
(* Requests of users: cancel, pause and resume.                            *)

CancelAt(c, at) == up /\ canceller[c].at = at
CancelGoto(c, at, e) == canceller' = [canceller EXCEPT ![c] = [at |-> at, exec |-> e]]

RequestCancel ==
    /\ CancelAt("user", "idle") /\ "cancel" \in Requests /\ state \notin Terminal
    /\ Move("CANCELLING") /\ CancelGoto("user", "look", NoExec)
    /\ UNCHANGED <<rec, ledger, session, up, handle, future, dispatch, task, adopting, link,
                   runner, history, bounds>>

\* With a handle the intent is recorded first; without one the task is awaited.
LookForHandle ==
    /\ CancelAt("user", "look")
    /\ IF handle # NoExec
       THEN Record("CANCEL", handle) /\ CancelGoto("user", "send", handle)
       ELSE CancelGoto("user", "join", NoExec) /\ UNCHANGED rec
    /\ UNCHANGED <<state, ledger, session, up, handle, future, dispatch, task, adopting,
                   link, runner, history, bounds>>

\* A cancellation that finds the task over and an execution on record leaves it
\* to the Runner; without one it takes the execution to be over.
JoinTask ==
    /\ CancelAt("user", "join") /\ Quiet
    /\ IF state = "CANCELLING" /\ rec.exec # NoExec
       THEN Record("CANCEL", rec.exec) /\ UNCHANGED state
       ELSE IF state = "CANCELLING" THEN Cancelled ELSE UNCHANGED <<state, rec>>
    /\ CancelGoto("user", "idle", NoExec)
    /\ UNCHANGED <<ledger, session, up, handle, future, dispatch, task, adopting, link,
                   runner, history, bounds>>

\* RemoteRunHandle.cancel and RunnerGateway.cancel_remote.
SendCancel(c) ==
    LET e == canceller[c].exec IN
    /\ CancelAt(c, "send") /\ future[e] = "open" /\ CanSend
    /\ Send("JOB_CANCEL", e) /\ CancelGoto(c, "sent", e)
    /\ UNCHANGED <<rows, up, handle, future, dispatch, task, adopting, conn, synced,
                   toController, runner, history, bounds>>

\* The cancellation is pending: no connection, no answer in time, or an answer
\* that does not prove the execution over.
CancelPending(c) ==
    LET e == canceller[c].exec IN
    /\ \/ CancelAt(c, "sent") /\ future[e] # "result"
       \/ CancelAt(c, "send") /\ future[e] \in {"lost", "unconfirmed"}
    /\ Record("CANCEL", e) /\ CancelGoto(c, "idle", NoExec)
    /\ handle' = IF c = "adopted" /\ handle = e THEN NoExec ELSE handle
    /\ UNCHANGED <<state, ledger, session, up, future, dispatch, task, adopting, link,
                   runner, history, bounds>>

\* A mutant: the sent command counts as the confirmation.
ConfirmCancelSent(c) ==
    LET e == canceller[c].exec IN
    /\ canceller[c].at \in {"send", "sent"} /\ up
    /\ IF state = "CANCELLING" THEN Cancelled ELSE UNCHANGED <<state, rec>>
    /\ CancelGoto(c, "ack", e)
    /\ UNCHANGED <<ledger, session, up, handle, future, dispatch, task, adopting, link,
                   runner, history, bounds>>

\* _finalize_cancellation.
ConfirmCancel(c) ==
    LET e == canceller[c].exec IN
    /\ canceller[c].at \in {"send", "sent"} /\ up /\ future[e] = "result"
    /\ IF state = "CANCELLING" THEN Cancelled ELSE UNCHANGED <<state, rec>>
    /\ CancelGoto(c, "ack", e)
    /\ UNCHANGED <<ledger, session, up, handle, future, dispatch, task, adopting, link,
                   runner, history, bounds>>

AckCancelled(c) ==
    LET e == canceller[c].exec IN
    /\ CancelAt(c, "ack")
    /\ Acknowledge(e) /\ CancelGoto(c, "idle", NoExec)
    /\ handle' = IF c = "adopted" /\ handle = e THEN NoExec ELSE handle
    /\ UNCHANGED <<state, rec, session, up, future, dispatch, task, adopting, conn, synced,
                   toController, run, history, bounds>>

\* pause cancels the turn in the same way, but takes no notice of the answer.
Pause ==
    /\ up /\ "pause" \in Requests /\ state = "RUNNING"
    /\ Move("PAUSED")
    /\ IF handle # NoExec /\ future[handle] = "open" /\ CanSend
       THEN Send("JOB_CANCEL", handle) ELSE UNCHANGED toRunner
    /\ paused' = IF paused = "never" THEN "paused" ELSE paused
    /\ UNCHANGED <<rec, ledger, session, memory, conn, synced, toController, runner,
                   bound, bounds>>

\* resume (and redirect) waits for the task of the paused turn, not for its Codex.
Resume ==
    /\ up /\ "pause" \in Requests /\ state = "PAUSED" /\ Quiet
    /\ IF conn
       THEN /\ Used # Exec /\ Move("RUNNING") /\ dispatch' = "RESUME"
            /\ UNCHANGED rec
       ELSE Move("WAITING_HOST") /\ Record("RESUME", rec.exec) /\ UNCHANGED dispatch
    /\ paused' =
         IF paused = "live" \/ (conn /\ \E e \in Used : run[e] \in {"none", "reserved", "alive"})
         THEN "live" ELSE "over"
    /\ UNCHANGED <<ledger, session, up, handle, future, task, canceller, adopting, link,
                   runner, bound, bounds>>

-----------------------------------------------------------------------------
(* reconcile_runner.                                                       *)

Latest(S) == IF S = {} THEN NoExec ELSE CHOOSE e \in S : \A f \in S : f <= e

\* The latest reported execution on the ledger or, for a Job whose session is
\* known, the latest that no row claims (_match_reported_execution).
Matched(reported, owned) ==
    IF reported \cap owned # {} THEN Latest(reported \cap owned)
    ELSE IF session THEN Latest(reported \ owned) ELSE NoExec
Recorded(reported) == IF rec.exec \in reported THEN rec.exec ELSE NoExec
First(e, f) == IF e # NoExec THEN e ELSE f

\* A mutant: only a Job whose record asks for it is adopted.
AdoptOnRequest(e) ==
    IF rec.mode = "ADOPT"
    THEN /\ task[e] = NoTask
         /\ Move("ASSIGNED") /\ Record(rec.mode, e)
         /\ future' = [future EXCEPT ![e] = "open"]
         /\ adopting' = e
         /\ UNCHANGED <<synced, handle, canceller, bound>>
    ELSE /\ synced' = TRUE
         /\ UNCHANGED <<state, rec, future, adopting, handle, canceller, bound>>

\* A reported execution of a Job that waits for its host is adopted: ASSIGNED ...
Adopt(e) ==
    /\ task[e] = NoTask
    /\ Move("ASSIGNED") /\ Record(rec.mode, e)
    /\ future' = [future EXCEPT ![e] = "open"]
    /\ adopting' = e
    /\ UNCHANGED <<synced, handle, canceller, bound>>

\* A mutant: the Job keeps waiting for an execution that is gone.
AbsenceIgnored == UNCHANGED <<rec, handle, future, canceller, bound>>

\* A full snapshot without the execution of a Job in ADOPT confirms its absence.
ConfirmAbsence ==
    /\ Record(IF session THEN "RESUME" ELSE "START", NoExec)
    /\ UNCHANGED <<handle, future, canceller, bound>>

\* A pending cancellation of a reported execution is taken up again.
AdoptCancel(e) ==
    /\ Record("CANCEL", e) /\ handle' = e /\ bound' = bound \cup {e}
    /\ future' = [future EXCEPT ![e] = "open"]
    /\ CancelGoto("adopted", "send", e)

\* A result whose Job is finished is acknowledged; a row that a full snapshot does
\* not know is closed.
OpenRows == {e \in Exec : ledger[e] \in {"ACTIVE", "RESULT_RECEIVED"}}
Over(m) == IF state \in Terminal THEN m.completed \cap OpenRows ELSE {}
Absent(m) == IF m.full THEN OpenRows \ (m.running \cup m.completed) ELSE {}
Closed(m) == Over(m) \cup Absent(m)
Reported(m) == (m.running \cup m.completed) \ Over(m)

Found(m) == Matched(Reported(m), OpenRows \ Closed(m))
Known(m) == First(Found(m), Recorded(Reported(m)))
Adoptee(m) ==
    IF rec.mode = "ADOPT" THEN Known(m) ELSE First(Recorded(Reported(m)), Found(m))

Adopts(m) == state = "WAITING_HOST" /\ rec # NoRec /\ Adoptee(m) # NoExec
Misses(m) == m.full /\ state = "WAITING_HOST" /\ rec.mode = "ADOPT" /\ ~Adopts(m)
TakesUp(m) ==
    /\ state = "CANCELLING" /\ rec.mode = "CANCEL" /\ Known(m) # NoExec
    /\ canceller["adopted"] = Idle

HandleSnapshot ==
    /\ up /\ adopting = NoExec /\ toController # <<>>
    /\ LET m == Head(toController) IN
          /\ m.type = "RUNNING_JOBS"
          /\ Cardinality(Over(m)) + Len(toRunner) <= MaxWire
          /\ ledger' = [e \in Exec |-> IF e \in Closed(m) THEN "ACKNOWLEDGED" ELSE ledger[e]]
          /\ acked' = acked \cup Over(m)
          /\ \E s \in SetToSeqs(Over(m)) :
                toRunner' = toRunner \o
                    [i \in DOMAIN s |-> [type |-> "JOB_RESULT_ACK", exec |-> s[i]]]
          /\ \/ Adopts(m) /\ Adopt(Adoptee(m))
             \/ /\ ~Adopts(m) /\ synced' = (synced \/ m.full) /\ UNCHANGED <<state, adopting>>
                /\ \/ Misses(m) /\ ConfirmAbsence
                   \/ TakesUp(m) /\ AdoptCancel(Known(m))
                   \/ /\ ~Misses(m) /\ ~TakesUp(m)
                      /\ UNCHANGED <<rec, handle, future, canceller, bound>>
    /\ toController' = Tail(toController)
    /\ UNCHANGED <<session, up, dispatch, task, conn, run, paused, bounds>>

\* ... then RUNNING with a handle and a task.  A Job that was cancelled in between
\* makes the transition raise, which closes the connection.  Only a full snapshot
\* finds a Job to adopt on a connection that is not synced.
AdoptBind ==
    LET e == adopting IN
    /\ up /\ e # NoExec
    /\ adopting' = NoExec
    /\ IF state = "ASSIGNED"
       THEN /\ Move("RUNNING") /\ handle' = e /\ bound' = bound \cup {e}
            /\ task' = [task EXCEPT ![e] = [at |-> "await", mode |-> "NEW"]]
            /\ synced' = TRUE
            /\ UNCHANGED <<conn, toRunner, toController, future>>
       ELSE Detached /\ UNCHANGED <<state, handle, bound, task>>
    /\ UNCHANGED <<rec, ledger, session, up, dispatch, canceller, runner, paused,
                   bounds>>

\* JOB_RESULT and JOB_ERROR of a pending execution; any other is ignored.
HandleResult ==
    /\ up /\ adopting = NoExec /\ toController # <<>>
    /\ LET m == Head(toController) IN
          /\ m.type = "JOB_RESULT"
          /\ future' = [future EXCEPT ![m.exec] = IF @ = "open" THEN m.kind ELSE @]
    /\ toController' = Tail(toController)
    /\ UNCHANGED <<rows, up, handle, dispatch, task, canceller, adopting, conn, synced,
                   toRunner, runner, history, bounds>>

\* SESSION_STARTED of a pending execution.
LearnSession(e) ==
    /\ up /\ conn /\ run[e] = "alive" /\ future[e] = "open" /\ ~session
    /\ session' = TRUE
    /\ UNCHANGED <<state, rec, ledger, memory, link, runner, history, bounds>>

-----------------------------------------------------------------------------
(* The Runner, as RunnerContract promises it.                              *)

Tell(m) == toController' = IF conn THEN Append(toController, m) ELSE toController
Runs(e, from, to) == run[e] = from /\ run' = [run EXCEPT ![e] = to]
Command(type, e) ==
    /\ toRunner # <<>> /\ Head(toRunner) = [type |-> type, exec |-> e]
    /\ \A f \in Exec : run[f] # "reserved"
    /\ toRunner' = Tail(toRunner)
RunnerOnly ==
    UNCHANGED <<rows, memory, conn, synced, history, bounds>>

RunnerReserves(e) ==
    /\ Command("JOB_START", e) /\ Runs(e, "none", "reserved")
    /\ UNCHANGED <<toController, acked>> /\ RunnerOnly

\* Codex is spawned, or the start fails and is reported as JOB_ERROR.
RunnerSpawns(e) ==
    /\ \/ Runs(e, "reserved", "alive") /\ UNCHANGED toController
       \/ Runs(e, "reserved", "refused") /\ Tell(Result(e, "result"))
    /\ UNCHANGED <<toRunner, acked>> /\ RunnerOnly

\* _finish_job: the result is journaled, then reported.
CodexEnds(e) ==
    /\ Runs(e, "alive", "done") /\ Tell(Result(e, "result"))
    /\ UNCHANGED <<toRunner, acked>> /\ RunnerOnly

\* A mutant: the cancellation of an execution that has ended drops its result.
CancelForgets(e) ==
    /\ Command("JOB_CANCEL", e) /\ Len(toController) < MaxWire
    /\ run' = [run EXCEPT ![e] = CASE @ = "alive" -> "done" [] @ = "done" -> "gone" [] OTHER -> @]
    /\ Tell(Result(e, IF run[e] \in {"alive", "done"} THEN "result" ELSE "unconfirmed"))
    /\ UNCHANGED acked /\ RunnerOnly

\* JOB_CANCEL: what is alive is terminated, what has ended is told again.
RunnerCancels(e) ==
    /\ Command("JOB_CANCEL", e) /\ Len(toController) < MaxWire
    /\ IF run[e] = "alive" THEN Runs(e, "alive", "done") ELSE UNCHANGED run
    /\ Tell(Result(e, IF run[e] \in {"alive", "done"} THEN "result" ELSE "unconfirmed"))
    /\ UNCHANGED acked /\ RunnerOnly

RunnerForgets(e) ==
    /\ Command("JOB_RESULT_ACK", e)
    /\ IF run[e] = "done" THEN Runs(e, "done", "gone") ELSE UNCHANGED run
    /\ UNCHANGED <<toController, acked>> /\ RunnerOnly

Heartbeat ==
    /\ conn /\ toController = <<>> /\ adopting = NoExec /\ Snapshot(FALSE).running # {}
    /\ state \in {"WAITING_HOST", "CANCELLING"}
    /\ Tell(Snapshot(FALSE))
    /\ UNCHANGED <<toRunner, runner>> /\ RunnerOnly

-----------------------------------------------------------------------------
(* The link, crashes and restarts.                                         *)

\* HOST_REGISTER and attach.
Connect ==
    /\ up /\ ~conn
    /\ \A e \in Exec : run[e] # "reserved"
    /\ InTime(LossRecorded)
    /\ conn' = TRUE /\ synced' = FALSE /\ toRunner' = <<>> /\ Flush
    /\ UNCHANGED <<rows, memory, runner, history, faults>>

Fault == faults < MaxFaults /\ faults' = faults + 1

\* The loss is noticed when the Controller next reads from the socket.  With it
\* the Runner may restart: it ends what it had before it connects again.
Drop ==
    /\ conn /\ up /\ adopting = NoExec /\ Fault
    /\ Detached
    /\ \/ UNCHANGED run
       \/ /\ \E e \in Exec : run[e] = "alive"
          /\ run' = [e \in Exec |-> IF run[e] = "alive" THEN "done" ELSE run[e]]
    /\ UNCHANGED <<rows, up, handle, dispatch, task, canceller, adopting, acked, history,
                   early>>

\* The Runner connects again before the Controller noticed the loss: attach
\* replaces the socket and the futures stay open.
Replace ==
    /\ conn /\ up /\ adopting = NoExec /\ Fault
    /\ \A e \in Exec : run[e] # "reserved"
    /\ InTime(\A e \in Exec : task[e].at # "send")
    /\ synced' = FALSE /\ toRunner' = <<>> /\ Flush
    /\ UNCHANGED <<rows, memory, conn, runner, history>>

Halted ==
    /\ up' = FALSE /\ handle' = NoExec /\ future' = [e \in Exec |-> "none"]
    /\ dispatch' = "none" /\ task' = [e \in Exec |-> NoTask]
    /\ canceller' = [c \in Canceller |-> Idle] /\ adopting' = NoExec
    /\ conn' = FALSE /\ synced' = FALSE /\ toRunner' = <<>> /\ toController' = <<>>
    /\ Fault

Crash ==
    /\ up /\ Halted
    /\ UNCHANGED <<rows, runner, history, early>>

\* JobManager.shutdown: a Job with a handle waits for its Runner, or for its
\* pending cancellation.
Shutdown ==
    /\ up /\ adopting = NoExec /\ handle # NoExec /\ state \notin Terminal
    /\ IF state = "CANCELLING" THEN Record("CANCEL", handle) /\ UNCHANGED state
       ELSE /\ Move("WAITING_HOST")
            /\ Record("ADOPT", IF rec = NoRec THEN handle ELSE rec.exec)
    /\ Halted
    /\ UNCHANGED <<ledger, session, runner, history, early>>

\* reconcile_startup.
Restart ==
    /\ ~up /\ up' = TRUE
    /\ \/ state \in Active /\ Move("WAITING_HOST") /\ Record("ADOPT", rec.exec)
       \/ state = "CANCELLING" /\ Record("CANCEL", rec.exec) /\ UNCHANGED state
       \/ state = "WAITING_HOST" /\ rec = NoRec /\ Record("ADOPT", NoExec) /\ UNCHANGED state
       \/ /\ state \notin Active \cup {"CANCELLING"} /\ ~(state = "WAITING_HOST" /\ rec = NoRec)
          /\ UNCHANGED <<state, rec>>
    /\ UNCHANGED <<ledger, session, handle, future, dispatch, task, canceller, adopting,
                   link, runner, history, bounds>>

-----------------------------------------------------------------------------
TaskStep(e) ==
    \/ SendStart(e) \/ Bind(e) \/ StopTurn(e) \/ RecordHostWait(e)
    \/ TakeResult(e) \/ AckResult(e)
CancelStep(c) == SendCancel(c) \/ CancelPending(c) \/ ConfirmCancel(c) \/ AckCancelled(c)
Receive == HandleSnapshot \/ AdoptBind \/ HandleResult
ControllerStep ==
    \/ Retry \/ StartTask \/ Reserve \/ LookForHandle \/ JoinTask
    \/ \E e \in Exec : TaskStep(e)
    \/ \E c \in Canceller : CancelStep(c)
RunnerStep(e) ==
    \/ RunnerReserves(e) \/ RunnerSpawns(e) \/ RunnerCancels(e) \/ RunnerForgets(e)

Next ==
    \/ ControllerStep \/ Receive \/ RequestCancel \/ Pause \/ Resume
    \/ \E e \in Exec : RunnerStep(e) \/ CodexEnds(e) \/ LearnSession(e)
    \/ Heartbeat
    \/ Connect \/ Drop \/ Replace \/ Crash \/ Shutdown \/ Restart

Spec == Init /\ [][Next]_vars

\* Tasks, the scheduler, the receive loop and the Runner's loops go on; a Codex
\* may run for ever, users may stay silent, connections hold or break.
Fairness ==
    /\ WF_vars(ControllerStep) /\ WF_vars(Receive)
    /\ WF_vars(\E e \in Exec : RunnerStep(e)) /\ WF_vars(Connect \/ Restart)

FairSpec == Spec /\ Fairness

-----------------------------------------------------------------------------
(* Properties.                                                             *)

OneLiveCodex == \A e, f \in Exec : run[e] = "alive" /\ run[f] = "alive" => e = f

\* The point of adoption, of confirmed absence and of pending cancellations: whatever
\* connection, Runner or Controller is lost and restarted, a Job that was never
\* resumed by its user has at most one live Codex in its working tree.
OneCodexPerTree == paused \in {"never", "paused"} => OneLiveCodex

\* docs/CANCELLATION_AND_RECONNECT.md: the rules prevent two Codex processes from
\* using one session and repository concurrently, after a pause too.
OneCodexAfterResume == OneLiveCodex

Stopped(e) == run[e] \notin {"reserved", "alive"}

\* A Job is CANCELLED, and its tree free, only when no execution whose id it has
\* recorded is alive or can still be started by a command under way.  A pause acks the
\* row of a lost execution, so that the result of an older one confirms a cancellation.
CancelledMeansStopped ==
    state = "CANCELLED" /\ paused = "never" => \A e \in bound : Stopped(e)

\* A Runner drops a result with its acknowledgement: by then the Job is over, was
\* stopped by its user, or goes on with another turn.
AckedResultIsSettled ==
    [][acked' # acked =>
         state \in Terminal \cup {"PAUSED", "CANCELLING"} \/ dispatch' # "none"]_vars

\* What this module takes the Runner to do is what RunnerContract allows.
Contract == INSTANCE RunnerContract WITH
    record <- [e \in Exec |->
        CASE run[e] \in {"reserved", "alive"} -> "active"
          [] run[e] = "done" -> "finished"
          [] OTHER -> "absent"],
    process <- [e \in Exec |->
        CASE run[e] = "alive" -> "alive"
          [] run[e] \in {"done", "gone"} -> "exited"
          [] OTHER -> "none"],
    acked <- {e \in acked : run[e] # "refused"}
RunnerAsPromised == Contract!Spec

\* A Job that waits for its host is adopted or started again once its Runner is
\* back, whatever its record says of the execution it had.
WaitingJobRecovers ==
    state = "WAITING_HOST" ~>
        (state # "WAITING_HOST" \/ (Used = Exec /\ rec.mode # "ADOPT"))

=============================================================================
