----------------------------- MODULE LocalTurns -----------------------------
(***************************************************************************)
(* The turns of one Job on the Controller's own host: the tasks that drive *)
(* them, the Codex process of each turn with its reader (runners/codex.py),*)
(* the pid in the Job's row, and everybody who stops a turn or starts the  *)
(* next one: /pause, /resume, /stop, steering, Human Gate, quota, the      *)
(* scheduler, shutdown, and the start-up that finds a process left behind. *)
(*                                                                         *)
(* /redirect is Pause and then Resume.  WAITING_AGENT, where QA and the    *)
(* submission follow, is an end here (Finalization).                       *)
(***************************************************************************)
EXTENDS Naturals, FiniteSets

CONSTANTS
    MaxTask, MaxCodex,   \* bounds on tasks and on processes; both are numbered
    MaxStops,            \* bound on crashes and shutdowns of the Controller
    MaxFailures,         \* bound on terminations that cannot be confirmed
    Windows              \* races the instance explores that the code leaves open

WindowNames == {
    "handle",     \* a cancellation or shutdown that finds the handle of the turn before
    "retry",      \* a retry while the previous turn is still being stopped or waited for
    "crash",      \* a crash with a live Codex whose pid is not in the row (yet, or any more)
    "late",       \* a request that was late clears the pid of a process that is held
    "unstopped",  \* a task gives up on a Codex that it could not terminate
    "expiry"}     \* an approval expires while its turn is still being stopped
ASSUME WindowAssumption == Windows \subseteq WindowNames
ASSUME BoundAssumption ==
    MaxTask \in Nat \ {0} /\ {MaxCodex, MaxStops, MaxFailures} \subseteq Nat

VARIABLES
    state, mode,      \* the Job, and the mode of its recovery record
    pid, held,        \* the process in its row, and PROCESS_SAFETY_HOLD as its error
    session,          \* external_session_id is known
    gate,             \* its approval
    up,               \* the Controller: "up", "down", or "refused" to start
    task, current,    \* [Task -> ...], and the one in _tasks
    handle,           \* the process of the Job's handle in _handles
    actor,            \* the requests and background tasks of the Job
    steering,         \* instructions are queued
    expiring,         \* expire_approvals has the approval on its list
    codex, reader,    \* [Codex -> ...]: the processes and their reader tasks
    stops, failures

rows == <<state, mode, pid, held, session, gate>>
tasks == <<task, current, handle>>
others == <<actor, steering, expiring>>
world == <<codex, reader>>
bounds == <<stops, failures>>
vars == <<rows, up, tasks, others, world, bounds>>

Task == 1..MaxTask
Codex == 1..MaxCodex
None == 0
Actor == {"stop", "pause", "cancel", "shutdown", "resume", "respond"}
Terminal == {"COMPLETED", "FAILED", "CANCELLED"}
Waiting == {"WAITING_HUMAN", "WAITING_HOST", "WAITING_QUOTA"}
Suspended == Waiting \cup {"PAUSED", "CANCELLING"}
Active == {"ASSIGNED", "STARTING", "RUNNING"}
NoTask == [at |-> "none", mode |-> "none", codex |-> None]
Over == [NoTask EXCEPT !.at = "over"]
Idle == [at |-> "idle", of |-> None]

Turn == [at : {"none", "begin", "ready", "spawned", "bind", "check", "stop", "await", "drain",
               "close", "end", "over"},
         mode : {"none", "new", "resume", "fallback"}, codex : Codex \cup {None}]
Request == [at : {"idle", "look", "kill", "join"}, of : Task \cup Codex \cup {None}]

TypeOK ==
    /\ state \in Active \cup Suspended \cup {"WAITING_AGENT", "FAILED", "CANCELLED"}
    /\ mode \in {"none", "START", "RESUME"}
    /\ pid \in Codex \cup {None} /\ held \in BOOLEAN /\ session \in BOOLEAN
    /\ gate \in {"none", "PENDING", "RESOLVED", "EXPIRED", "CANCELLED"}
    /\ up \in {"up", "down", "refused"}
    /\ task \in [Task -> Turn]
    /\ current \in Task \cup {None} /\ handle \in Codex \cup {None}
    /\ actor \in [Actor -> Request]
    /\ steering \in BOOLEAN /\ expiring \in BOOLEAN
    /\ codex \in [Codex -> {"none", "alive", "exited"}]
    /\ reader \in [Codex -> {"none", "reads", "result", "failed", "cancelled", "unsafe"}]
    /\ stops \in 0..MaxStops /\ failures \in 0..MaxFailures

\* A Job that has just been assigned.
Init ==
    /\ state = "ASSIGNED" /\ mode = "none" /\ pid = None /\ held = FALSE
    /\ session \in BOOLEAN /\ gate = "none" /\ up = "up"
    /\ task = [t \in Task |-> IF t = 1 THEN [NoTask EXCEPT !.at = "begin"] ELSE NoTask]
    /\ current = 1 /\ handle = None
    /\ actor = [a \in Actor |-> Idle] /\ steering = FALSE /\ expiring = FALSE
    /\ codex = [c \in Codex |-> "none"] /\ reader = [c \in Codex |-> "none"]
    /\ stops = 0 /\ failures = 0

-----------------------------------------------------------------------------
(* Shared steps.                                                           *)

Alive == {c \in Codex : codex[c] = "alive"}
Unused == {c \in Codex : codex[c] = "none"}
Goto(t, at) == task' = [task EXCEPT ![t].at = at]
SetActor(a, at, of) == actor' = [actor EXCEPT ![a] = [at |-> at, of |-> of]]
At(t, at) == up = "up" /\ task[t].at = at
ActorAt(a, at) == up = "up" /\ actor[a].at = at
Move(to) == state' = to
Unconfirmed == failures < MaxFailures /\ failures' = failures + 1
Locked == \E t \in Task : task[t].at = "close"      \* _job_locks[job_id] is held
InHold == held /\ pid # None
NobodyJoins == \A a \in Actor : actor[a].at # "join"
Quiet == \A t \in Task : task[t].at \in {"none", "over"}
OwnMode == IF session THEN "RESUME" ELSE "START"

\* _start_task.
StartTask(m) ==
    \E t \in Task :
        /\ task[t].at = "none" /\ \A u \in Task : u < t => task[u].at # "none"
        /\ Unused # {}
        /\ task' = [task EXCEPT ![t] = [at |-> IF m = "new" THEN "begin" ELSE "ready",
                                        mode |-> m, codex |-> None]]
        /\ current' = t

\* _fail of an exception that is neither a lost connection nor a quota.
Failed ==
    IF state \in {"STARTING", "RUNNING", "WAITING_AGENT"}
    THEN state' = "FAILED" /\ mode' = "none"
    ELSE UNCHANGED <<state, mode>>

\* _enter_host_wait after a broken pipe: a resumed turn does not look at the state.
HostWait(t) ==
    IF state \in {"STARTING", "RUNNING"}
       \/ (task[t].mode # "new" /\ state \in {"PAUSED", "WAITING_HUMAN", "WAITING_QUOTA"})
    THEN state' = "WAITING_HOST" /\ mode' = IF task[t].mode = "new" THEN OwnMode ELSE "RESUME"
    ELSE UNCHANGED <<state, mode>>

\* _handle_cancelled_task.
CancelledTask ==
    IF state \in Active \cup {"WAITING_AGENT"}
    THEN state' = "WAITING_HOST" /\ mode' = OwnMode
    ELSE UNCHANGED <<state, mode>>

\* CodexRunHandle.cancel of the turn that has a handle.  A turn that is only being
\* started has none and is left to its own Check.
KillTurn(a) == IF handle = None THEN UNCHANGED actor ELSE SetActor(a, "kill", handle)

\* _enter_quota_wait and _enter_human_gate: both stop the turn in the background
\* (_stop_active_turn).
EnterQuotaWait ==
    IF state \in {"STARTING", "RUNNING"}
    THEN /\ state' = "WAITING_QUOTA" /\ mode' = "RESUME"
         /\ ActorAt("stop", "idle") /\ KillTurn("stop")
    ELSE UNCHANGED <<state, mode, actor>>
EnterHumanGate ==
    /\ ~Locked
    /\ IF state = "RUNNING"
       THEN /\ state' = "WAITING_HUMAN" /\ gate' = "PENDING"
            /\ ActorAt("stop", "idle") /\ KillTurn("stop")
       ELSE UNCHANGED <<state, gate, actor>>

\* _finalize_cancellation.
FinalizeCancellation ==
    IF state = "CANCELLING" THEN state' = "CANCELLED" /\ mode' = "none"
    ELSE UNCHANGED <<state, mode>>

-----------------------------------------------------------------------------
(* A turn: _execute_new, _resume_or_fallback, CodexRunner._spawn.          *)

Begin(t) ==
    /\ At(t, "begin")
    /\ IF state = "ASSIGNED"
       THEN /\ Move(IF session THEN "RUNNING" ELSE "STARTING")
            /\ task' = [task EXCEPT ![t] = [at |-> "ready", codex |-> None,
                                            mode |-> IF session THEN "resume" ELSE "new"]]
       ELSE Goto(t, "end") /\ UNCHANGED state
    /\ UNCHANGED <<mode, pid, held, session, gate, up, current, handle, others, world, bounds>>

\* Only a resumed turn looks at the state first: an instruction that was queued and
\* taken for it is lost when the Job was suspended meanwhile.  Its session may be unknown.
Spawn(t) ==
    /\ At(t, "ready")
    /\ IF task[t].mode = "new" \/ state = "RUNNING"
       THEN \E c \in Unused :
              /\ \A d \in Unused : c <= d
              /\ codex' = [codex EXCEPT ![c] = "alive"]
              /\ task' = [task EXCEPT ![t] = [at |-> "spawned", codex |-> c,
                     mode |-> IF @.mode = "resume" /\ ~session THEN "fallback" ELSE @.mode]]
       ELSE Goto(t, "end") /\ UNCHANGED codex
    /\ UNCHANGED <<rows, up, current, handle, others, reader, bounds>>

\* The process has its identity and its instruction.
Identify(t) ==
    LET c == task[t].codex IN
    /\ At(t, "spawned")
    /\ codex[c] = "alive"
    /\ reader' = [reader EXCEPT ![c] = "reads"] /\ handle' = c
    /\ Goto(t, "bind")
    /\ UNCHANGED <<rows, up, current, others, codex, bounds>>

\* ... or it is terminated: an error, a broken pipe, or no way to be sure.
IdentifyFails(t) ==
    LET c == task[t].codex IN
    /\ At(t, "spawned") /\ Goto(t, "end")
    /\ codex' = [codex EXCEPT ![c] = "exited"]
    /\ Failed \/ HostWait(t)
    /\ UNCHANGED <<pid, held, session, gate, up, current, handle, others, reader, bounds>>

\* _hold_process_safety.
Hold(t) ==
    LET c == task[t].codex IN
    /\ \/ At(t, "spawned") /\ codex[c] = "alive" /\ Unconfirmed
       \/ At(t, "await") /\ reader[c] = "unsafe" /\ UNCHANGED failures
    /\ state \notin Terminal
    /\ state \in {"STARTING", "RUNNING"} \/ "unstopped" \in Windows
    /\ Move(IF state \in {"STARTING", "RUNNING"} THEN "PAUSED" ELSE state)
    /\ pid' = c /\ held' = TRUE /\ Goto(t, "end")
    /\ UNCHANGED <<mode, session, gate, up, current, handle, others, world, stops>>

\* A mutant: the process of the turn before stays in the row.
BindFirst(t) ==
    /\ At(t, "bind")
    /\ pid' = (IF pid = None THEN task[t].codex ELSE pid) /\ Goto(t, "check")
    /\ UNCHANGED <<state, mode, held, session, gate, up, current, handle, others, world, bounds>>

\* _set_handle.
Bind(t) ==
    /\ At(t, "bind")
    /\ pid' = task[t].codex /\ Goto(t, "check")
    /\ UNCHANGED <<state, mode, held, session, gate, up, current, handle, others, world, bounds>>

\* A mutant: the turn goes on whatever became of the Job meanwhile.
CheckNothing(t) ==
    /\ At(t, "check")
    /\ Move(IF state = "STARTING" THEN "RUNNING" ELSE state) /\ Goto(t, "await")
    /\ UNCHANGED <<mode, pid, held, session, gate, up, current, handle, others, world, bounds>>

\* The Job may have been suspended while nobody could find its process.
Check(t) ==
    /\ At(t, "check")
    /\ IF state = (IF task[t].mode = "new" THEN "STARTING" ELSE "RUNNING")
       THEN Move("RUNNING") /\ Goto(t, "await")
       ELSE Goto(t, "stop") /\ UNCHANGED state
    /\ UNCHANGED <<mode, pid, held, session, gate, up, current, handle, others, world, bounds>>

\* CodexRunHandle.cancel, by the task itself: a termination that cannot be
\* confirmed is an ordinary exception here, and not a hold.
StopOwn(t) ==
    LET c == task[t].codex IN
    /\ At(t, "stop")
    /\ \/ /\ codex[c] = "exited" /\ UNCHANGED failures
          /\ \E r \in {reader[c], "cancelled"} : reader' = [reader EXCEPT ![c] = r]
          /\ UNCHANGED <<state, mode>>
       \/ /\ "unstopped" \in Windows /\ codex[c] = "alive" /\ Unconfirmed
          /\ Failed /\ UNCHANGED reader
    /\ Goto(t, "end")
    /\ UNCHANGED <<pid, held, session, gate, up, current, handle, others, codex, stops>>

-----------------------------------------------------------------------------
(* The end of a turn: _await_handle and _finish_or_continue.               *)

TakeResult(t) ==
    LET c == task[t].codex IN
    /\ At(t, "await") /\ reader[c] = "result"
    /\ session' \in {session, session \/ state = "RUNNING"}
    /\ \/ /\ state \in Suspended \cup Terminal \cup {"WAITING_AGENT"}
          /\ Goto(t, "end") /\ FinalizeCancellation /\ UNCHANGED <<gate, actor>>
       \/ /\ state \in Active
          /\ \/ Goto(t, "drain") /\ UNCHANGED <<state, mode, gate, actor>>
             \/ Goto(t, "end") /\ EnterQuotaWait /\ UNCHANGED gate
             \/ Goto(t, "end") /\ EnterHumanGate /\ UNCHANGED mode
             \/ Goto(t, "end") /\ Failed /\ UNCHANGED <<gate, actor>>
             \/ /\ task[t].mode = "resume"         \* the session is gone
                /\ task' = [task EXCEPT ![t] = [at |-> "ready", mode |-> "fallback", codex |-> None]]
                /\ UNCHANGED <<state, mode, gate, actor>>
    /\ UNCHANGED <<pid, held, up, current, handle, steering, expiring, world, bounds>>

\* The reader was cancelled, or raised.
TakeError(t) ==
    LET c == task[t].codex IN
    /\ At(t, "await") /\ reader[c] \in {"cancelled", "failed"}
    /\ IF reader[c] = "cancelled" THEN CancelledTask ELSE Failed
    /\ Goto(t, "end")
    /\ UNCHANGED <<pid, held, session, gate, up, current, handle, others, world, bounds>>

\* With the Job's lock: a Job that waits keeps its instructions, else what is queued
\* makes another turn, and without any the Job is done ...
Drain(t) ==
    /\ At(t, "drain") /\ ~Locked
    /\ steering' = (steering /\ state \in Waiting)
    /\ task' = [task EXCEPT ![t] =
           IF state \in Waiting THEN [@ EXCEPT !.at = "end"]
           ELSE IF steering THEN [at |-> "ready", mode |-> "resume", codex |-> None]
           ELSE [@ EXCEPT !.at = "close"]]
    /\ UNCHANGED <<rows, up, current, handle, actor, expiring, world, bounds>>

\* A mutant: the Job is done without QA and submission.
CloseCompletes(t) ==
    /\ At(t, "close")
    /\ Move(IF state = "RUNNING" THEN "COMPLETED" ELSE state) /\ Goto(t, "end")
    /\ held' = FALSE
    /\ UNCHANGED <<mode, pid, session, gate, up, current, handle, others, world, bounds>>

\* ... and the lock is given back.
Close(t) ==
    /\ At(t, "close")
    /\ Move(IF state = "RUNNING" THEN "WAITING_AGENT" ELSE state) /\ Goto(t, "end")
    /\ held' = FALSE
    /\ UNCHANGED <<mode, pid, session, gate, up, current, handle, others, world, bounds>>

\* finally: the task drops whatever handle the Job has by now.
End(t) ==
    /\ At(t, "end")
    /\ task' = [task EXCEPT ![t] = Over]
    /\ handle' = None /\ current' = IF current = t THEN None ELSE current
    /\ UNCHANGED <<rows, up, others, world, bounds>>

-----------------------------------------------------------------------------
(* Processes and their readers (_read_result).                             *)

CodexEnds(c) ==
    /\ codex[c] = "alive"
    /\ codex' = [codex EXCEPT ![c] = "exited"]
    /\ UNCHANGED <<rows, up, tasks, others, reader, bounds>>

ReaderEnds(c) ==
    /\ up = "up" /\ reader[c] = "reads" /\ codex[c] = "exited"
    /\ reader' = [reader EXCEPT ![c] = "result"]
    /\ UNCHANGED <<rows, up, tasks, others, codex, bounds>>

\* The reader raises and terminates the process, as far as it can.
ReaderFails(c) ==
    /\ up = "up" /\ reader[c] = "reads" /\ codex[c] = "alive"
    /\ \/ /\ codex' = [codex EXCEPT ![c] = "exited"]
          /\ reader' = [reader EXCEPT ![c] = "failed"] /\ UNCHANGED failures
       \/ /\ Unconfirmed
          /\ reader' = [reader EXCEPT ![c] = "unsafe"] /\ UNCHANGED codex
    /\ UNCHANGED <<rows, up, tasks, others, stops>>

\* The events of a running turn that concern the Job.
Event(c) ==
    /\ up = "up" /\ reader[c] = "reads" /\ codex[c] = "alive"
    /\ \/ ~session /\ session' = TRUE /\ UNCHANGED <<state, mode, gate, actor>>
       \/ EnterQuotaWait /\ UNCHANGED <<session, gate>>
       \/ EnterHumanGate /\ UNCHANGED <<session, mode>>
    /\ UNCHANGED <<pid, held, up, tasks, steering, expiring, world, bounds>>

-----------------------------------------------------------------------------
(* Stopping a turn: pause, cancel, _stop_active_turn and shutdown.         *)

Pause ==
    /\ ActorAt("pause", "idle") /\ state = "RUNNING"
    /\ Move("PAUSED") /\ KillTurn("pause")
    /\ UNCHANGED <<mode, pid, held, session, gate, up, tasks, steering, expiring, world, bounds>>

\* A Job that is held is cancelled only after its process was terminated.
Cancel ==
    /\ ActorAt("cancel", "idle") /\ state \notin Terminal
    /\ Move("CANCELLING") /\ SetActor("cancel", "look", None)
    /\ codex' = IF InHold THEN [codex EXCEPT ![pid] = "exited"] ELSE codex
    /\ pid' = IF InHold THEN None ELSE pid
    /\ held' = (held /\ ~InHold)
    /\ gate' = IF gate = "PENDING" THEN "CANCELLED" ELSE gate
    /\ UNCHANGED <<mode, session, up, tasks, steering, expiring, reader, bounds>>

\* A task keeps the handle of its last turn until the next one has its own.
Stale ==
    handle # None /\ \E t \in Task :
        task[t].at \in {"ready", "spawned", "end"} /\ task[t].codex # handle

\* A mutant: without a handle there is nothing to wait for.
LookNoFurther ==
    /\ ActorAt("cancel", "look")
    /\ Stale => "handle" \in Windows
    /\ SetActor("cancel", IF handle # None THEN "kill" ELSE "join", handle)
    /\ UNCHANGED <<rows, up, tasks, steering, expiring, world, bounds>>

\* A cancellation terminates the turn it has a handle of, or waits for the task.
Look ==
    /\ ActorAt("cancel", "look")
    /\ Stale => "handle" \in Windows
    /\ IF handle # None THEN SetActor("cancel", "kill", handle)
       ELSE SetActor("cancel", "join", current)
    /\ UNCHANGED <<rows, up, tasks, steering, expiring, world, bounds>>

\* Only a process that is gone lets the caller go on.  By then the row may be that of
\* the next turn, and the caller clears the pid all the same.
Killed(a) ==
    LET c == actor[a].of IN
    /\ ActorAt(a, "kill") /\ a # "shutdown" /\ codex[c] = "exited"
    /\ a # "cancel" /\ InHold /\ pid # c => "late" \in Windows
    /\ \E r \in IF reader[c] = "reads" THEN {"reads", "cancelled"} ELSE {reader[c]} :
         reader' = [reader EXCEPT ![c] = r]
    /\ IF a = "cancel" THEN FinalizeCancellation /\ UNCHANGED pid
       ELSE pid' = None /\ UNCHANGED <<state, mode>>
    /\ SetActor(a, "idle", None)
    /\ UNCHANGED <<held, session, gate, up, tasks, steering, expiring, codex, bounds>>

\* The caller gets an error; the Job stays PAUSED, CANCELLING or waiting.
KillFails(a) ==
    /\ ActorAt(a, "kill") /\ codex[actor[a].of] = "alive" /\ Unconfirmed
    /\ SetActor(a, "idle", None)
    /\ UNCHANGED <<rows, up, tasks, steering, expiring, world, stops>>

\* shutdown: a running turn is suspended and terminated ...
Shutdown ==
    /\ ActorAt("shutdown", "idle") /\ stops < MaxStops /\ handle # None /\ state \notin Terminal
    /\ Stale => "handle" \in Windows
    /\ IF state = "CANCELLING" THEN UNCHANGED <<state, mode>>
       ELSE state' = "WAITING_HOST" /\ mode' = OwnMode
    /\ SetActor("shutdown", "kill", handle) /\ stops' = stops + 1
    /\ UNCHANGED <<pid, held, session, gate, up, tasks, steering, expiring, world, failures>>

Forget ==
    /\ task' = [t \in Task |-> IF task[t].at = "none" THEN NoTask ELSE Over]
    /\ current' = None /\ handle' = None /\ actor' = [a \in Actor |-> Idle]
    /\ steering' = FALSE /\ expiring' = FALSE /\ reader' = [c \in Codex |-> "none"]

\* ... and then every task is cancelled.  A spawn or a reader that is cancelled
\* terminates its process.
ShutdownEnds ==
    /\ ActorAt("shutdown", "kill") /\ codex[actor["shutdown"].of] = "exited"
    /\ FinalizeCancellation /\ pid' = None
    /\ codex' = [c \in Codex |->
           IF \E t \in Task : task[t].at \in {"spawned", "await"} /\ task[t].codex = c
           THEN "exited" ELSE codex[c]]
    /\ up' = "down" /\ Forget
    /\ UNCHANGED <<held, session, gate, bounds>>

-----------------------------------------------------------------------------
(* Starting the next turn: resume, respond_approval, the scheduler, /retry.*)

\* A mutant: the task of the paused turn is not waited for.
ResumeAtOnce ==
    /\ ActorAt("resume", "idle") /\ state = "PAUSED" /\ ~InHold
    /\ SetActor("resume", "join", None)
    /\ UNCHANGED <<rows, up, tasks, steering, expiring, world, bounds>>

Resume ==
    /\ ActorAt("resume", "idle") /\ state = "PAUSED" /\ ~InHold
    /\ SetActor("resume", "join", current)
    /\ UNCHANGED <<rows, up, tasks, steering, expiring, world, bounds>>

Respond ==
    /\ ActorAt("respond", "idle") /\ state = "WAITING_HUMAN" /\ gate = "PENDING"
    /\ gate' = "RESOLVED" /\ SetActor("respond", "join", current)
    /\ UNCHANGED <<state, mode, pid, held, session, up, tasks, steering, expiring, world, bounds>>

\* A mutant: a cancellation relies on the task to end the Job.
JoinedTrusts(a) ==
    /\ ActorAt(a, "join") /\ actor[a].of \in {None} \cup {t \in Task : task[t].at = "over"}
    /\ SetActor(a, "idle", None)
    /\ IF a # "cancel" /\ state = (IF a = "resume" THEN "PAUSED" ELSE "WAITING_HUMAN")
       THEN Move("RUNNING") /\ StartTask("resume") /\ UNCHANGED handle
       ELSE UNCHANGED <<state, tasks>>
    /\ UNCHANGED <<mode, pid, held, session, gate, up, steering, expiring, world, bounds>>

\* The previous task is over.  A Job that was moved meanwhile makes the transition raise.
Joined(a) ==
    /\ ActorAt(a, "join") /\ actor[a].of \in {None} \cup {t \in Task : task[t].at = "over"}
    /\ SetActor(a, "idle", None)
    /\ IF a = "cancel" THEN FinalizeCancellation /\ UNCHANGED tasks
       ELSE IF state = (IF a = "resume" THEN "PAUSED" ELSE "WAITING_HUMAN")
       THEN Move("RUNNING") /\ StartTask("resume") /\ UNCHANGED <<mode, handle>>
       ELSE UNCHANGED <<state, mode, tasks>>
    /\ UNCHANGED <<pid, held, session, gate, up, steering, expiring, world, bounds>>

\* A retry finds the turns before it over, and whoever waited for them gone on: the
\* delay after a quota is longer than a termination, and a Job waits for its own host
\* only at the end of its task.
Retry ==
    /\ up = "up" /\ ActorAt("shutdown", "idle")
    /\ (Quiet /\ Alive = {} /\ NobodyJoins) \/ "retry" \in Windows
    /\ \/ /\ state = "WAITING_HOST" /\ mode = "START"
          /\ Move("ASSIGNED") /\ StartTask("new")
       \/ /\ state \in {"WAITING_HOST", "WAITING_QUOTA"} /\ mode = "RESUME"
          /\ Move("RUNNING") /\ StartTask("resume")
    /\ UNCHANGED <<mode, pid, held, session, gate, up, handle, others, world, bounds>>

\* A mutant: steering does not take the Job's lock.
SteerUnlocked ==
    /\ up = "up" /\ state \in Active /\ ~steering
    /\ steering' = TRUE
    /\ UNCHANGED <<rows, up, tasks, actor, expiring, world, bounds>>

Steer ==
    /\ up = "up" /\ state \in Active /\ ~steering /\ ~Locked
    /\ steering' = TRUE
    /\ UNCHANGED <<rows, up, tasks, actor, expiring, world, bounds>>

\* expire_approvals: the list is read, then each approval is looked at again.
ListExpired ==
    /\ up = "up" /\ ~expiring /\ gate = "PENDING" /\ expiring' = TRUE
    /\ UNCHANGED <<rows, up, tasks, actor, steering, world, bounds>>

\* A mutant: the Job of an expired approval keeps waiting.
ExpireOnly ==
    /\ up = "up" /\ expiring /\ expiring' = FALSE
    /\ gate' = IF gate = "PENDING" THEN "EXPIRED" ELSE gate
    /\ UNCHANGED <<state, mode, pid, held, session, up, tasks, actor, steering, world, bounds>>

Expire ==
    /\ up = "up" /\ expiring /\ expiring' = FALSE
    /\ (Quiet /\ Alive = {}) \/ "expiry" \in Windows
    /\ gate' = IF gate = "PENDING" THEN "EXPIRED" ELSE gate
    /\ Move(IF state = "WAITING_HUMAN" THEN "FAILED" ELSE state)
    /\ UNCHANGED <<mode, pid, held, session, up, tasks, actor, steering, world, bounds>>

-----------------------------------------------------------------------------
(* Crashes and the next start: _terminate_stale_local_processes.           *)

\* The row says that there may be a process nobody knows.
Unrecorded == pid = None /\ state \in {"STARTING", "RUNNING", "CANCELLING"}

Crash ==
    /\ up = "up" /\ stops < MaxStops /\ stops' = stops + 1
    /\ Alive \subseteq {pid} \/ Unrecorded \/ "crash" \in Windows
    /\ up' = "down" /\ Forget
    /\ UNCHANGED <<rows, codex, failures>>

Restart ==
    /\ up = "down"
    /\ IF Unrecorded THEN up' = "refused" /\ UNCHANGED <<state, mode, pid, held, codex>>
       ELSE /\ up' = "up" /\ pid' = None /\ held' = (held /\ ~InHold)
            /\ codex' = IF pid # None THEN [codex EXCEPT ![pid] = "exited"] ELSE codex
            /\ CASE state = "CANCELLING" -> Move("CANCELLED") /\ mode' = "none"
                 [] state \in Active -> Move("WAITING_HOST") /\ mode' = OwnMode
                 [] OTHER -> UNCHANGED <<state, mode>>
    /\ UNCHANGED <<session, gate, tasks, others, reader, bounds>>

-----------------------------------------------------------------------------
TaskStep(t) ==
    \/ Begin(t) \/ Spawn(t) \/ Identify(t) \/ IdentifyFails(t) \/ Hold(t) \/ Bind(t)
    \/ Check(t) \/ StopOwn(t) \/ TakeResult(t) \/ TakeError(t) \/ Drain(t) \/ Close(t) \/ End(t)
ActorStep(a) == Look \/ Killed(a) \/ Joined(a)

Next ==
    \/ \E t \in Task : TaskStep(t)
    \/ \E c \in Codex : CodexEnds(c) \/ ReaderEnds(c) \/ ReaderFails(c) \/ Event(c)
    \/ \E a \in Actor : ActorStep(a) \/ KillFails(a)
    \/ Pause \/ Cancel \/ Resume \/ Respond \/ Retry \/ Steer \/ ListExpired \/ Expire
    \/ Shutdown \/ ShutdownEnds \/ Crash \/ Restart

Spec == Init /\ [][Next]_vars

\* Somebody has asked for the end of this process and waits for it.
Doomed(c) ==
    \/ \E a \in Actor : actor[a] = [at |-> "kill", of |-> c]
    \/ \E t \in Task : task[t].at = "stop" /\ task[t].codex = c

-----------------------------------------------------------------------------
(* Properties.                                                             *)

\* However pause, steering, gate, quota, shutdown, crash and restart interleave, a
\* new turn is spawned only when the Codex of the one before it is gone.
OneCodexInTree == Cardinality(Alive) <= 1

\* docs/PROCESS_SAFETY_P0.md, the first invariant: a Job that is over, and whose tree
\* is free, has no live Codex.
TerminalMeansStopped == state \in Terminal => Alive = {}

\* Of the process of a turn that is waited for, the row tells the start-up the truth or
\* nothing, and never names another one: several requests write it, each after an await
\* of its own.  A request that was late may have cleared it; then the state makes the
\* start-up refuse, or somebody is terminating the process, or could not.
RowLeadsToLiveTurn ==
    \A t \in Task : LET c == task[t].codex IN
        task[t].at = "await" /\ codex[c] = "alive" =>
            \/ pid = c
            \/ pid = None /\ (Unrecorded \/ Doomed(c) \/ failures # 0)

\* While the Job is at work, a queued instruction has the end of a turn ahead that reads
\* it: no pause, gate, loss or retry, and no turn that is just being closed, leaves it
\* behind.  Once taken it may be lost (Spawn), and a crash loses it.
SteeringHasTurnAhead ==
    steering /\ up = "up" /\ state \in Active \cup {"WAITING_AGENT"} =>
        \E t \in Task :
            task[t].at \in {"begin", "ready", "spawned", "bind", "check", "await", "drain"}

\* A Job that waits for a human can be answered, is being answered or expires;
\* respond_approval and expire_approvals settle the approval before the Job, so
\* that a crash between them is left out.
GateCanBeAnswered ==
    state = "WAITING_HUMAN" /\ stops = 0 =>
        gate = "PENDING" \/ expiring \/ actor["respond"].at = "join"

\* A suspended Job leaves no Codex to itself: each live one is being terminated, or
\* belongs to a task that has yet to look at the state, or to a cancellation that has
\* yet to look for the handle.  A turn that was only being started when the Job was
\* suspended has no handle to be stopped by.
SuspendedTurnIsStopped ==
    state \in Suspended /\ up = "up" /\ failures = 0 =>
        \A c \in Alive :
            \/ Doomed(c) \/ actor["cancel"].at = "look"
            \/ \E t \in Task : task[t].codex = c /\ task[t].at \in {"spawned", "bind", "check"}

\* A cancellation is never left behind: somebody in this Controller still has to
\* finish it.  The task, the request, the shutdown and the start-up may each come
\* first, and each leaves the rest to the others.
CancellationProceeds ==
    state = "CANCELLING" /\ up = "up" /\ failures = 0 =>
        \E a \in {"cancel", "shutdown"} : actor[a].at # "idle"

=============================================================================
