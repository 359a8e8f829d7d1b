----------------------------- MODULE JobLeases ------------------------------
(***************************************************************************)
(* How the Controller (controller/job_manager.py) decides which Job works  *)
(* in a working tree: the Job rows, the execution leases                   *)
(* (execution_leases.py), the project session locks                        *)
(* (sessions/project_sessions.py) and the recovery records, all of them    *)
(* rows of one SQLite database.  The scheduler may take any waiting Job:    *)
(* the order of the queue, and whether it drains, is JobQueue's.           *)
(*                                                                         *)
(* Every await between two commits is a point where a request of a user,   *)
(* the recovery scheduler or the task of a Job runs, or the Controller     *)
(* dies.  A request and the scheduler are actors with a program counter    *)
(* (act); the task of a Job has one of its own (task).  The Jobs of the    *)
(* model belong to projects that share one working tree per host, the only *)
(* case in which they compete for it.                                      *)
(***************************************************************************)
EXTENDS Naturals, FiniteSets, JobStates

CONSTANTS
    Job,          \* ids of the Jobs that may be created
    Session,      \* project sessions: one per project and owner
    Host,         \* hosts, each with one working tree
    Local,        \* the Controller's own host
    Handler,      \* concurrent user requests (chat commands, HTTP calls)
    Scheduler,    \* the recovery scheduler
    AutoHost,     \* requested_host = "auto"
    NoJob, NoHost,
    Requestable,  \* what a user may ask for: hosts, or "auto"
    Suspension,   \* how a turn may be suspended in this instance
    MaxCrashes,   \* bound on crashes of the Controller
    MaxOvertakes  \* bound on Jobs whose state changes between read and commit

ASSUME HostAssumption == Local \in Host /\ AutoHost \notin Host /\ NoHost \notin Host
ASSUME InstanceAssumption ==
    Requestable \subseteq Host \cup {AutoHost} /\ Suspension \subseteq Suspended
ASSUME ActorAssumption == Scheduler \notin Handler
ASSUME JobAssumption == NoJob \notin Job /\ IsFiniteSet(Job)
ASSUME BoundAssumption == MaxCrashes \in Nat /\ MaxOvertakes \in Nat

VARIABLES
    \* what the users ask for, fixed from the start
    owner,        \* [Job -> Session]
    request,      \* [Job -> Requestable], requested_host
    \* durable rows
    state,        \* [Job -> JobState \cup {"none"}]
    assigned,     \* [Job -> Host \cup {NoHost}], assigned_host
    mode,         \* [Job -> mode of its recovery record], "none" without a record
                  \* or with one left from an earlier wait
    lease,        \* [Host -> Job \cup {NoJob}], execution_leases
    lock,         \* [Session -> Job \cup {NoJob}], locked_by_job_id
    \* memory of the Controller process
    controller,   \* "down", "starting", "up", "refused"
    repairs,      \* Jobs that reconcile_startup has not come to yet
    act,          \* what each actor is doing, and to which Job
    task,         \* [Job -> phase of its asyncio task]
    \* history and bounds
    begun,        \* Jobs that have come to start Codex
    overtaken,    \* Jobs put to ASSIGNED although their state had changed
    crashes

rows == <<state, assigned, mode, lease, lock>>
memory == <<controller, repairs, act, task>>
history == <<begun, overtaken, crashes>>
rigid == <<owner, request>>
vars == <<rigid, rows, memory, history>>

Actor == Handler \cup {Scheduler}
Mode == {"START", "RESUME", "ADOPT", "FINALIZE", "CANCEL"}
ActPhase ==
    {"idle",
     "add", "place", "record",                                 \* create
     "commit", "giveback", "queue", "enqueue",                 \* ... or wait
     "session", "rollback", "begin",                           \* retry
     "stop", "wait", "unlock", "unlease"}                      \* cancel
TaskPhase ==
    {"none", "new", "starting", "resuming", "turn", "finish", "submit",
     "lost", "unprepared", "unsubmitted",          \* WAITING_HOST, record to write
     "unlock", "unlease"}                          \* terminal, releases to do
\* START for create, RESUME for a retry of a Job that had a Codex session.
NewMode == {"START", "RESUME"}
IdleAct == [at |-> "idle", job |-> NoJob, host |-> NoHost, from |-> "none",
            held |-> FALSE, mode |-> "none"]

RowsTypeOK ==
    /\ state \in [Job -> JobState \cup {"none"}]
    /\ assigned \in [Job -> Host \cup {NoHost}]
    /\ mode \in [Job -> Mode \cup {"none"}]
    /\ lease \in [Host -> Job \cup {NoJob}]
    /\ lock \in [Session -> Job \cup {NoJob}]
MemoryTypeOK ==
    /\ controller \in {"down", "starting", "up", "refused"}
    /\ repairs \subseteq Job
    /\ act \in [Actor -> [at : ActPhase, job : Job \cup {NoJob},
                          host : Host \cup {NoHost},
                          from : JobState \cup {"none"}, held : BOOLEAN,
                          mode : Mode \cup {"none"}]]
    /\ task \in [Job -> TaskPhase]
TypeOK ==
    /\ owner \in [Job -> Session] /\ request \in [Job -> Requestable]
    /\ RowsTypeOK /\ MemoryTypeOK
    /\ begun \subseteq Job /\ overtaken \subseteq Job /\ crashes \in Nat

Init ==
    /\ owner \in [Job -> Session] /\ request \in [Job -> Requestable]
    /\ state = [j \in Job |-> "none"] /\ assigned = [j \in Job |-> NoHost]
    /\ mode = [j \in Job |-> "none"]
    /\ lease = [h \in Host |-> NoJob] /\ lock = [s \in Session |-> NoJob]
    /\ controller = "down" /\ repairs = {}
    /\ act = [a \in Actor |-> IdleAct] /\ task = [j \in Job |-> "none"]
    /\ begun = {} /\ overtaken = {} /\ crashes = 0

-----------------------------------------------------------------------------
(* Small steps that several operations share.                              *)

Live(j) == state[j] \notin TerminalStates \cup {"none"}
Remote(j) == assigned[j] \notin {Local, NoHost}

\* jobs.transition_with_event: one compare-and-set commit.
Move(j, to) == state' = [state EXCEPT ![j] = to]
Moved(j, to, h) == Move(j, to) /\ assigned' = [assigned EXCEPT ![j] = h]

\* release_for_job of the two registries.
Unlocked(j) == lock' = [lock EXCEPT ![owner[j]] = IF @ = j THEN NoJob ELSE @]
Unleased(j) == lease' = [h \in Host |-> IF lease[h] = j THEN NoJob ELSE lease[h]]

Recorded(j, m) == mode' = [mode EXCEPT ![j] = m]

At(a, phase) == controller = "up" /\ act[a].at = phase
Goto(a, phase) == act' = [act EXCEPT ![a].at = phase]
\* The request, or the retry of this Job, is over: done, deferred or raised.
Return(a) == act' = [act EXCEPT ![a] = IdleAct]

Phase(j, phase) == controller = "up" /\ task[j] = phase
Then(j, phase) == task' = [task EXCEPT ![j] = phase]

\* HostRouter.choose: the requested host if it is online, or the first of the
\* project's hosts that is; there may be none, unless it is the Controller's own.
Chosen(asked) == IF asked = AutoHost THEN Host ELSE {asked}
Unavailable(asked) == \E h \in Chosen(asked) : h # Local

-----------------------------------------------------------------------------
(* Waiting for a host or for the working tree.                             *)

\* A mutant: "auto" is stored as the host of the Job.
WaitForHostAuto(a) ==
    LET j == act[a].job IN
    IF CanMove(state[j], "WAITING_HOST")
    THEN Moved(j, "WAITING_HOST", request[j]) /\ Goto(a, "record")
    ELSE Return(a) /\ UNCHANGED <<state, assigned>>

\* _enter_host_wait: the state first, then the recovery record.  An auto Job whose
\* session belongs to a host is not pinned to it here (create, effective_host): the
\* retry may choose any.
WaitForHost(a) ==
    LET j == act[a].job
        pinned == IF request[j] = AutoHost THEN assigned[j] ELSE request[j]
    IN IF CanMove(state[j], "WAITING_HOST")
       THEN Moved(j, "WAITING_HOST", pinned) /\ Goto(a, "record")
       ELSE Return(a) /\ UNCHANGED <<state, assigned>>

RecordHostWait(a) ==
    /\ At(a, "record")
    /\ \E m \in NewMode : Recorded(act[a].job, m)
    /\ Return(a)
    /\ UNCHANGED <<rigid, state, assigned, lease, lock, controller, repairs, task, history>>

\* _enter_lease_wait.  A Job that came from the queue keeps its record.
WaitForLease(a, h) ==
    LET j == act[a].job IN
    IF CanMove(state[j], "WAITING_LEASE")
    THEN /\ Moved(j, "WAITING_LEASE", h)
         /\ IF act[a].from = "WAITING_LEASE" THEN Return(a)
            ELSE act' = [act EXCEPT ![a] =
                    [at |-> "enqueue", job |-> j, host |-> NoHost, from |-> @.from,
                     held |-> @.held, mode |-> @.mode]]
    ELSE Return(a) /\ UNCHANGED <<state, assigned>>

Enqueue(a) ==
    /\ At(a, "enqueue")
    /\ \E m \in IF act[a].mode = "none" THEN NewMode ELSE {act[a].mode} :
          Recorded(act[a].job, m)
    /\ Return(a)
    /\ UNCHANGED <<rigid, state, assigned, lease, lock, controller, repairs, task, history>>

-----------------------------------------------------------------------------
(* Creating a Job: JobManager.create and retry_failed.                     *)

\* The project session is locked for the new Job id, unless it is busy; the Job
\* row does not exist yet.
OpenSession(a, j) ==
    /\ At(a, "idle") /\ a \in Handler /\ state[j] = "none"
    /\ \A b \in Actor : act[b].job # j
    /\ lock' = [lock EXCEPT ![owner[j]] = IF @ = NoJob THEN j ELSE @]
    /\ act' = [act EXCEPT ![a] = [IdleAct EXCEPT !.at = "add", !.job = j]]
    /\ UNCHANGED <<rigid, state, assigned, mode, lease, controller, repairs, task, history>>

AddJob(a) ==
    /\ At(a, "add")
    /\ Move(act[a].job, "QUEUED")
    /\ Goto(a, "place")
    /\ UNCHANGED <<rigid, assigned, mode, lease, lock, controller, repairs, task, history>>

\* Choose a host; wait for it, wait for the session, or go on to assign the Job,
\* whose state is checked here, before the assignment is committed.
Place(a) ==
    LET j == act[a].job IN
    /\ At(a, "place")
    /\ \/ Unavailable(request[j]) /\ WaitForHost(a)
       \/ \E h \in Chosen(request[j]) :
             IF lock[owner[j]] # j THEN WaitForLease(a, h)
             ELSE /\ IF state[j] = "QUEUED"
                     THEN act' = [act EXCEPT ![a] = [IdleAct EXCEPT !.at = "commit",
                                    !.job = j, !.host = h, !.from = "QUEUED"]]
                     ELSE Return(a)
                  /\ UNCHANGED <<state, assigned>>
    /\ UNCHANGED <<rigid, mode, lease, lock, controller, repairs, task, history>>

-----------------------------------------------------------------------------
(* ExecutionLeaseRepository.assign_job and what follows it.                *)

\* The lease row is new, or the Job was seen to hold it already.
LeaseFree(a) ==
    LET j == act[a].job IN
    IF act[a].held THEN \A h \in Host \ {act[a].host} : lease[h] # j
    ELSE lease[act[a].host] = NoJob /\ \A h \in Host : lease[h] # j

\* The Job row is written with the lease.  Its state was compared when the row
\* was read: a change between that read and this commit is overwritten.
AssignCommit(a) ==
    LET j == act[a].job h == act[a].host IN
    /\ At(a, "commit") /\ LeaseFree(a)
    /\ \/ state[j] = act[a].from /\ UNCHANGED overtaken
       \/ /\ state[j] # act[a].from /\ Cardinality(overtaken) < MaxOvertakes
          /\ overtaken' = overtaken \cup {j}
    /\ Moved(j, "ASSIGNED", h)
    /\ lease' = IF act[a].held THEN lease ELSE [lease EXCEPT ![h] = j]
    /\ act' = [act EXCEPT ![a] =
          [at |-> IF @.from = "QUEUED" \/ @.mode = "FINALIZE" THEN "begin" ELSE "session",
           job |-> j, host |-> h, from |-> @.from, held |-> FALSE, mode |-> @.mode]]
    /\ UNCHANGED <<rigid, mode, lock, controller, repairs, task, begun, crashes>>

\* "job state changed during execution lease assignment".
AssignRefused(a) ==
    /\ At(a, "commit") /\ state[act[a].job] # act[a].from
    /\ Return(a)
    /\ UNCHANGED <<rigid, rows, controller, repairs, task, history>>

\* ExecutionLeaseBusyError: a new Job joins the queue, a waiting one stays.
AssignBusy(a) ==
    /\ At(a, "commit") /\ ~LeaseFree(a)
    /\ IF act[a].from = "QUEUED" THEN Goto(a, "giveback") ELSE Return(a)
    /\ UNCHANGED <<rigid, rows, controller, repairs, task, history>>

\* A mutant: a Job joins the queue with its project session locked.
GiveBackNothing(a) ==
    /\ At(a, "giveback")
    /\ Goto(a, "queue")
    /\ UNCHANGED <<rigid, rows, controller, repairs, task, history>>

GiveBackSession(a) ==
    /\ At(a, "giveback")
    /\ Unlocked(act[a].job)
    /\ Goto(a, "queue")
    /\ UNCHANGED <<rigid, state, assigned, mode, lease, controller, repairs, task, history>>

\* A retried Job needs its project session as well, or returns the tree.
AcquireSession(a) ==
    LET j == act[a].job s == owner[j] IN
    /\ At(a, "session")
    /\ IF lock[s] \in {NoJob, j}
       THEN lock' = [lock EXCEPT ![s] = j] /\ Goto(a, "begin")
       ELSE UNCHANGED lock /\ Goto(a, "rollback")
    /\ UNCHANGED <<rigid, state, assigned, mode, lease, controller, repairs, task, history>>

Rollback(a) ==
    /\ At(a, "rollback")
    /\ Unleased(act[a].job)
    /\ Goto(a, "queue")
    /\ UNCHANGED <<rigid, state, assigned, mode, lock, controller, repairs, task, history>>

Queue(a) ==
    /\ At(a, "queue")
    /\ WaitForLease(a, act[a].host)
    /\ UNCHANGED <<rigid, mode, lease, lock, controller, repairs, task, history>>

\* The Job goes on: START in a new task, RESUME and FINALIZE after the moves that
\* the retry makes itself and that raise when the Job was cancelled meanwhile.
Begin(a) ==
    LET j == act[a].job m == act[a].mode IN
    /\ At(a, "begin") /\ task[j] = "none"
    /\ Return(a)
    /\ IF m \in {"none", "START"}
       THEN Then(j, "new") /\ Recorded(j, "none") /\ UNCHANGED <<state, begun>>
       ELSE IF state[j] = "ASSIGNED"
       THEN /\ IF m = "FINALIZE" THEN Move(j, "STARTING") /\ Then(j, "submit")
               ELSE Move(j, "RUNNING") /\ Then(j, "resuming")
            /\ Recorded(j, "none") /\ begun' = begun \cup {j}
       ELSE /\ IF act[a].from = "WAITING_LEASE" THEN Recorded(j, "none") ELSE UNCHANGED mode
            /\ UNCHANGED <<state, task, begun>>
    /\ UNCHANGED <<rigid, assigned, lease, lock, controller, repairs, overtaken, crashes>>

-----------------------------------------------------------------------------
(* Retrying: RecoveryScheduler.tick, recover_due and retry_waiting.        *)

\* A Job that has just been put to wait may still have an older record.
OldMode(j) == NewMode \cup {m \in {"FINALIZE"} : j \in begun}
Records(j) == IF mode[j] # "none" THEN {mode[j]} ELSE {m \in OldMode(j) : j \in begun}

\* _retry_lease and _retry_host up to the assignment.  A bound Job goes back to
\* the host it had; a Job in ADOPT is left to its Runner.
AskedHost(j, m) ==
    IF assigned[j] # NoHost /\ (state[j] = "WAITING_LEASE" \/ m # "START")
    THEN assigned[j] ELSE request[j]
Retry(a, j, m) ==
    /\ state[j] \in {"WAITING_LEASE", "WAITING_HOST"}
    /\ m \in {"START", "RESUME", "FINALIZE"}
    /\ \E h \in Chosen(AskedHost(j, m)) :
          act' = [act EXCEPT ![a] =
                    [at |-> "commit", job |-> j, host |-> h, from |-> state[j],
                     held |-> \E g \in Host : lease[g] = j, mode |-> m]]
    /\ UNCHANGED <<rigid, state, assigned, lease, lock, controller, repairs, task, history>>

\* A tick of the scheduler goes through the records one by one.
ScheduledRetry(j) ==
    /\ At(Scheduler, "idle")
    /\ \E m \in Records(j) : Retry(Scheduler, j, m)
    /\ UNCHANGED mode

\* The record of a finished Job is deleted.
ForgetFinished(j) ==
    /\ At(Scheduler, "idle") /\ ~Live(j) /\ mode[j] # "none"
    /\ Recorded(j, "none")
    /\ UNCHANGED <<rigid, state, assigned, lease, lock, memory, history>>

\* /retry of a user; two for the same Job wait for each other.  A record that is
\* still to be written is reconstructed.
ManualRetry(a, j) ==
    /\ At(a, "idle") /\ a \in Handler
    /\ \A b \in Handler : act[b].job = j =>
          act[b].from \notin {"WAITING_LEASE", "WAITING_HOST"}
    /\ \E m \in IF mode[j] = "none" THEN OldMode(j) ELSE {mode[j]} :
          Retry(a, j, m) /\ Recorded(j, m)

-----------------------------------------------------------------------------
(* The task of a Job, as far as it moves the Job.                          *)

SameRows == UNCHANGED <<rigid, assigned, lease, lock, controller, repairs, act,
                        overtaken, crashes>>

\* The step ends in a state of the Job and a phase of the task; moving to
\* WAITING_QUOTA saves a RESUME record first.
Ends(j, to, phase) ==
    /\ Move(j, to) /\ Then(j, phase)
    /\ IF to = "WAITING_QUOTA" THEN Recorded(j, "RESUME") ELSE UNCHANGED mode
    /\ UNCHANGED <<begun>>
QuotaOut(j) == "WAITING_QUOTA" \in Suspension /\ Ends(j, "WAITING_QUOTA", "none")
Leaves(j) == Then(j, "none") /\ UNCHANGED <<state, mode, begun>>

\* _fail: some states are left alone, anything else that may becomes FAILED.
Kept == TerminalStates \cup Suspended \cup {"CANCELLING", "WAITING_HOST"}
Fails(j) ==
    IF state[j] \notin Kept /\ CanMove(state[j], "FAILED")
    THEN Ends(j, "FAILED", "unlock") ELSE Leaves(j)

\* _execute_new and _execute_retry, to the dispatch of Codex.
StartTask(j) ==
    /\ Phase(j, "new")
    /\ IF state[j] = "ASSIGNED"
       THEN /\ Move(j, "STARTING") /\ Then(j, "starting")
            /\ begun' = begun \cup {j} /\ UNCHANGED <<mode>>
       ELSE Fails(j)
    /\ SameRows

\* The adapter prepares, Codex is spawned, and the Job is RUNNING, or not.
SpawnTurn(j) ==
    /\ Phase(j, "starting")
    /\ IF state[j] = "STARTING"
       THEN \/ Ends(j, "RUNNING", "turn") \/ Ends(j, "FAILED", "unlock")
            \/ Ends(j, "COMPLETED", "unlock") \/ QuotaOut(j)
            \/ Remote(j) /\ Ends(j, "WAITING_HOST", "unprepared")
       ELSE Fails(j)
    /\ SameRows

\* _resume_or_fallback: a state other than RUNNING ends the task quietly.
ResumeTurn(j) ==
    /\ Phase(j, "resuming")
    /\ IF state[j] = "RUNNING"
       THEN \/ Then(j, "turn") /\ UNCHANGED <<state, mode, begun>>
            \/ Ends(j, "FAILED", "unlock") \/ QuotaOut(j)
            \/ Remote(j) /\ Ends(j, "WAITING_HOST", "lost")
       ELSE Leaves(j)
    /\ SameRows

\* _await_handle and _finish_or_continue.
EndTurn(j) ==
    /\ Phase(j, "turn")
    /\ CASE state[j] = "RUNNING" ->
              \/ Ends(j, "WAITING_AGENT", "finish") \/ Ends(j, "FAILED", "unlock")
              \/ \E s \in Suspension : Ends(j, s, "none")
              \/ Remote(j) /\ Ends(j, "WAITING_HOST", "lost")
         [] state[j] = "CANCELLING" ->
              \/ /\ Move(j, "CANCELLED") /\ Then(j, "unlock")
                 /\ Recorded(j, "none") /\ UNCHANGED begun
              \/ /\ Remote(j) /\ Then(j, "none") /\ Recorded(j, "CANCEL")
                 /\ UNCHANGED <<state, begun>>
         [] OTHER -> Fails(j)
    /\ SameRows

\* _run_qa_then_finalize and _finalize_project_adapter; "submit" is the same
\* finalization when it was retried (_execute_project_finalize).
Finalize(j) ==
    /\ \/ Phase(j, "finish") /\ state[j] = "WAITING_AGENT"
       \/ Phase(j, "submit") /\ state[j] = "STARTING"
    /\ \/ Ends(j, "COMPLETED", "unlock") \/ Ends(j, "FAILED", "unlock")
       \/ Remote(j) /\ Ends(j, "WAITING_HOST", "unsubmitted")
    /\ SameRows

\* The Job was cancelled meanwhile: the last transition of the task is refused.
FinalizeRefused(j) ==
    /\ \/ Phase(j, "finish") /\ state[j] # "WAITING_AGENT"
       \/ Phase(j, "submit") /\ state[j] # "STARTING"
    /\ Fails(j)
    /\ SameRows

\* _enter_host_wait writes the recovery record after the state.
RecordLoss(j) ==
    /\ \E phase \in {"lost", "unprepared", "unsubmitted"} : Phase(j, phase)
    /\ \E m \in CASE task[j] = "lost" -> {"RESUME"}
                  [] task[j] = "unprepared" -> {"START", "RESUME"}
                  [] OTHER -> {"FINALIZE"} : Recorded(j, m)
    /\ Then(j, "none")
    /\ UNCHANGED <<state, begun>>
    /\ SameRows

\* A mutant: the end of a Job gives back the session and forgets the tree.
ReleaseSessionOnly(j) ==
    /\ Phase(j, "unlock")
    /\ Unlocked(j) /\ Then(j, "none") /\ Recorded(j, "none")
    /\ UNCHANGED <<rigid, state, assigned, lease, controller, repairs, act, history>>

\* _transition to a terminal state releases the session, then the lease; the
\* recovery record goes last.
ReleaseTask(j) ==
    /\ \/ /\ Phase(j, "unlock")
          /\ Unlocked(j) /\ Then(j, "unlease")
          /\ UNCHANGED <<lease, mode>>
       \/ /\ Phase(j, "unlease")
          /\ Unleased(j) /\ Recorded(j, "none") /\ Then(j, "none")
          /\ UNCHANGED lock
    /\ UNCHANGED <<rigid, state, assigned, controller, repairs, act, history>>

\* resume, respond_approval and _retry_quota, once the previous task has ended.
Resume(j) ==
    /\ Phase(j, "none") /\ state[j] \in Suspended
    /\ \/ Ends(j, "RUNNING", "resuming")
       \/ Remote(j) /\ state[j] # "WAITING_QUOTA" /\ Ends(j, "WAITING_HOST", "lost")
    /\ SameRows

ExpireApproval(j) ==
    /\ Phase(j, "none") /\ state[j] = "WAITING_HUMAN"
    /\ Ends(j, "FAILED", "unlock")
    /\ SameRows

-----------------------------------------------------------------------------
(* Cancelling: JobManager.cancel and the confirmation of a Runner.         *)

CancelRequest(a, j) ==
    /\ At(a, "idle") /\ a \in Handler /\ Live(j)
    /\ \A b \in Handler :
          act[b].job = j => act[b].at \notin {"stop", "wait", "unlock", "unlease"}
    /\ Move(j, "CANCELLING")
    /\ act' = [act EXCEPT ![a] = [IdleAct EXCEPT !.at = "stop", !.job = j]]
    /\ UNCHANGED <<rigid, assigned, mode, lease, lock, controller, repairs, task, history>>

\* _finalize_cancellation, unless the Job is no longer CANCELLING.
Confirm(a) ==
    LET j == act[a].job IN
    IF state[j] = "CANCELLING"
    THEN Recorded(j, "none") /\ Move(j, "CANCELLED") /\ Goto(a, "unlock")
    ELSE Return(a) /\ UNCHANGED <<state, mode>>

\* There is a handle: stop its turn, which a Runner may fail to confirm.  The
\* handle of a turn that is over stays until the task ends.
StopTurn(a) ==
    LET j == act[a].job IN
    /\ At(a, "stop") /\ task[j] \in {"turn", "finish"}
    /\ \/ /\ Confirm(a)
          /\ task' = IF task[j] = "turn" THEN [task EXCEPT ![j] = "none"] ELSE task
       \/ /\ task[j] = "turn" /\ Remote(j)
          /\ Recorded(j, "CANCEL") /\ Return(a)
          /\ UNCHANGED <<state, task>>
    /\ UNCHANGED <<rigid, assigned, lease, lock, controller, repairs, history>>

NoHandle(a) ==
    /\ At(a, "stop") /\ task[act[a].job] \notin {"turn", "finish"}
    /\ Goto(a, "wait")
    /\ UNCHANGED <<rigid, rows, controller, repairs, task, history>>

\* The task, if there was one, has ended.  A remote execution that is on record
\* is left to the reconciliation with its Runner.
TaskOver(a) ==
    LET j == act[a].job IN
    /\ At(a, "wait") /\ task[j] = "none"
    /\ \/ Confirm(a)
       \/ /\ state[j] = "CANCELLING" /\ Remote(j) /\ j \in begun
          /\ Recorded(j, "CANCEL") /\ Return(a)
          /\ UNCHANGED <<state>>
    /\ UNCHANGED <<rigid, assigned, lease, lock, controller, repairs, task, history>>

ReleaseCancelled(a) ==
    /\ \/ /\ At(a, "unlock")
          /\ Unlocked(act[a].job) /\ Goto(a, "unlease") /\ UNCHANGED lease
       \/ /\ At(a, "unlease")
          /\ Unleased(act[a].job) /\ Return(a) /\ UNCHANGED lock
    /\ UNCHANGED <<rigid, state, assigned, mode, controller, repairs,
                   task, history>>

-----------------------------------------------------------------------------
(* reconcile_runner: what a snapshot of the Runner's executions does.      *)

\* A reported execution is adopted: ASSIGNED, STARTING, RUNNING in one go.
Adopt(j) ==
    /\ Phase(j, "none") /\ state[j] = "WAITING_HOST"
    /\ Remote(j) /\ j \in begun
    /\ Ends(j, "RUNNING", "turn")
    /\ SameRows

ConfirmAbsent(j) ==
    /\ Phase(j, "none") /\ state[j] = "WAITING_HOST" /\ mode[j] = "ADOPT"
    /\ \E m \in {"START", "RESUME"} : Recorded(j, m)
    /\ UNCHANGED <<state, task, begun>>
    /\ SameRows

\* _execute_cancel_adopted: the Runner confirmed the pending cancellation.
CancelAdopted(j) ==
    /\ Phase(j, "none") /\ state[j] = "CANCELLING" /\ mode[j] = "CANCEL" /\ Remote(j)
    /\ Move(j, "CANCELLED") /\ Recorded(j, "none") /\ Then(j, "unlock") /\ UNCHANGED begun
    /\ SameRows

-----------------------------------------------------------------------------
(* Crash and restart: reconcile_startup.                                   *)

Crash ==
    /\ controller \in {"starting", "up"} /\ crashes < MaxCrashes
    /\ crashes' = crashes + 1
    /\ controller' = "down" /\ repairs' = {}
    /\ act' = [a \in Actor |-> IdleAct] /\ task' = [j \in Job |-> "none"]
    /\ UNCHANGED <<rigid, rows, begun, overtaken>>

\* A mutant: only Jobs that may have a process claim their tree.
ClaimsWhileActive(j, h) ==
    state[j] \in {"ASSIGNED", "STARTING", "RUNNING", "CANCELLING"} /\ assigned[j] = h

\* _reconcile_execution_leases: every live Job with a host claims its tree there,
\* except in WAITING_LEASE; two claims, or a lease elsewhere, refuse the start.
Claims(j, h) == Live(j) /\ state[j] # "WAITING_LEASE" /\ assigned[j] = h
Conflict ==
    \/ \E i, j \in Job, h \in Host : i # j /\ Claims(i, h) /\ Claims(j, h)
    \/ \E g, h \in Host, j \in Job : g # h /\ lease[g] = j /\ Claims(j, h)
Claimant(h) ==
    IF \E j \in Job : Claims(j, h) THEN CHOOSE j \in Job : Claims(j, h) ELSE NoJob

\* The leases that were corrected before the conflict was met are left as they were: the
\* next start computes them anew.
RefuseStart ==
    /\ controller \in {"down", "refused"} /\ Conflict
    /\ controller' = "refused"
    /\ UNCHANGED <<rigid, rows, repairs, act, task, history>>

Start ==
    /\ controller \in {"down", "refused"} /\ ~Conflict
    /\ controller' = "starting"
    /\ lease' = [h \in Host |-> Claimant(h)]
    /\ lock' = [s \in Session |->
                  IF lock[s] \in Job /\ Live(lock[s]) THEN lock[s] ELSE NoJob]
    /\ repairs' = {j \in Job : Live(j)}
    /\ UNCHANGED <<rigid, state, assigned, mode, act, task, history>>

\* What the restart makes of a Job that was ...
Repair(j) ==
    /\ controller = "starting" /\ j \in repairs
    /\ repairs' = repairs \ {j}
    /\ CASE state[j] = "QUEUED" ->                   \* not assigned yet
              /\ Move(j, "WAITING_HOST")
              /\ \E m \in NewMode : Recorded(j, m)
              /\ UNCHANGED <<lease, lock>>
         [] state[j] = "CANCELLING" /\ ~Remote(j) ->
              /\ Move(j, "CANCELLED") /\ Unlocked(j) /\ Unleased(j) /\ Recorded(j, "none")
         [] state[j] = "CANCELLING" /\ Remote(j) ->
              /\ Recorded(j, "CANCEL")
              /\ UNCHANGED <<state, lease, lock>>
         [] state[j] \in {"ASSIGNED", "STARTING", "RUNNING"} ->
              /\ Move(j, "WAITING_HOST")
              /\ \E m \in IF Remote(j) THEN {"ADOPT"} ELSE NewMode :
                    Recorded(j, m)
              /\ UNCHANGED <<lease, lock>>
         [] state[j] = "WAITING_AGENT" ->
              /\ Move(j, "WAITING_HOST")
              /\ \E m \in NewMode \cup {"FINALIZE"} : Recorded(j, m)
              /\ UNCHANGED <<lease, lock>>
         [] state[j] = "WAITING_LEASE" /\ mode[j] = "none" ->
              /\ Recorded(j, "START")
              /\ UNCHANGED <<state, lease, lock>>
         [] state[j] = "WAITING_HOST" /\ mode[j] = "none" ->
              \* a record that the crash left disarmed keeps its mode
              /\ \E m \in OldMode(j) \cup {x \in {"ADOPT"} : Remote(j)} :
                    Recorded(j, m)
              /\ UNCHANGED <<state, lease, lock>>
         [] OTHER -> UNCHANGED <<state, mode, lease, lock>>
    /\ UNCHANGED <<rigid, assigned, controller, act, task, history>>

Ready ==
    /\ controller = "starting" /\ repairs = {}
    /\ controller' = "up"
    /\ UNCHANGED <<rigid, rows, repairs, act, task, history>>

-----------------------------------------------------------------------------
Request(a, j) == OpenSession(a, j) \/ ManualRetry(a, j) \/ CancelRequest(a, j)

\* What an actor has begun goes on by itself.
Proceed(a) ==
    \/ AddJob(a) \/ Place(a) \/ RecordHostWait(a)
    \/ AssignCommit(a) \/ AssignRefused(a) \/ AssignBusy(a) \/ GiveBackSession(a)
    \/ AcquireSession(a) \/ Rollback(a) \/ Queue(a) \/ Enqueue(a) \/ Begin(a)
    \/ StopTurn(a) \/ NoHandle(a) \/ TaskOver(a) \/ ReleaseCancelled(a)

Work(j) ==
    \/ StartTask(j) \/ SpawnTurn(j) \/ ResumeTurn(j)
    \/ Finalize(j) \/ FinalizeRefused(j) \/ RecordLoss(j) \/ ReleaseTask(j)

RunnerReport(j) == Adopt(j) \/ ConfirmAbsent(j) \/ CancelAdopted(j)

Next ==
    \/ \E a \in Actor : Proceed(a) \/ \E j \in Job : Request(a, j)
    \/ \E j \in Job :
          \/ Work(j) \/ EndTurn(j) \/ Resume(j) \/ ExpireApproval(j)
          \/ RunnerReport(j) \/ ScheduledRetry(j) \/ ForgetFinished(j) \/ Repair(j)
    \/ Crash \/ RefuseStart \/ Start \/ Ready

Spec == Init /\ [][Next]_vars

-----------------------------------------------------------------------------
(* Properties.                                                             *)

\* From the moment a Job starts Codex to its terminal state it owns its working
\* tree and its project session, through every suspension, disconnect, crash
\* and retry: no other Job can start in that tree or session meanwhile.
LeaseHeldSinceStart ==
    \A j \in begun \ overtaken : Live(j) =>
        /\ assigned[j] \in Host /\ lease[assigned[j]] = j
        /\ lock[owner[j]] = j

\* A queued Job holds neither the tree nor the session it waits for, so it can
\* not block the Jobs in front of it.
WaitingOwnsNothing ==
    \A j \in Job \ overtaken : state[j] = "WAITING_LEASE" =>
        (\A h \in Host : lease[h] # j) /\ lock[owner[j]] # j

\* The tree of a finished Job is free, or the coroutine that finished it is
\* about to free it; only a restart may find it otherwise, and repairs it.
NoLeakedLease ==
    controller = "up" =>
        \A j \in Job \ overtaken, h \in Host :
            state[j] \in TerminalStates /\ lease[h] = j =>
                \/ task[j] \in {"unlock", "unlease"}
                \/ \E a \in Actor : act[a].job = j /\ act[a].at \in {"unlock", "unlease"}

\* "Lifecycle transitions also verify the persisted current state inside the same
\* transaction" (docs/LIFECYCLE_ATOMICITY_P1.md): a cancelled Job stays cancelled.
CancelIsFinal ==
    [][\A j \in Job : state[j] \in {"CANCELLING", "CANCELLED"} =>
          state'[j] \in {"CANCELLING", "CANCELLED"}]_vars

=============================================================================
