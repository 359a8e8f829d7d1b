------------------------------ MODULE JobQueue ------------------------------
(***************************************************************************)
(* The queue for one working tree of the Controller's host, and the        *)
(* project sessions of the Jobs in it: what JobLeases leaves out, the order*)
(* of the queue (queue_position) and the Codex thread that one Job hands to*)
(* the next (sessions/project_sessions.py), while the user opens and       *)
(* changes sessions, reorders the queue and retries by hand.               *)
(*                                                                         *)
(* A suspended turn is a long one here.  Every update of a session row is  *)
(* made with the asyncio lock of its owner; only the operations of two     *)
(* commits keep it between two steps (SessionFree).                        *)
(***************************************************************************)
EXTENDS Naturals, FiniteSets, Sequences, SequencesExt

CONSTANTS
    MaxJob,       \* Jobs are numbered in the order of their creation
    Owner,        \* an owner has the sessions of one project
    Ownership,    \* who may create which Job, in this instance
    Session,      \* ids of session rows
    Request,      \* concurrent requests of users
    Tick,         \* the recovery scheduler
    MaxCrashes,   \* bound on crashes of the Controller
    MaxRequests,  \* bound on what users ask for besides new Jobs
    MaxStale      \* bound on changes while a place that was read is written back

Job == 1..MaxJob

ASSUME OwnerAssumption == Owner # {} /\ Ownership \subseteq [Job -> Owner]
ASSUME ActorAssumption == Tick \notin Request
ASSUME BoundAssumption == {MaxJob, MaxCrashes, MaxRequests, MaxStale} \subseteq Nat

None == 0
Thread == Job \cup {None}     \* a Codex thread is named after the Job that opened it
Actor == Request \cup {Tick}

VARIABLES
    owner,        \* [Job -> Owner], fixed from the start
    \* durable rows
    state,        \* [Job -> ...]; "ended" is terminal
    bound,        \* Jobs with an assigned_host
    thread,       \* [Job -> Thread], external_session_id
    known, place, \* Jobs with a recovery record, and their queue_position or 0
    session,      \* [Session -> [status, owner, thread, lock]]
    tree,         \* the Job that holds the execution lease
    \* memory of the Controller
    up,           \* "up", "down", or "refused" to start
    act,          \* what each actor is doing, to which Job
    due,          \* the rest of the records that this tick has read
    task,         \* [Job -> phase of its task]
    closing,      \* [Job -> what is left of its end]
    \* history and bounds
    disturbed,    \* the queue has changed, or what it waits for, since the tick's List
    crashes, requests, stale

rows == <<state, bound, thread, known, place, session, tree>>
memory == <<up, act, due, task, closing>>
bounds == <<crashes, requests, stale>>
vars == <<owner, rows, memory, disturbed, bounds>>

NoSession == [status |-> "none", owner |-> CHOOSE o \in Owner : TRUE,
              thread |-> None, lock |-> None]
Doing(at, j, from, t, p) ==
    [at |-> at, job |-> j, from |-> from, thread |-> t, place |-> p, target |-> "none"]
Idle == Doing("idle", None, "none", None, 0)

JobState == {"none", "QUEUED", "WAITING_LEASE", "WAITING_HOST", "ASSIGNED", "RUNNING", "ended"}
Activity == [at : {"idle", "session", "lock", "row", "assign", "giveback", "rollback", "wait",
                   "enqueue", "write", "refresh", "begin", "reopen"},
             job : Job \cup {None}, from : {"none", "QUEUED", "WAITING_LEASE", "WAITING_HOST"},
             thread : Thread, place : Nat, target : Session \cup {"none"}]
RowsTypeOK ==
    /\ owner \in [Job -> Owner] /\ state \in [Job -> JobState]
    /\ bound \subseteq Job /\ known \subseteq Job /\ thread \in [Job -> Thread]
    /\ place \in [Job -> Nat] /\ tree \in Job \cup {None}
    /\ session \in [Session -> [status : {"none", "open", "closed"}, owner : Owner,
                                thread : Thread, lock : Job \cup {None}]]
MemoryTypeOK ==
    /\ up \in {"up", "down", "refused"} /\ due \in Seq(Job) /\ act \in [Actor -> Activity]
    /\ task \in [Job -> {"none", "turn", "bind", "bound"}]
    /\ closing \in [Job -> {"none", "unlock", "unlease"}]
HistoryTypeOK == disturbed \in BOOLEAN /\ {crashes, requests, stale} \subseteq Nat
TypeOK == RowsTypeOK /\ MemoryTypeOK /\ HistoryTypeOK

Init ==
    /\ owner \in Ownership
    /\ state = [j \in Job |-> "none"] /\ bound = {} /\ thread = [j \in Job |-> None]
    /\ known = {} /\ place = [j \in Job |-> 0]
    /\ session = [s \in Session |-> NoSession] /\ tree = None
    /\ up = "up" /\ act = [a \in Actor |-> Idle] /\ due = <<>>
    /\ task = [j \in Job |-> "none"] /\ closing = [j \in Job |-> "none"]
    /\ disturbed = FALSE /\ crashes = 0 /\ requests = 0 /\ stale = 0

-----------------------------------------------------------------------------
(* Shared steps.                                                           *)

At(a, at) == up = "up" /\ act[a].at = at
Goto(a, at) == act' = [act EXCEPT ![a].at = at]
Return(a) == act' = [act EXCEPT ![a] = Idle]
\* An exception ends the request, or the tick with all that it has not looked at.
Raise(a) == Return(a) /\ due' = IF a = Tick THEN <<>> ELSE due
Move(j, to) == state' = [state EXCEPT ![j] = to]

\* ProjectSessionRepository.active_for, and a row that is not in use.
Open(o) == {s \in Session : session[s].status = "open" /\ session[s].owner = o}
Unused == {s \in Session : session[s].status = "none" /\ \A a \in Actor : act[a].target # s}
NewRow == {s \in Unused : s = CHOOSE t \in Unused : TRUE}
Holds(j) == \E s \in Open(owner[j]) : session[s].lock = j

\* A mutant: the registry works without its lock.
SessionUnguarded(o) == TRUE

\* The lock of ProjectSessionRegistry for this owner: acquire keeps it between the
\* new row and its lock, /session between closing one session and opening the next.
SessionOwner(a) ==
    IF act[a].at = "reopen" THEN session[act[a].target].owner ELSE owner[act[a].job]
SessionFree(o) ==
    \A a \in Actor : act[a].at \in {"lock", "reopen"} => SessionOwner(a) # o

\* release_for_job of the two registries.
Unlocked(j) ==
    session' = [s \in Session |-> IF s \in Open(owner[j]) /\ session[s].lock = j
                                  THEN [session[s] EXCEPT !.lock = None] ELSE session[s]]
Unleased(j) == tree' = IF tree = j THEN None ELSE tree

NextPlace == 1 + CHOOSE p \in {0} \cup {place[j] : j \in Job} : \A j \in Job : place[j] <= p

-----------------------------------------------------------------------------
(* Creating a Job: JobManager.create.                                      *)

Create(a, j) ==
    /\ At(a, "idle") /\ a # Tick /\ state[j] = "none"
    /\ \A i \in Job : i < j => state[i] # "none"
    /\ \A b \in Actor : act[b].job # j
    /\ act' = [act EXCEPT ![a] = Doing("session", j, "none", None, 0)]
    /\ UNCHANGED <<owner, rows, up, due, task, closing, disturbed, bounds>>

\* The thread of a session that a Job opens: its own, or that of the owner's last Job.
Seed(j) ==
    LET mine == {i \in Job : owner[i] = owner[j] /\ state[i] # "none"} IN
    IF state[j] # "none" \/ mine = {} THEN thread[j]
    ELSE thread[CHOOSE i \in mine : \A k \in mine : k <= i]

\* ProjectSessionRegistry.acquire with the open session.  A new Job takes note of the
\* thread even if it is busy.
Lock(a) ==
    LET j == act[a].job
        s == CHOOSE s \in Open(owner[j]) : TRUE
        new == act[a].from = "none" IN
    /\ IF session[s].lock \in {None, j}
       THEN /\ session' = [session EXCEPT ![s].lock = j]
            /\ act' = [act EXCEPT ![a] = Doing(IF new THEN "row" ELSE "refresh", j, @.from,
                                               session[s].thread, @.place)]
       ELSE UNCHANGED session /\ Goto(a, IF new THEN "row" ELSE "rollback")
    /\ thread' = IF new THEN [thread EXCEPT ![j] = session[s].thread] ELSE thread

Acquire(a) ==
    LET j == act[a].job o == owner[j] IN
    /\ At(a, "session") /\ SessionFree(o)
    /\ IF Open(o) # {} THEN Lock(a)
       ELSE /\ \E s \in NewRow : session' = [session EXCEPT ![s] =
                     [status |-> "open", owner |-> o, thread |-> Seed(j), lock |-> None]]
            /\ Goto(a, "lock") /\ UNCHANGED thread
    /\ UNCHANGED <<owner, state, bound, known, place, tree, up, due, task, closing,
                   disturbed, bounds>>

LockNew(a) ==
    /\ At(a, "lock") /\ Lock(a)
    /\ UNCHANGED <<owner, state, bound, known, place, tree, up, due, task, closing,
                   disturbed, bounds>>

AddJob(a) ==
    LET j == act[a].job IN
    /\ At(a, "row")
    /\ Move(j, "QUEUED")
    /\ act' = [act EXCEPT ![a] = Doing(IF Holds(j) THEN "assign" ELSE "wait", j, "QUEUED",
                                       @.thread, @.place)]
    /\ UNCHANGED <<owner, bound, thread, known, place, session, tree, up, due, task, closing,
                   disturbed, bounds>>

-----------------------------------------------------------------------------
(* ExecutionLeaseRegistry.assign_job, and the ways out of it.              *)

Assign(a) ==
    LET j == act[a].job IN
    /\ At(a, "assign")
    /\ IF state[j] # act[a].from
       THEN Raise(a) /\ UNCHANGED <<state, bound, tree>>
       ELSE IF tree \in {None, j}
       THEN /\ tree' = j /\ Move(j, "ASSIGNED") /\ bound' = bound \cup {j}
            /\ Goto(a, IF act[a].from = "QUEUED" THEN "begin" ELSE "session")
            /\ UNCHANGED due
       ELSE /\ UNCHANGED <<state, bound, tree, due>>
            /\ IF act[a].from = "QUEUED" THEN Goto(a, "giveback") ELSE Return(a)
    /\ UNCHANGED <<owner, thread, known, place, session, up, task, closing, disturbed, bounds>>

GiveBack(a) ==
    LET j == act[a].job IN
    /\ At(a, "giveback") /\ SessionFree(owner[j])
    /\ Unlocked(j) /\ Goto(a, "wait") /\ disturbed' = TRUE
    /\ UNCHANGED <<owner, state, bound, thread, known, place, tree, up, due, task, closing, bounds>>

Rollback(a) ==
    /\ At(a, "rollback")
    /\ Unleased(act[a].job) /\ Goto(a, "wait") /\ disturbed' = TRUE
    /\ UNCHANGED <<owner, state, bound, thread, known, place, session, up, due, task, closing, bounds>>

\* _enter_lease_wait, the state and the place it finds.  A Job that was queued before
\* keeps its record, and its place with it.
Wait(a) ==
    LET j == act[a].job IN
    /\ At(a, "wait")
    /\ IF state[j] \in {"QUEUED", "ASSIGNED"}
       THEN /\ Move(j, "WAITING_LEASE") /\ bound' = bound \cup {j} /\ UNCHANGED due
            /\ IF act[a].from = "WAITING_LEASE" THEN Return(a)
               ELSE act' = [act EXCEPT ![a] = Doing(IF place[j] = 0 THEN "enqueue" ELSE "write",
                                                    j, @.from, @.thread, place[j])]
       ELSE Raise(a) /\ UNCHANGED <<state, bound>>
    /\ disturbed' = TRUE
    /\ UNCHANGED <<owner, thread, known, place, session, tree, up, task, closing, bounds>>

\* A mutant: a Job is put to wait without a recovery record.
EnqueueUnrecorded(a) ==
    /\ At(a, "enqueue") /\ Return(a) /\ disturbed' = TRUE
    /\ UNCHANGED <<owner, rows, up, due, task, closing, bounds>>

\* With the lock of the order: the next place, unless there is one by now.
Enqueue(a) ==
    LET j == act[a].job IN
    /\ At(a, "enqueue")
    /\ place' = [place EXCEPT ![j] = IF @ = 0 THEN NextPlace ELSE @]
    /\ known' = known \cup {j} /\ Return(a) /\ disturbed' = TRUE
    /\ UNCHANGED <<owner, state, bound, thread, session, tree, up, due, task, closing, bounds>>

\* Without it: the place that was found is written back.
WriteBack(a) ==
    LET j == act[a].job IN
    /\ At(a, "write")
    /\ place' = [place EXCEPT ![j] = act[a].place]
    /\ known' = known \cup {j} /\ Return(a) /\ disturbed' = TRUE
    /\ UNCHANGED <<owner, state, bound, thread, session, tree, up, due, task, closing, bounds>>

\* Another place for Jobs while one that was found is about to be written back.
Written == {act[a].job : a \in {b \in Actor : act[b].at = "write"}}
Overwrites(js) ==
    IF js \cap Written = {} THEN UNCHANGED stale ELSE stale < MaxStale /\ stale' = stale + 1

\* A mutant: a queued Job keeps the thread it took note of when it was created.
RefreshNothing(a) ==
    /\ At(a, "refresh") /\ Goto(a, "begin")
    /\ UNCHANGED <<owner, rows, up, due, task, closing, disturbed, bounds>>

\* "reacquires the user's current Project Session so it resumes the latest Codex thread".
Refresh(a) ==
    LET j == act[a].job IN
    /\ At(a, "refresh")
    /\ thread' = [thread EXCEPT ![j] = act[a].thread]
    /\ Goto(a, "begin")
    /\ UNCHANGED <<owner, state, bound, known, place, session, tree, up, due, task, closing,
                   disturbed, bounds>>

\* The record is disarmed and leaves the queue; the task starts.
Begin(a) ==
    LET j == act[a].job queued == act[a].from = "WAITING_LEASE" IN
    /\ At(a, "begin")
    /\ place' = IF queued THEN [place EXCEPT ![j] = 0] ELSE place
    /\ IF queued THEN Overwrites({j}) ELSE UNCHANGED stale
    /\ known' = IF act[a].from = "QUEUED" THEN known ELSE known \cup {j}
    /\ IF state[j] = "ASSIGNED"
       THEN Move(j, "RUNNING") /\ task' = [task EXCEPT ![j] = "turn"] /\ Return(a) /\ UNCHANGED due
       ELSE Raise(a) /\ UNCHANGED <<state, task>>
    /\ UNCHANGED <<owner, bound, thread, session, tree, up, closing, disturbed, crashes, requests>>

-----------------------------------------------------------------------------
(* RecoveryScheduler.tick, recover_due, and /retry.                        *)

\* A mutant: the records come in no order.
ListAny ==
    /\ At(Tick, "idle") /\ due = <<>> /\ known # {}
    /\ due' \in SetToSeqs(known) /\ disturbed' = FALSE
    /\ UNCHANGED <<owner, rows, up, act, task, closing, bounds>>

\* RecoveryRepository.list: by place, and those without one last.
InOrder(records) ==
    \A m, n \in DOMAIN records :
        m < n => place[records[n]] = 0 \/ place[records[m]] \in 1..place[records[n]]
List ==
    /\ At(Tick, "idle") /\ due = <<>> /\ known # {}
    /\ due' \in {records \in SetToSeqs(known) : InOrder(records)}
    /\ disturbed' = FALSE
    /\ UNCHANGED <<owner, rows, up, act, task, closing, bounds>>

Retried(a, j) ==
    act' = [act EXCEPT ![a] = Doing("assign", j, state[j], None, 0)]

\* A mutant: whatever has a record is retried.
LookUnchecked ==
    /\ At(Tick, "idle") /\ due # <<>>
    /\ due' = Tail(due) /\ Retried(Tick, Head(due))
    /\ UNCHANGED <<owner, rows, up, task, closing, disturbed, bounds>>

\* The Job of the next record is looked at as it is now.
Look ==
    /\ At(Tick, "idle") /\ due # <<>>
    /\ LET j == Head(due) IN
       /\ due' = Tail(due)
       /\ known' = IF state[j] = "ended" THEN known \ {j} ELSE known
       /\ place' = IF state[j] = "ended" THEN [place EXCEPT ![j] = 0] ELSE place
       /\ IF state[j] \in {"WAITING_LEASE", "WAITING_HOST"} THEN Retried(Tick, j)
          ELSE UNCHANGED act
    /\ UNCHANGED <<owner, state, bound, thread, session, tree, up, task, closing,
                   disturbed, bounds>>

Requested == requests < MaxRequests /\ requests' = requests + 1

\* A record that is missing is made first.
ManualRetry(a, j) ==
    /\ At(a, "idle") /\ a # Tick /\ Requested
    /\ state[j] \in {"WAITING_LEASE", "WAITING_HOST"}
    /\ \A b \in Request : act[b].job # j
    /\ known' = known \cup {j}
    /\ place' = IF state[j] = "WAITING_LEASE" /\ j \notin known
                THEN [place EXCEPT ![j] = NextPlace] ELSE place
    /\ Retried(a, j)
    /\ UNCHANGED <<owner, state, bound, thread, session, tree, up, due, task, closing,
                   disturbed, crashes, stale>>

\* move_waiting_lease: a Job and its neighbour of the same user change places.
Lane == {j \in known : state[j] = "WAITING_LEASE" /\ place[j] # 0}
Reorder(i, j) ==
    /\ up = "up" /\ Requested
    /\ {i, j} \subseteq Lane /\ place[i] < place[j] /\ owner[i] = owner[j]
    /\ \A k \in Lane : ~(place[i] < place[k] /\ place[k] < place[j])
    /\ Overwrites({i, j})
    /\ place' = [place EXCEPT ![i] = place[j], ![j] = place[i]]
    /\ disturbed' = TRUE
    /\ UNCHANGED <<owner, state, bound, thread, known, session, tree, memory, crashes>>

-----------------------------------------------------------------------------
(* /session new and /session use.                                          *)

\* The session in use is closed, unless a Job has it ...
Switch(a, o, s) ==
    /\ At(a, "idle") /\ a # Tick /\ SessionFree(o) /\ Requested
    /\ \/ s \in NewRow
       \/ session[s].owner = o /\ session[s].status # "none"
          /\ session[s].thread # None /\ session[s].lock = None
    /\ \A t \in Open(o) : session[t].lock = None
    /\ session' = [t \in Session |->
           IF t \in Open(o) \ {s} THEN [session[t] EXCEPT !.status = "closed"]
           ELSE IF t = s THEN [session[t] EXCEPT !.owner = o] ELSE session[t]]
    /\ act' = [act EXCEPT ![a] = [Doing("reopen", None, "none", None, 0) EXCEPT !.target = s]]
    /\ UNCHANGED <<owner, state, bound, thread, known, place, tree, up, due, task, closing,
                   disturbed, crashes, stale>>

\* ... and then the other one is opened.
Reopen(a) ==
    /\ At(a, "reopen")
    /\ session' = [session EXCEPT ![act[a].target] =
           [status |-> "open", owner |-> @.owner, thread |-> @.thread, lock |-> None]]
    /\ Return(a)
    /\ UNCHANGED <<owner, state, bound, thread, known, place, tree, up, due, task, closing,
                   disturbed, bounds>>

-----------------------------------------------------------------------------
(* The task of a Job.                                                      *)

\* _record_session, the Job's row: the turn goes on in its thread, or in a new one.
\* Once for each turn: Codex says it again, and changes nothing.
Learn(j) ==
    /\ up = "up" /\ task[j] = "turn" /\ state[j] = "RUNNING"
    /\ \E t \in {j} \cup ({thread[j]} \ {None}) : thread' = [thread EXCEPT ![j] = t]
    /\ task' = [task EXCEPT ![j] = "bind"]
    /\ UNCHANGED <<owner, state, bound, known, place, session, tree, up, act, due, closing,
                   disturbed, bounds>>

\* ... and its session's, bind_for_job.  The state of the Job is not looked at again.
Bind(j) ==
    LET s == CHOOSE s \in Open(owner[j]) : TRUE IN
    /\ up = "up" /\ task[j] = "bind" /\ SessionFree(owner[j]) /\ Open(owner[j]) # {}
    /\ session' = IF session[s].lock \in {None, j}
                  THEN [session EXCEPT ![s] = [status |-> "open", owner |-> owner[j],
                                               thread |-> thread[j], lock |-> j]]
                  ELSE session
    /\ task' = [task EXCEPT ![j] = IF state[j] = "RUNNING" THEN "bound" ELSE "none"]
    /\ UNCHANGED <<owner, state, bound, thread, known, place, tree, up, act, due, closing,
                   disturbed, bounds>>

End(j) ==
    /\ up = "up" /\ task[j] \in {"turn", "bound"} /\ state[j] = "RUNNING"
    /\ Move(j, "ended") /\ task' = [task EXCEPT ![j] = "none"]
    /\ closing' = [closing EXCEPT ![j] = "unlock"]
    /\ UNCHANGED <<owner, bound, thread, known, place, session, tree, up, act, due,
                   disturbed, bounds>>

\* A cancellation, at any time; an event of the turn may still be handled.
Cancel(j) ==
    /\ up = "up" /\ state[j] \notin {"none", "ended"} /\ Requested
    /\ Move(j, "ended") /\ closing' = [closing EXCEPT ![j] = "unlock"]
    /\ task' = [task EXCEPT ![j] = IF @ = "bind" THEN "bind" ELSE "none"]
    /\ UNCHANGED <<owner, bound, thread, known, place, session, tree, up, act, due,
                   disturbed, crashes, stale>>

\* _transition to a terminal state: the session, then the tree, and the record (which a
\* tick that comes before its deletion deletes as well).
Release(j) ==
    /\ up = "up"
    /\ \/ /\ closing[j] = "unlock" /\ SessionFree(owner[j])
          /\ Unlocked(j) /\ closing' = [closing EXCEPT ![j] = "unlease"] /\ disturbed' = TRUE
          /\ UNCHANGED <<tree, known, place>>
       \/ /\ closing[j] = "unlease"
          /\ Unleased(j) /\ closing' = [closing EXCEPT ![j] = "none"] /\ disturbed' = TRUE
          /\ known' = known \ {j} /\ place' = [place EXCEPT ![j] = 0]
          /\ UNCHANGED session
    /\ UNCHANGED <<owner, state, bound, thread, up, act, due, task, bounds>>

-----------------------------------------------------------------------------
(* Crash and restart: reconcile_startup.                                   *)

Crash ==
    /\ up = "up" /\ crashes < MaxCrashes /\ crashes' = crashes + 1
    /\ up' = "down" /\ act' = [a \in Actor |-> Idle] /\ due' = <<>>
    /\ task' = [j \in Job |-> "none"] /\ closing' = [j \in Job |-> "none"]
    /\ UNCHANGED <<owner, rows, disturbed, requests, stale>>

\* Jobs that waited without a place get one after those that have.
Placed(j) == place[j] # 0 \/ state[j] # "WAITING_LEASE"
Rank(j) == Cardinality({i \in Job : i <= j /\ ~Placed(i)})

\* A mutant: the start counts from one again.
PlaceAtStartAnew(j) == IF Placed(j) THEN place[j] ELSE Rank(j)

PlaceAtStart(j) == IF Placed(j) THEN place[j] ELSE NextPlace + Rank(j) - 1
Claims(j) == j \in bound /\ state[j] \in {"ASSIGNED", "RUNNING", "WAITING_HOST"}

Restart ==
    /\ up = "down"
    /\ IF Cardinality({j \in Job : Claims(j)}) > 1
       THEN up' = "refused" /\ UNCHANGED <<state, known, place, session, tree>>
       ELSE
       /\ up' = "up"
       /\ tree' = IF \E j \in Job : Claims(j) THEN CHOOSE j \in Job : Claims(j) ELSE None
       /\ session' = [s \in Session |->
              IF session[s].lock # None /\ state[session[s].lock] \in {"none", "ended"}
              THEN [session[s] EXCEPT !.lock = None] ELSE session[s]]
       /\ state' = [j \in Job |-> IF state[j] \in {"QUEUED", "ASSIGNED", "RUNNING"}
                                  THEN "WAITING_HOST" ELSE state[j]]
       /\ known' = known \cup {j \in Job : state[j] \notin {"none", "ended"}}
       /\ place' = [j \in Job |-> PlaceAtStart(j)]
    /\ UNCHANGED <<owner, bound, thread, act, due, task, closing, disturbed, bounds>>

-----------------------------------------------------------------------------
Proceed(a) ==
    \/ Acquire(a) \/ LockNew(a) \/ AddJob(a) \/ Assign(a) \/ GiveBack(a) \/ Rollback(a)
    \/ Wait(a) \/ Enqueue(a) \/ WriteBack(a) \/ Refresh(a) \/ Begin(a) \/ Reopen(a)
Work(j) == Learn(j) \/ Bind(j) \/ End(j) \/ Release(j)

Next ==
    \/ \E a \in Actor : Proceed(a)
    \/ List \/ Look
    \/ \E a \in Request, j \in Job : Create(a, j) \/ ManualRetry(a, j)
    \/ \E a \in Request, o \in Owner, s \in Session : Switch(a, o, s)
    \/ \E i, j \in Job : Reorder(i, j)
    \/ \E j \in Job : Work(j) \/ Cancel(j)
    \/ Crash \/ Restart

Spec == Init /\ [][Next]_vars

\* Coroutines run, the scheduler ticks, turns end, the Controller is started again.
\* Nothing is asked of the order in which a tree that is free is found.
Fairness ==
    /\ WF_vars(Restart) /\ WF_vars(Proceed(Tick) \/ List \/ Look)
    /\ \A a \in Request : WF_vars(Proceed(a))
    /\ \A j \in Job : WF_vars(Work(j))

FairSpec == Spec /\ Fairness

-----------------------------------------------------------------------------
(* Properties.                                                             *)

\* No two queued Jobs have the same place, however creations, retries, changes of the
\* order and restarts interleave: with equal places a change of the order does nothing.
PlacesDistinct ==
    \A i, j \in Lane : i # j => place[i] # place[j]

\* An owner has one session at most that new Jobs continue; active_for relies on it.
OneOpenSession == \A o \in Owner : Cardinality(Open(o)) <= 1

\* A running Job has its owner's open session for itself, and continues its thread:
\* nobody switches, binds or unlocks the session of a Job at work.
RunsInSession ==
    \A j \in Job : state[j] = "RUNNING" /\ up = "up" =>
        \E s \in Open(owner[j]) :
            session[s].lock = j /\ (task[j] # "bind" => session[s].thread = thread[j])

\* "Jobs queued on the same checkout are started oldest-first" (docs/RECOVERY.md), as
\* far as one tick goes: it gives the tree to a Job in front of which another Job of
\* the same user waits only if it was free too late for that one.
QueueOrder ==
    [][\A i, j \in Job :
          /\ act[Tick].at = "assign" /\ act[Tick].job = j /\ act[Tick].from = "WAITING_LEASE"
          /\ state[j] = "WAITING_LEASE" /\ state'[j] = "ASSIGNED"
          /\ i \in Lane /\ owner[i] = owner[j] /\ place[i] < place[j]
          => disturbed]_vars

\* A session locked by a Job that is over and that nobody will unlock before the next
\* start: a late event, or a retry that went on after the cancellation.
Leaked(o) ==
    \E s \in Open(o) : LET j == session[s].lock IN
        j # None /\ state[j] = "ended" /\ closing[j] # "unlock"

\* The turn of every queued Job comes, as no more Jobs come: whoever has the tree or
\* the session gives it back, through restarts, exceptions that end a tick, retries by
\* hand and sessions that are switched meanwhile.
QueueDrains ==
    <>[](\A j \in Job : state[j] = "WAITING_LEASE" => up = "refused" \/ Leaked(owner[j]))

=============================================================================
