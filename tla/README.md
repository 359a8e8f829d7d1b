# Verification of Remote Control

TLA+ models of Remote Control (`src/src/remote_control`): a Controller that takes Jobs
from chats and HTTP and has Codex work on them, on its own machine or on remote Runners.
Paths of code below are relative to `src/src/remote_control`, those of documents to `src`.

## 1. The system

A **Job** is an instruction of a user for a project. The **Controller** keeps Jobs, leases,
sessions and recovery records in SQLite and runs one asyncio task per executing Job. A Job
executes as turns of **Codex**, a child process, in the working tree of the project on one
host. On the Controller's host the process is a child of the Controller; on another host it
is a child of the **Runner** daemon there, which talks to the Controller over a WebSocket
that breaks and is opened again. Both sides survive restarts.

| component | state | operations | properties that make it correct |
|---|---|---|---|
| Runner daemon (`runner_daemon.py`, `runner_journal.py`) | journal file and its copy, handles of running executions, results not yet acknowledged, fatal flag | handle START / CANCEL / RESULT_ACK, finish, reconnect, recover at start | no live Codex without a durable record; no orphan beside a serving Runner; a reported result is durable; results are delivered |
| Codex supervision (`runners/codex.py`, `process_control.py`) | child process, pid, start token, reader | spawn, read events, terminate the tree | a Job is over only when its process is |
| Runner gateway (`transport/runner_ws.py`) | connections per host, remote handles | send commands, resolve handles, acknowledge | a result is acknowledged only when it is settled |
| Job states (`controller/states.py`) | - | transition table | terminal states are final |
| Job manager (`controller/job_manager.py`) | Job rows, tasks and handles in memory | create, retry, pause, resume, redirect, steer, cancel, reconcile at start and with a Runner, finish | one Codex per tree; a cancelled Job stays cancelled; every Job ends or waits for something that can happen |
| Execution leases (`execution_leases.py`) | one row per working tree | assign with the Job's state, acquire, release | held from the first turn to the end; never leaked |
| Project sessions (`sessions/`) | sessions per project and owner, their Codex thread and lock | acquire, bind, release, use, new | one open session; a running Job has it for itself; the lock is given back |
| Recovery (`recovery/`) | one record per waiting Job: kind, mode, due time, queue position | tick: retry every due record | queued Jobs run, in order; one retry at a time |
| Host registry (`hosts/`) | status and heartbeat of hosts | register, heartbeat, expire, choose | no dispatch to a dead host |
| Human Gate (`approvals/`, `human_gate.py`) | approvals | create, respond, expire, cancel | a waiting Job can be answered |
| QA (`qa.py`), project adapters (`projects/`) | QA runs, project work | prepare, submit, run QA | claimed once, tested and handed off before COMPLETED, never against a refusal |
| Controller lock (`controller_lock.py`) | a lock of the operating system | acquire, release | one Controller per database |
| messaging, API, dashboard, CLI, settings, migrations, diagnostics | none of the Jobs' | parsing, formatting, wiring | not modelled |

They interact by calls on one event loop (every `await` lets another request, the scheduler
or a task run), by rows of the database, each written in a commit of its own, and by messages
between Controller and Runner (`RUNNER_REGISTER`, `RUNNING_JOBS`, `JOB_START`, `JOB_CANCEL`,
`JOB_ACCEPTED`, `JOB_RESULT`, `JOB_RESULT_ACK`). What is hard in it: commits that belong
together and are separate, a row read before an await and written after it, crashes of either
side at any commit, connections that break with messages in flight, processes that outlive
the program that started them. `PROJECT.json` lists these as hazards, at their lines.

## 2. Modules

| module | what it is |
|---|---|
| `RunnerContract` | what the Runner promises: per execution a record, a process, an acknowledgement; a record covers the life of the process and is dropped only after the acknowledgement |
| `RunnerDaemon` | one Runner in full: journal file and memory, start in its steps, finish, cancel, acknowledge, connection, crash, start-up recovery; the gateway as far as the Runner sees it. Implements `RunnerContract` |
| `RunnerDaemon_proofs` | theorems about `RunnerDaemon` |
| `RemoteExecution` | one Job on a Runner: the Controller's dispatch, gateway, ledger, pause, cancellation and `reconcile_runner`. Its Runner is `RunnerContract` with messages, and that is checked and proved as well |
| `RemoteExecution_proofs` | theorems about `RemoteExecution` |
| `JobStates` | states and transition table of a Job |
| `JobLeases` | who works in which tree: create, assign, queue, retry, cancel, end, crash, repair, over several hosts |
| `JobLeases_proofs` | theorems about `JobLeases` |
| `JobQueue` | the queue of one tree in its order, and the project sessions with their Codex threads |
| `JobQueue_proofs` | theorems about `JobQueue` |
| `LocalTurns` | the turns of one Job on the Controller's host against everybody who stops or starts one |
| `LocalTurns_proofs` | theorems about `LocalTurns` |
| `Finalization` | claim, QA, review and submission around a turn |
| `Finalization_proofs` | theorems about `Finalization` |
| `MC*` | instances for TLC: sets and symmetry only |

The modules share the Job and cut it along its resources: `JobLeases` and `JobQueue` say that
one Job at a time has a tree, `LocalTurns` and `RemoteExecution` that this Job has one Codex at
a time and is over only when Codex is, `Finalization` what happens around its turns. What one
module takes as a step of another is named in its header. The composition of Controller and
Runner goes through `RunnerContract`: `RunnerDaemon` is proved to keep it, and the Runner inside
`RemoteExecution` is proved to be one that keeps it (`RunnerAsPromised`).

Operators whose comment says "A mutant" describe a plausible slip of the code; they take no part
in the specifications and serve to see that a property notices them.

### RunnerDaemon

`disk` is the journal file, `entries` the journal in memory (a failed write leaves them
different), `proc` the processes: `child` of this boot, `orphan` of an earlier one, `exited`.
`running`, `completed` and `finisher` are the daemon's dictionaries and background tasks;
`start` is the START that the receiver is executing, with its phase; `inbox`, `results`,
`acked` are messages; `daemon`, `conn` and `fatal` the life of the process and its connection.
Each action is one handler between two awaits: reserve, spawn, attach the pid, accept, their
failures, finish with the durable write first, flush after registration. Recovery has one
action per kind of entry and refuses the start when it cannot prove a process dead.
`Persisted` / `NotPersisted` are a journal write and its failure. The writes that add the thread of
Codex to an entry (`update_session`) are left out.

### RemoteExecution

Rows (`state`, `rec`, `ledger`, `session`), memory of the Controller (`handle`, `future`,
`dispatch`, `task`, `canceller`, `adopting`), link (`conn`, `synced` and the two message
sequences) and Runner (`run`, `acked`). `bound` and `paused` are history: which executions reached
the recovery record, and what was left of the turn when a paused Job was resumed. A dispatch goes
`Retry`, `StartTask`, `Reserve`, `SendStart`, `Bind` and then waits for its future; what a snapshot
means is said by small operators in the order of `reconcile_runner`: results of finished Jobs and
rows that a full snapshot does not name are closed (`Over`, `Absent`), what is left is matched with
the rows and with the record (`Found`, `Known`, `Adoptee`), and `HandleSnapshot` adopts, confirms an
absence, takes up a cancellation or does nothing. Simplifications: the loops of `reconcile_runner` are one step
but for the ASSIGNED commit of an adoption; a cancellation does not fall between the two; an
adoption waits for the old task of the same execution; heartbeats repeat a snapshot only while a
Job waits for it; one Job, which starts in WAITING_HOST.

### JobLeases

`state`, `assigned`, `mode` are columns of the Job and of its recovery record; `lease` and
`lock` the rows of execution leases and project sessions. `act` is the program counter of
every request and of the scheduler, `task` that of a Job's task. One action is one commit
together with the reads of its transaction, or one read whose result is used after an await:
the phase names in `ActPhase` are the places where another coroutine may run. Retried Jobs go
commit -> session -> begin, or commit -> session -> rollback -> queue; a new Job goes add ->
place -> commit -> begin, or giveback -> queue -> enqueue. Terminal states are followed by
two separate releases, and a crash may fall between any two steps. `Start` and `Repair`
are `reconcile_startup`, which ends before requests are served.

Abstractions, all of them towards more behaviours unless stated: whether an offered host is
online is a choice at every use (the Controller's own always is, as in `HostRegistry._effective`);
the outcome of a turn is a choice, and so is the mode START or RESUME where it is computed; a Job
that just entered WAITING_HOST may be retried with an older record of its own; STARTING and
RUNNING of a resumed or adopted Job are one step. Less behaviour: the second task of a Job begins
after its first has ended; a tick reads a record when it retries it; QA, graceful shutdown and
process ids are elsewhere; an auto Job is not pinned to the host of its session; a start that is
refused leaves the leases as they were.

### JobQueue

One tree on the Controller's host. Rows: `state`, `bound` (assigned_host), `thread`
(external_session_id), `known` and `place` (the recovery record and its queue_position), `session`,
`tree` (the lease). `due` is what is left of the list that `recover_due` read; `act` is where each
request and the tick are. `SessionFree` is the asyncio lock of the session registry: it is kept
between two steps only by operations of two commits. The scheduler looks at the Job of a record
as it is then, but keeps the order it read. Simplifications: a suspended turn is a long one;
CANCELLING and the terminal states are one, "ended"; the deletion of a record and the release of
the tree are one step; a turn reports its thread once; start-up is one step.

### LocalTurns

Tasks and Codex processes are numbered as they start; each task has a phase (`begin` ... `end`)
and each process a reader. `pid` and `held` are the row's process and PROCESS_SAFETY_HOLD;
`handle` is what `_handles` holds; `actor` are the requests and the background stop. Killing has
its outcome as a choice, and a kill that cannot be confirmed is kept as a hold, as in the code.
Simplifications: pause, quota and gate read the handle in the step that changes the state; one
background stop and one pause at a time; redirect is a pause and then a resume; the identity of a
process is whether the row names it; WAITING_AGENT is the end. A request that waits for a termination
clears the pid when it goes on, whatever the row says by then (`Killed`).

### Finalization

`project` says which of QA, Project OS and Runner a project has; `work` and `run` are its rows of
project work and QA; `board` is the Project OS outside, which counts claims and submissions.
`task` goes through status, select, claim, prepare, turn, qa ... submit in the order of
`_finalize_project_adapter` and `_run_qa_then_finalize`. `named` says that the recovery record
names an execution of a Runner, `reported` that the Runner has that execution, or its result, to tell
of: an execution that was acknowledged stays named and is not reported, which is why a cancellation in
the closing may wait for ever (`ConfirmCancellation`, `RunnerReports`). Simplifications: the turn is one
step, and so is its cancellation, on a Runner too; the result is acknowledged in the step that records
it; a Runner's answer about a lost turn is one step, and the scheduler retries a Job only after an
execution that is reported was adopted (that race is in `RemoteExecution`); QA's PREPARING and RUNNING
are one phase; a Job that waits for its host is retried only after its task is over; a projectctl
process ends with the task that started it (a crash leaves it running in the code, and its claim may
then take effect after the retry has read the status); steering and reports are left out.

## 3. Runs

| run | instance | shows |
|---|---|---|
| `runner_safety` | 2 executions, inbox of 2, 2 crashes, 2 faults, with fairness | `TypeOK`, `LiveProcessJournaled`, `JournalInv`, `NoOrphanWhileServing`, `ReportedResultIsDurable`, the refinement `KeepsContract`, and `ResultEventuallyDelivered` |
| `runner_resolves` (violation) | 1 execution, with fairness | an execution stays "running" for ever when its JOB_ACCEPTED cannot be sent |
| `runner_untracked` (violation) | 1 execution, 1 fault | registration with a live Codex that the snapshot does not name |
| `leases_safety` | 2 Jobs, 2 sessions, 2 hosts, "auto", two kinds of suspension, 1 crash | `LeaseHeldSinceStart`, `WaitingOwnsNothing`, `NoLeakedLease` |
| `leases_overtaken` (violation) | 1 Job, 2 requests | a cancellation is overwritten by ASSIGNED |
| `queue_order` | 3 Jobs of one owner or of two, 3 session rows, 1 crash, 1 request by hand, with fairness | `PlacesDistinct`, `OneOpenSession`, `RunsInSession`, `QueueOrder`, `QueueDrains` |
| `remote_safety` | 2 executions, 1 message each way, 1 fault, cancel and pause, with fairness | `OneCodexPerTree`, `CancelledMeansStopped`, `AckedResultIsSettled`, `WaitingJobRecovers`, `RunnerAsPromised` |
| `remote_resumed` (violation) | the same with pause only | a second Codex after pause, loss and resume |
| `turns_safety` | 2 tasks, 2 processes, 1 stop of the Controller, 1 failed termination | `OneCodexInTree`, `TerminalMeansStopped`, `RowLeadsToLiveTurn`, `SteeringHasTurnAhead`, `GateCanBeAnswered`, `SuspendedTurnIsStopped`, `CancellationProceeds` |
| `turns_handle` (violation) | no stop and no failure | a cancellation that stops the turn before |
| `closing_safety` | all kinds of projects, 2 turns, 2 stops, 2 losses, with fairness | `ClaimedOnce`, `CompletedMeansHandedOff`, `CompletedMeansTested`, `RefusedIsNotHandedOff`, `ActiveJobIsDriven`, `CancelWaitsForTask`, `ClosingEnds` |
| `closing_rerun` (violation) | the same | a shutdown during the submission runs the Agent again |

**Bounds.** The Runner's rules are per execution; two let one be in its start while another
finishes or recovers, and two crashes let one hit the recovery from the other. Two Jobs are the
least that compete for a tree; `queue_order` has three, so that two wait and their order matters,
and lets the second have a session of its own, so that only the tree is shared. One crash is
enough for `JobLeases` and `JobQueue`: start-up is idempotent on the rows it has repaired. Two
executions, tasks and processes are the least with which "a second Codex" can be said. What two are
too few for is left to the theorems, which hold for any number: the proof about `LocalTurns` came
upon a request that outlives the turn after the one it waited for, which needs three tasks (see
`retry` below), and three tasks with three processes were then checked as well. Two stops in `Finalization` are a crash that hits the recovery
from a crash. One request at a time plus the scheduler and the tasks already interleave in pairs.
Deadlock is not checked where the system may stop: all Jobs over, or the bounds used up.

**Races that the passing runs leave out.** They are constants, so that a run can put them back:

- `MaxOvertakes` (`JobLeases`): Jobs whose state changes between the read and the commit of
  `assign_job`; 1 in `leases_overtaken`, else 0.
- `MaxEarly` (`RemoteExecution`): events that come too early -- a dispatch before the first
  snapshot of its connection is handled, which that snapshot then does not name.
- `MaxStale` (`JobQueue`): a swap of places, or a start that clears one, between the read and the
  write-back of that place.
- `Windows` (`LocalTurns`): `handle` (in `turns_handle`); `retry`, a quota retry by hand while the
  turn before is still being stopped, or a retry that overtakes a resume which waited for that turn,
  so that the resume goes on after the next pause and starts one more; `crash`, with a live Codex
  whose pid is not in the row -- not yet, between a later spawn and the commit of its pid, or not any
  more, because a request that was late from an awaited termination has cleared it; `late`, such a
  request that clears the pid of a Codex which is held, so that the hold is lost (this takes a failed
  termination and three tasks);
  `unstopped`, a task that gives up on a Codex it could not terminate; `expiry`, an approval that
  expires while its turn is still being stopped. With each of them TLC finds `OneCodexInTree` or
  `TerminalMeansStopped` violated.

The safety results are about executions without these; each is a hazard in `PROJECT.json`, with
its line. Exceptions inside properties are of the same kind and are named in their comments:
`ResultEventuallyDelivered` excepts a refused start and the fatal flag, `QueueDrains` a refused
start and a leaked session lock, `ClosingEnds` a Job found ASSIGNED with a QA run at a restart and a remote Job in CANCELLING whose
execution its Runner does not report any more (`job_manager.py:818`, `:1753`), `CancelWaitsForTask` the
closing that follows a turn in the same task (`:774-784`: the handle is still there, so that the Job is
CANCELLED, and its tree free, while QA or the submission works on), `SteeringHasTurnAhead` speaks of
instructions that are queued, and not of one that was taken and then lost (section 5),
`CompletedMeansTested` and `GateCanBeAnswered` speak of runs that no restart interrupted,
`OneCodexPerTree` of Jobs that were not resumed (`remote_resumed` shows the others) and
`CancelledMeansStopped` of Jobs that were not paused: when the connection of a paused Job is lost,
`_await_handle` acknowledges the row of the execution it lost, and with two faults TLC finds a
cancellation that is confirmed by the result of an older execution while that one lives.

**Fairness.** Weak fairness of internal steps says that coroutines that can run do run, that the
scheduler ticks for ever (`RecoveryScheduler._run` survives every exception), that QA commands end
(they have a timeout) and that a supervisor restarts a dead process. In `RunnerDaemon` strong
fairness of registration and of message receipt says that a link retried for ever
(`run_forever`) is up long enough again and again, and turns end. In `JobQueue` turns end as well;
nothing is assumed of who finds a free tree first, and the tick as a whole has one weak fairness:
that it reaches each record is a consequence of the list, not an assumption. In `RemoteExecution`
Codex may run for ever. Users are not assumed to do anything, in any module.

## 4. Proofs

Each proof module extends the module of its component and proves `Spec => []P` from an inductive
invariant: `Init => IInv`, `IInv /\ [Next]_vars => IInv'`, `IInv => P`. The theorems hold for every
set of executions, Jobs, hosts, owners, sessions and requests and for every value of the bounds; TLC
checked each inductive invariant on the instance of the component's run before it was proved. The
assumptions are those that the modules name: bounds are natural numbers, "none" is none of the
members of its set, `Requests` is a part of {"cancel", "pause"}, the scheduler is not a request, an instance takes its Jobs, hosts and projects
from the sets that it declares; `JobLeases` needs a finite set of Jobs, `JobQueue` an owner and `LocalTurns` a task.

**`RunnerDaemon_proofs`**: `TypeCorrect`, `JournalInvariant`, `LiveProcessesAreJournaled`,
`NoOrphans`, `ResultsAreDurable`, and `RunnerKeepsContract`: every step is a step of
`RunnerContract` or a stutter. None of the safety properties is inductive alone: that a live process
is journaled depends on the memory copy of the journal never claiming less than the file, on
reservations being written before the spawn, on messages naming only executions in the right stage,
and on the phase of the start. `JournalInv` collects these: `CoreInv` (types, open entries, dead and
fresh executions, inbox, start), `HandleInv` (handles and results against the file), `RecordInv`
(memory against file) and `SpawnedInv` (entries against processes).

**`JobLeases_proofs`**: `TypeCorrect`, `StartedJobsKeepTheirTree`, `QueuedJobsHoldNothing`,
`FinishedJobsFreeTheirTree`, by `Invariance`. A Job keeps its tree because of what every coroutine
that has read it may still do. `ActInv` and `StateInv` say in which states an actor at each of its
phases finds its Job; `CreateInv` and `AssignInv` that one actor at a time creates a Job or takes an
assigned one to its start; `HoldInv` which lease and which lock the Job has at each phase (a queue
step finds it without either); `BegunInv` ties "Codex was started" to states, phases of the task
and recovery modes; `NewInv` and `TaskInv` are the same for the Job's task, `DownInv` for a
Controller that is down or starts. Jobs in `overtaken` (a cancellation that `assign_job` overwrote,
run `leases_overtaken`) are excepted, as they are in the properties.

**`JobQueue_proofs`**: `TypeCorrect`, `OneSessionIsOpen`, `JobsRunInTheirSession`,
`PlacesStayDistinct`, `TicksKeepTheOrder` (`Spec => QueueOrder`), by `Invariance`. One session is open
because of the lock of its owner: `KeepInv` says that no two actors keep it and that whoever does
finds the sessions as it left them. A running Job has its session because, from its lock to its task,
one actor alone drives it (`ActInv`, `AloneInv`) and has the session's thread (`ThreadInv`), while
operations on other Jobs leave it alone (`SessionsKept`). Places: `PlaceInv` covers also the
places that are read and not yet written back; the theorem has the hypothesis `stale = 0`, no
place was replaced in that window (with one, two Jobs may have the same place: section 3).
The order: the list that a tick has read is sorted (`SortedInv`), the Job that it is at comes
before the rest (`CurrentInv`), and while the tree is free every Job that it passed by has a later
place (`PassedInv`), all as long as nothing disturbed the queue since the list was read.
`CHOOSE` of the next place and the ranks at a restart are used through the bounds that they
satisfy; the lemmas for them go by induction over a well-founded relation and over the
cardinality of finite sets.

**`Finalization_proofs`**: `TypeCorrect`, `ClaimIsMadeOnce`, `CompletionIsHandedOff`,
`CompletionIsTested`, `ActiveJobsAreDriven`, `CancellationWaits` and `RefusalIsFinal` (an action
property), by `Invariance`. `CancellationWaits` says that a CANCELLED Job has no task at work except one
that closes it right after its turn; what it rules out is a cancellation that ends beside a
preparation, a turn, or a closing in a task of its own. `ClaimInv` relates the claims made at the project to the row and to the
phase of the task that is about to record one; `DriveInv` says who drives a Job in each active state,
that a handle belongs to a turn or the closing after it, and that a cancellation which was left to the
Runner has no task;
`WaitInv` and `TurnInv` bound what a task may be at while a cancellation waits or before a first
turn; `HandoffInv`, `ReviewInv` and `TestInv` carry the verdict and the submission from the step
that learns them to the state that depends on them.

**`RemoteExecution_proofs`**: `TypeCorrect`, `TreeIsOwned`, `CancellationIsTrue`, `ResultsAreSettled`
and `RunnerKeepsContract`, by `Invariance`. `MayRun(e)` is the notion it turns on: the Runner has the
execution, or its JOB_START is under way. The invariant has three parts.

- `BasicInv` holds in every state: types; what a missing Controller or connection implies
  (`DownInv`); an execution whose command was not sent is known nowhere (`FreshInv`); what is told,
  held or acknowledged as a result is that of an execution that ended (`EndInv`, `UnconfirmedInv`);
  and a start command comes first among the messages of its execution and only once (`OrderInv`).
  With it alone the Runner keeps its contract.
- `OwnerInv` holds in every state as well: one task has the Job's turn, in a state that suits the
  point it has reached. A task that has lost its turn to WAITING_HOST and is about to write the record
  is not counted: an adoption may overtake it. `ResultsAreSettled` follows.
- `NeverInv` holds as long as nothing came too early (`early = 0`) and nobody paused the Job. Whatever
  may run is the latest execution (`LatestInv`), nothing is dispatched beside it (`StartInv`,
  `WaitInv`), each task, adoption, handle and cancellation is about it (`AloneInv`, `HandleInv`,
  `RequestInv`), every snapshot under way names it (`ReportInv`, with `LinkInv`: a full snapshot is
  the first message of its connection), the ledger and the record lead to it (`OpenInv`, `BoundInv`,
  `AgainInv`), so that a snapshot is matched with it (`SnapshotLeads`), and a CANCELLED Job has none
  that it recorded (`CancelledInv`).

The two conditions are part of the theorems: `TreeIsOwned` and `CancellationIsTrue` speak of the states
in which `early = 0`, and `TreeIsOwned` of those in which the Job was not paused. With an early event
TLC finds two live Codex. `OneCodexPerTree` also covers a Job that was paused and is not resumed;
that part is model-checked only, because `BoundInv`, `HandleInv` and `RequestInv` fail after a pause.

**`LocalTurns_proofs`**: `TypeCorrect`, `TreeIsOwned`, `TreeIsFreed`, `RowIsTrue`,
`SuspensionStops`, `InstructionsAreRead`, `GateStaysOpen` and `CancellationIsDriven`, by
`Invariance`. `FreeInv` holds whatever races are explored, and with it the last two theorems.
`StrictInv` holds when no race is explored but `expiry`, a condition of the others; for
`TreeIsFreed`, and `OverInv` with it, `expiry` is excluded too. It says that there is one
task at a time, the one in `_tasks` (`TaskInv`), which is the one that whoever waits for a task
waits for (`JoinInv`), and whose process the handle names from its identification on (`HandleInv`);
that the state of the Job suits each point of a turn (`StageInv`), and a turn that is closed leaves no
instruction queued (`SteerInv`); that whoever still terminates something beside a turn of an active
Job is late, its process being gone (`CalmInv`): it may clear the pid of that turn, but nobody puts
another one there, so that the row names the process or none (`PidInv`); that a
cancellation or a shutdown with a handle has that of the only live process (`StopInv`); that a live
process is that of the turn, or the Job is held because of it (`OwnerInv`); and what there is after
a crash (`DownInv`) and when the Job is suspended (`SuspendInv`); `OverInv` speaks of a Job that is
over. With `retry`, `crash` or `unstopped` TLC finds two live Codex on two tasks, with `late` on three.

In most of these modules a step is first shown to be one of a few *moves*, which keep of an action
what the invariant can tell, with the changes of rows spelled out; one lemma for each part of the
invariant then has one case for each move. The models write a changed record as a whole where two of its
fields change, since the SMT backend of the prover mistreats two paths of one `EXCEPT` into the same
element; with that form each action, as an assumption, was tested not to prove `FALSE`.

**Only model-checked**: every liveness property (`ResultEventuallyDelivered`, `QueueDrains`,
`WaitingJobRecovers`, `ClosingEnds`; fairness and `ENABLED` are outside the prover's reach), `OneCodexPerTree` of
a Job that is paused, and the violations.

## 5. Disagreements with the documentation

Each violation run is one, with its quotation in `PROJECT.json`. Others were met while modelling
and have no run of their own:

- the fatal flag of the Runner may be set after `run_forever` looked at it, so that it connects
  once more (`runner_daemon.py:517`, docs/FINAL_HARDENING_012.md:14), and a start that is cancelled
  leaves a STARTING entry although Codex was terminated, so that later starts refuse (`:418`);
- "started oldest-first" (docs/RECOVERY.md:75) holds within a tick only: a tree that is released
  between two attempts of a tick, or found free by a new Job, goes to a later Job;
- a retry that outlives the cancellation of its Job, or an event of the turn that comes after
  it, leaves the project session locked until the next start (`job_manager.py:2209`, `:3831`);
- two Jobs that claim one tree at a restart (a Job in WAITING_HOST for a pinned host has
  assigned_host but never had the tree) make the Controller refuse to start (`:1996`);
- a Job that a crash takes from the queue to WAITING_HOST keeps its queue_position, which
  docs/TELEGRAM_QUEUE_MANAGEMENT_015.md:34 gives to WAITING_LEASE only;
- a Job with a QA run that a restart finds ASSIGNED stays ASSIGNED (`:1257`);
- a queued instruction is applied as the next turn (docs/SESSIONS_AND_FEEDBACK.md:80), but one
  that was taken from the queue when a turn ended is dropped if the Job is paused before that next
  turn (`:2758`, `:2788`, `:3066`);
- a cancellation that comes right after a turn ends the Job and frees its tree while QA or the
  submission still works there (`:774-784`).

## 6. Not modelled, and what is next

Not modelled: messaging, API routes and dashboard (no state of Jobs), the command router and
service (they parse and call the Job manager), CLI, settings and diagnostics (wiring and text),
migrations (run once, before everything), the parsing of Codex output and of quota messages, the
back-off in seconds (`recovery/quota.py`: a retry may come at any time), the heartbeat clock of
`hosts/registry.py` (hosts go and come at any time), the fake runner of the tests, and the lock
file that keeps a second Controller away, which every module assumes.

Next: an abstract Job that `JobLeases` and `LocalTurns` implement, and `OneCodexPerTree` of a
paused Job as a theorem.
