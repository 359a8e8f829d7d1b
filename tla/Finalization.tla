----------------------------- MODULE Finalization -----------------------------
(***************************************************************************)
(* How a Job is prepared and closed: the Project OS task that it selects   *)
(* and claims before the turn of Codex, and after the turn automated QA,   *)
(* the review by a human, and the submission of the result -- with losses  *)
(* of the Runner, pauses, cancellations, shutdowns, crashes and restarts   *)
(* in between.  The turn itself is one step here (LocalTurns and           *)
(* RemoteExecution); so is the Runner's answer about a lost one.           *)
(***************************************************************************)
EXTENDS Naturals

CONSTANTS
    Projects,       \* kinds of projects: with a QA contract, a Project OS, a Runner
    MaxTurns,       \* bound on turns of Codex
    MaxStops,       \* bound on crashes and shutdowns of the Controller
    MaxLosses       \* bound on project operations that fail

ASSUME ProjectAssumption == Projects \subseteq [qa : BOOLEAN, os : BOOLEAN, remote : BOOLEAN]
ASSUME BoundAssumption == {MaxTurns, MaxStops, MaxLosses} \subseteq Nat

VARIABLES
    project,
    state, mode, result, pid,   \* the Job's row: result and pid are known or not
    named,                      \* its recovery record names an execution of a Runner
    work,                       \* the status of its ProjectWork row
    run,                        \* its latest QA run
    gate,                       \* the approval that QA asked for
    task,                       \* the Job's task; "assigned" is the scheduler's retry
    handle,                     \* _handles still has the handle of the turn
    cancel, answer,             \* a cancellation, and an answered approval, in progress
    up,                         \* the Controller: "up", "down", or "refused" to start
    reported,                   \* the Runner has an execution, or its result, to tell of
    qa, file,                   \* the QA command, and the result it has left
    board,                      \* the Project OS: [current, claims, submits]
    turns, stops, losses

job == <<state, mode, named, result, pid>>
records == <<work, run, gate>>
requests == <<cancel, answer>>
outside == <<reported, qa, file, board>>
bounds == <<stops, losses>>
vars == <<project, job, records, task, handle, requests, up, outside, turns, bounds>>

Terminal == {"COMPLETED", "FAILED", "CANCELLED"}
Active == {"STARTING", "RUNNING", "WAITING_AGENT"}
Verdicts == {"PASS", "FAIL", "GATE"}
Closing == {"qa", "run", "await", "collect", "verdict", "gate", "complete", "submit", "next",
            "submitted"}
NoRun == [phase |-> "none", verdict |-> "none", review |-> "none"]
NoTask == [at |-> "none", kind |-> "none", collect |-> FALSE, reuse |-> FALSE, seen |-> FALSE]

RunType ==
    [phase : {"none", "RUNNING", "COLLECTING", "REVIEWING", "DONE", "FAILED"},
     verdict : Verdicts \cup {"none"}, review : {"none", "UI_APPROVED", "UI_REJECTED"}]
TaskType ==
    [at : {"none", "assigned", "begin", "status", "select", "claim", "claimed", "prepare",
           "turn", "codex", "recover", "qa", "run", "await", "collect", "verdict", "gate",
           "complete", "submit", "next", "submitted", "end"},
     kind : {"none", "turn", "recover", "finalize", "approved"},
     collect : BOOLEAN, reuse : BOOLEAN, seen : BOOLEAN]

RowsTypeOK ==
    /\ project \in Projects
    /\ state \in Active \cup Terminal
           \cup {"ASSIGNED", "CANCELLING", "PAUSED", "WAITING_HUMAN", "WAITING_HOST"}
    /\ mode \in {"none", "START", "RESUME", "ADOPT", "QA", "FINALIZE", "CANCEL"}
    /\ {named, result, pid} \subseteq BOOLEAN
    /\ work \in {"none", "SELECTED", "CLAIMED", "PREPARED", "SUBMIT_FAILED", "SUBMITTED"}
    /\ run \in RunType
    /\ gate \in {"none", "PENDING", "SETTLED"}
MemoryTypeOK ==
    /\ task \in TaskType /\ handle \in BOOLEAN
    /\ cancel \in {"idle", "look", "join"} /\ answer \in {"none", "APPROVE", "REJECT"}
    /\ up \in {"up", "down", "refused"}
OutsideTypeOK ==
    /\ {reported, qa} \subseteq BOOLEAN /\ file \in Verdicts \cup {"none"}
    /\ board \in [current : BOOLEAN, claims : Nat, submits : Nat]
BoundsTypeOK == {turns, stops, losses} \subseteq Nat
TypeOK == RowsTypeOK /\ MemoryTypeOK /\ OutsideTypeOK /\ BoundsTypeOK

Init ==
    /\ project \in Projects
    /\ state = "ASSIGNED" /\ mode = "none" /\ named = FALSE /\ result = FALSE /\ pid = FALSE
    /\ work = "none" /\ run = NoRun /\ gate = "none"
    /\ task = [NoTask EXCEPT !.at = "begin", !.kind = "turn"] /\ handle = FALSE
    /\ cancel = "idle" /\ answer = "none" /\ up = "up"
    /\ reported = FALSE /\ qa = FALSE /\ file = "none"
    /\ board = [current |-> FALSE, claims |-> 0, submits |-> 0]
    /\ turns = 0 /\ stops = 0 /\ losses = 0

-----------------------------------------------------------------------------
(* Shared steps.                                                           *)

At(at) == up = "up" /\ task.at = at
Goto(at) == task' = [task EXCEPT !.at = at]
Busy == task.at \notin {"none", "assigned"}
SessionMode == IF turns > 0 THEN "RESUME" ELSE "START"
Lost == losses < MaxLosses /\ losses' = losses + 1

\* _transition; one that is not allowed raises and leaves the row alone.
MayFail == state \in Active \cup {"PAUSED", "WAITING_HUMAN", "WAITING_HOST"}
MayComplete == state \in Active
\* The recovery record is deleted with the end of the Job.
Close(to) == state' = to /\ mode' = "none" /\ named' = FALSE
Same == UNCHANGED <<state, mode, named>>

\* _fail ignores a Job that is suspended or over.
Fail == IF state \in Active THEN Close("FAILED") ELSE Same

\* _enter_host_wait: the execution that the record names stays named.
HostWait(m) ==
    IF state \in Active \cup {"PAUSED", "WAITING_HUMAN", "WAITING_HOST"}
    THEN state' = "WAITING_HOST" /\ mode' = m /\ UNCHANGED named ELSE Same

\* _fail_qa.
FailQA ==
    /\ run' = IF run.phase \in {"RUNNING", "COLLECTING"}
              THEN [run EXCEPT !.phase = "FAILED"] ELSE run
    /\ IF MayFail THEN Close("FAILED") ELSE Same

\* An exception that leaves the closing of a Job: only QA recovery fails the Job for it.
Raised == IF task.kind = "recover" THEN FailQA ELSE Same /\ UNCHANGED run

FinalizeCancellation == IF state = "CANCELLING" THEN Close("CANCELLED") ELSE Same

\* The end of cancel() without a handle: with an execution in the record, over or not,
\* it is left to the Runner to confirm.
ConfirmCancellation ==
    IF state = "CANCELLING" /\ project.remote /\ named
    THEN mode' = "CANCEL" /\ UNCHANGED <<state, named>> ELSE FinalizeCancellation

-----------------------------------------------------------------------------
(* Before the turn: _execute_new and ProjectOSAdapter.prepare.             *)

Begin ==
    /\ At("begin")
    /\ IF state = "ASSIGNED"
       THEN state' = "STARTING" /\ Goto(IF project.os THEN "status" ELSE "turn")
       ELSE UNCHANGED state /\ Goto("end")
    /\ UNCHANGED <<project, mode, named, result, pid, records, handle, requests, up, outside,
                   turns, bounds>>

ReadStatus ==
    /\ At("status")
    /\ task' = [task EXCEPT !.at = "select", !.seen = board.current]
    /\ UNCHANGED <<project, job, records, handle, requests, up, outside, turns, bounds>>

\* The first time, the next task of the role, if there is one.
Select ==
    /\ At("select")
    /\ \/ work' = (IF work = "none" THEN "SELECTED" ELSE work) /\ Goto("claim") /\ Same
       \/ /\ work = "none" /\ Goto("end") /\ UNCHANGED work
          /\ IF MayComplete THEN Close("COMPLETED") ELSE Same
    /\ UNCHANGED <<project, result, pid, run, gate, handle, requests, up, outside, turns, bounds>>

\* A mutant: a claim that was made before the crash is made again.
ClaimAgain ==
    /\ At("claim") /\ Goto("claimed")
    /\ board' = IF work = "SELECTED"
                THEN [board EXCEPT !.current = TRUE, !.claims = @ + 1] ELSE board
    /\ UNCHANGED <<project, job, records, handle, requests, up, reported, qa, file, turns, bounds>>

\* The claim is made and answered in one step of the task; one that a crash leaves in
\* flight, to take effect after the retry has read the status, is left out.
Claim ==
    /\ At("claim") /\ Goto("claimed")
    /\ board' = IF work = "SELECTED" /\ ~task.seen
                THEN [board EXCEPT !.current = TRUE, !.claims = @ + 1] ELSE board
    /\ UNCHANGED <<project, job, records, handle, requests, up, reported, qa, file, turns, bounds>>

RecordClaim ==
    /\ \/ At("claimed") /\ Goto("prepare")
          /\ work' = (IF work = "SELECTED" THEN "CLAIMED" ELSE work)
       \/ At("prepare") /\ work' = "PREPARED" /\ Goto("turn")
    /\ UNCHANGED <<project, job, run, gate, handle, requests, up, outside, turns, bounds>>

\* An operation before the turn fails, also one that was carried out.
PrepareFails ==
    /\ up = "up" /\ task.at \in {"status", "select", "claim", "claimed", "turn"} /\ Lost
    /\ \/ project.remote /\ (IF state = "STARTING" THEN HostWait(SessionMode) ELSE Same)
       \/ Fail
    /\ Goto("end")
    /\ UNCHANGED <<project, result, pid, records, handle, requests, up, outside, turns, stops>>

\* A turn of Codex begins ...
Turn ==
    /\ At("turn")
    /\ IF state = "STARTING"
       THEN /\ turns < MaxTurns /\ turns' = turns + 1
            /\ state' = "RUNNING" /\ pid' = TRUE /\ handle' = TRUE /\ Goto("codex")
            /\ named' = project.remote /\ reported' = project.remote
       ELSE Goto("end") /\ UNCHANGED <<state, named, pid, handle, reported, turns>>
    /\ UNCHANGED <<project, mode, result, records, requests, up, qa, file, board, bounds>>

\* ... and ends.  With success, the result is recorded before anything else, and then
\* acknowledged: the Runner forgets it.
TurnEnds ==
    /\ At("codex") /\ reported' = FALSE
    /\ \/ /\ state = "RUNNING" /\ state' = "WAITING_AGENT" /\ result' = TRUE
          /\ UNCHANGED <<mode, named>> /\ Goto("qa")
       \/ /\ IF state = "CANCELLING" THEN FinalizeCancellation ELSE Fail
          /\ UNCHANGED result /\ Goto("end")
    /\ UNCHANGED <<project, pid, records, handle, requests, up, qa, file, board, turns, bounds>>

-----------------------------------------------------------------------------
(* Automated QA: _run_qa_then_finalize, _execute_qa_recovery, QAOrchestrator. *)

\* A mutant: a Job without a QA run has nothing to recover.
RecoverNothing ==
    /\ At("recover")
    /\ task' = [task EXCEPT !.at = IF run = NoRun THEN "complete" ELSE "qa",
                            !.collect = TRUE, !.reuse = TRUE]
    /\ UNCHANGED <<project, job, records, handle, requests, up, outside, turns, bounds>>

\* The result of the latest run is collected, if there is a run.
Recover ==
    /\ At("recover")
    /\ task' = [task EXCEPT !.at = "qa", !.collect = (run # NoRun), !.reuse = (run # NoRun)]
    /\ UNCHANGED <<project, job, records, handle, requests, up, outside, turns, bounds>>

\* The contract is read and the run is recorded.  A new run has a result of its own.
BeginQA ==
    /\ At("qa")
    /\ IF state \notin {"RUNNING", "WAITING_AGENT"}
       THEN Goto("end") /\ UNCHANGED <<run, file>>
       ELSE IF ~project.qa THEN Goto("complete") /\ UNCHANGED <<run, file>>
       ELSE /\ Goto(IF task.collect THEN "collect" ELSE "run")
            /\ run' = [(IF task.reuse THEN run ELSE NoRun)
                          EXCEPT !.phase = IF task.collect THEN "COLLECTING" ELSE "RUNNING"]
            /\ file' = IF task.reuse THEN file ELSE "none"
    /\ UNCHANGED <<project, job, work, gate, handle, requests, up, reported, qa, board, turns,
                   bounds>>

RunQA ==
    /\ At("run") /\ qa' = TRUE /\ Goto("await")
    /\ UNCHANGED <<project, job, records, handle, requests, up, reported, file, board, turns,
                   bounds>>

\* The command leaves a result or none, and no command exceeds its timeout.
QAEnds ==
    /\ qa /\ qa' = FALSE
    /\ file' \in Verdicts \cup {file}
    /\ UNCHANGED <<project, job, records, task, handle, requests, up, reported, board, turns,
                   bounds>>

\* The result is read and validated; only one that is missing or malformed while it
\* is collected makes the command run again, with the same run id.
QAResult ==
    /\ \/ At("await") /\ ~qa
       \/ At("collect")
    /\ IF file # "none"
       THEN /\ run' = [run EXCEPT !.verdict = file,
                 !.phase = CASE file = "PASS" -> "DONE" [] file = "GATE" -> "REVIEWING"
                             [] OTHER -> "FAILED"]
            /\ Goto("verdict") /\ Same
       ELSE IF task.at = "collect"
       THEN task' = [task EXCEPT !.at = "qa", !.collect = FALSE] /\ UNCHANGED run /\ Same
       ELSE FailQA /\ Goto("end")
    /\ UNCHANGED <<project, result, pid, work, gate, handle, requests, up, outside, turns, bounds>>

\* The Runner is lost, or the operation fails.
QAFails ==
    /\ up = "up" /\ task.at \in {"qa", "await", "collect"} /\ Lost
    /\ state \in {"RUNNING", "WAITING_AGENT"} \/ task.at # "qa"
    /\ \/ project.remote /\ HostWait("QA") /\ UNCHANGED run /\ Goto("end")
       \/ ~task.collect /\ (task.at = "await" => ~qa) /\ FailQA /\ Goto("end")
       \/ task.collect /\ task' = [task EXCEPT !.at = "qa", !.collect = FALSE]
          /\ UNCHANGED run /\ Same
    /\ UNCHANGED <<project, result, pid, work, gate, handle, requests, up, outside, turns, stops>>

Verdict ==
    /\ At("verdict")
    /\ CASE run.verdict = "FAIL" -> (IF MayFail THEN Close("FAILED") ELSE Same) /\ Goto("end")
         [] run.verdict = "GATE" ->
              /\ state' = (IF state = "WAITING_AGENT" THEN "RUNNING" ELSE state)
              /\ UNCHANGED <<mode, named>> /\ Goto("gate")
         [] OTHER -> Same /\ Goto("complete")
    /\ UNCHANGED <<project, result, pid, records, handle, requests, up, outside, turns, bounds>>

\* _enter_human_gate: a Job that is not RUNNING any more gets no approval.
Review ==
    /\ At("gate") /\ Goto("end")
    /\ IF state = "RUNNING"
       THEN state' = "WAITING_HUMAN" /\ gate' = "PENDING" /\ UNCHANGED <<mode, named, run>>
       ELSE FailQA /\ UNCHANGED gate
    /\ UNCHANGED <<project, result, pid, work, handle, requests, up, outside, turns, bounds>>

-----------------------------------------------------------------------------
(* Closing: _complete_after_qa, _finalize_project_adapter, submit_result.  *)

Complete ==
    /\ At("complete")
    /\ IF project.os
       THEN /\ state' = (IF state = "RUNNING" THEN "WAITING_AGENT" ELSE state)
            /\ Goto("submit") /\ UNCHANGED <<mode, named, run>>
       ELSE /\ Goto("end")
            /\ IF MayComplete THEN Close("COMPLETED") /\ UNCHANGED run ELSE Raised
    /\ UNCHANGED <<project, result, pid, work, gate, handle, requests, up, outside, turns, bounds>>

\* A mutant: the submission is recorded before it is made.
SubmitRecordedFirst ==
    /\ At("submit")
    /\ IF work = "SUBMITTED" THEN Goto("submitted") /\ UNCHANGED <<work, board>>
       ELSE /\ work' = "SUBMITTED" /\ Goto("next")
            /\ \E sent \in BOOLEAN :
                  board' = IF sent THEN [board EXCEPT !.submits = @ + 1] ELSE board
    /\ UNCHANGED <<project, job, run, gate, handle, requests, up, reported, qa, file, turns,
                   bounds>>

Submit ==
    /\ At("submit")
    /\ IF work = "SUBMITTED" THEN Goto("submitted") /\ UNCHANGED board
       ELSE board' = [board EXCEPT !.submits = @ + 1] /\ Goto("next")
    /\ UNCHANGED <<project, job, records, handle, requests, up, reported, qa, file, turns, bounds>>

\* The next task is read, and only then the submission is recorded.
RecordSubmit ==
    /\ At("next") /\ work' = "SUBMITTED" /\ Goto("submitted")
    /\ UNCHANGED <<project, job, run, gate, handle, requests, up, outside, turns, bounds>>

\* The submission fails, with or without an effect, or the read that follows it does.
SubmitFails ==
    /\ up = "up" /\ task.at \in {"submit", "next"} /\ work # "SUBMITTED" /\ Lost
    /\ work' \in {"SUBMIT_FAILED"} \cup (IF task.at = "next" THEN {work} ELSE {})
    /\ \/ project.remote /\ HostWait("FINALIZE")
       \/ IF MayFail THEN Close("FAILED") ELSE Same
    /\ Goto("end")
    /\ UNCHANGED <<project, result, pid, run, gate, handle, requests, up, outside, turns, stops>>

\* A mutant: the Job takes the status of its ProjectWork row.
SubmittedStatus ==
    /\ At("submitted") /\ Goto("end")
    /\ IF MayComplete THEN Close("SUBMITTED") /\ UNCHANGED run ELSE Raised
    /\ UNCHANGED <<project, result, pid, work, gate, handle, requests, up, outside, turns, bounds>>

Submitted ==
    /\ At("submitted") /\ Goto("end")
    /\ IF MayComplete THEN Close("COMPLETED") /\ UNCHANGED run ELSE Raised
    /\ UNCHANGED <<project, result, pid, work, gate, handle, requests, up, outside, turns, bounds>>

\* The task is over, and drops the handle.
End ==
    /\ At("end") /\ task' = NoTask /\ handle' = FALSE
    /\ UNCHANGED <<project, job, records, requests, up, outside, turns, bounds>>

-----------------------------------------------------------------------------
(* Requests: pause, resume, cancel, respond_approval, expire_approvals.    *)

\* While QA is recovered the Job is RUNNING, and can be paused like any other.
Pause ==
    /\ up = "up" /\ state = "RUNNING" /\ task.at # "codex" /\ state' = "PAUSED"
    /\ UNCHANGED <<project, mode, named, result, pid, records, task, handle, requests, up,
                   outside, turns, bounds>>

\* A resumed turn: /resume after the task is over, or the scheduler's retry.
ResumeTurn(m) ==
    /\ turns < MaxTurns /\ turns' = turns + 1
    /\ state' = "RUNNING" /\ mode' = m /\ pid' = TRUE /\ handle' = TRUE
    /\ named' = project.remote /\ reported' = project.remote
    /\ task' = [NoTask EXCEPT !.at = "codex", !.kind = "turn"]

Resume ==
    /\ up = "up" /\ state = "PAUSED" /\ ~Busy /\ ResumeTurn(mode)
    /\ UNCHANGED <<project, result, records, requests, up, qa, file, board, bounds>>

Cancel ==
    /\ up = "up" /\ cancel = "idle" /\ state \notin Terminal
    /\ state' = "CANCELLING" /\ cancel' = "look"
    /\ gate' = IF gate = "PENDING" THEN "SETTLED" ELSE gate
    /\ UNCHANGED <<project, mode, named, result, pid, work, run, task, handle, answer, up, outside,
                   turns, bounds>>

QAActive == run.phase \in {"RUNNING", "COLLECTING"}

\* A mutant: only a running QA is waited for.
LookOnlyForQA ==
    /\ up = "up" /\ cancel = "look" /\ cancel' = "idle"
    /\ IF handle THEN FinalizeCancellation ELSE ConfirmCancellation
    /\ IF ~handle /\ Busy /\ QAActive
       THEN /\ Goto("end") /\ run' = [run EXCEPT !.phase = "FAILED"] /\ UNCHANGED reported
            /\ qa' = (qa /\ (project.remote \/ task.at # "await"))
       ELSE /\ Goto(IF task.at = "codex" THEN "end" ELSE task.at) /\ UNCHANGED <<run, qa>>
            /\ reported' = (reported /\ task.at # "codex")
    /\ UNCHANGED <<project, result, pid, work, gate, handle, answer, up, file, board, turns,
                   bounds>>

\* The handle of a turn, running or over, is cancelled at once.  Without one, the task
\* of a running QA is cancelled, and any other task is waited for.
Look ==
    /\ up = "up" /\ cancel = "look"
    /\ CASE handle ->
              /\ Goto(IF task.at = "codex" THEN "end" ELSE task.at) /\ UNCHANGED <<run, qa>>
              /\ reported' = (reported /\ task.at # "codex")
              /\ FinalizeCancellation /\ cancel' = "idle"
         [] ~handle /\ ~Busy ->
              ConfirmCancellation /\ cancel' = "idle" /\ UNCHANGED <<task, run, reported, qa>>
         [] ~handle /\ Busy /\ QAActive ->
              /\ Goto("end") /\ run' = [run EXCEPT !.phase = "FAILED"]
              /\ qa' = (qa /\ (project.remote \/ task.at # "await"))
              /\ ConfirmCancellation /\ cancel' = "idle" /\ UNCHANGED reported
         [] OTHER -> cancel' = "join" /\ Same /\ UNCHANGED <<task, run, reported, qa>>
    /\ UNCHANGED <<project, result, pid, work, gate, handle, answer, up, file, board, turns,
                   bounds>>

Joined ==
    /\ up = "up" /\ cancel = "join" /\ ~Busy
    /\ ConfirmCancellation /\ cancel' = "idle"
    /\ UNCHANGED <<project, result, pid, records, task, handle, answer, up, outside, turns, bounds>>

Respond ==
    /\ up = "up" /\ state = "WAITING_HUMAN" /\ gate = "PENDING" /\ gate' = "SETTLED"
    /\ answer' \in {"APPROVE", "REJECT"}
    /\ UNCHANGED <<project, job, work, run, task, handle, cancel, up, outside, turns, bounds>>

\* The answer takes effect when the task that asked is over.
Answered ==
    /\ up = "up" /\ answer # "none" /\ answer' = "none" /\ ~Busy
    /\ run' = [run EXCEPT !.review = IF answer = "APPROVE" THEN "UI_APPROVED" ELSE "UI_REJECTED"]
    /\ IF answer = "REJECT"
       THEN (IF MayFail THEN Close("FAILED") ELSE Same) /\ UNCHANGED task
       ELSE IF state \in {"WAITING_HUMAN", "WAITING_AGENT", "PAUSED"}
       THEN /\ state' = "RUNNING" /\ UNCHANGED <<mode, named>>
            /\ task' = [NoTask EXCEPT !.at = "complete", !.kind = "approved"]
       ELSE Same /\ UNCHANGED task
    /\ UNCHANGED <<project, result, pid, work, gate, handle, cancel, up, outside, turns, bounds>>

Expire ==
    /\ up = "up" /\ gate = "PENDING" /\ gate' = "SETTLED"
    /\ IF state = "WAITING_HUMAN" THEN Close("FAILED") ELSE Same
    /\ UNCHANGED <<project, result, pid, work, run, task, handle, requests, up, outside, turns,
                   bounds>>

-----------------------------------------------------------------------------
(* The scheduler: _retry_host.  A Runner that was lost is back when the QA *)
(* command it was running is over -- it reads its messages one at a time -- *)
(* and its executions were adopted.                                        *)

\* A mutant: the scheduler knows only turns and QA.
RetryTurns ==
    /\ up = "up" /\ state = "WAITING_HOST" /\ mode \in {"START", "RESUME", "QA"}
    /\ task.at = "none" /\ ~reported /\ (project.remote => ~qa)
    /\ state' = "ASSIGNED" /\ Goto("assigned")
    /\ UNCHANGED <<project, mode, named, result, pid, records, handle, requests, up, outside,
                   turns, bounds>>

Retry ==
    /\ up = "up" /\ state = "WAITING_HOST" /\ mode \in {"START", "RESUME", "QA", "FINALIZE"}
    /\ task.at = "none" /\ ~reported /\ (project.remote => ~qa)
    /\ state' = "ASSIGNED" /\ Goto("assigned")
    /\ UNCHANGED <<project, mode, named, result, pid, records, handle, requests, up, outside,
                   turns, bounds>>

Dispatch ==
    /\ At("assigned")
    /\ CASE state # "ASSIGNED" -> 
              task' = NoTask /\ UNCHANGED <<state, mode, named, pid, handle, reported, turns>>
         [] state = "ASSIGNED" /\ mode = "RESUME" -> ResumeTurn(mode)
         [] OTHER ->
              /\ state' = CASE mode = "START" -> "ASSIGNED" [] mode = "QA" -> "RUNNING"
                            [] OTHER -> "STARTING"
              /\ task' = CASE mode = "START" -> [NoTask EXCEPT !.at = "begin", !.kind = "turn"]
                           [] mode = "QA" -> [NoTask EXCEPT !.at = "recover", !.kind = "recover"]
                           [] OTHER -> [NoTask EXCEPT !.at = "submit", !.kind = "finalize"]
              /\ named' = (named /\ mode = "START")
              /\ UNCHANGED <<mode, pid, handle, reported, turns>>
    /\ UNCHANGED <<project, result, records, requests, up, qa, file, board, bounds>>

\* reconcile_runner.  The execution of a Job that waits is adopted, whatever it waits
\* for; only one that may still run is found missing, and starts anew.  A cancellation
\* is finished when the Runner tells of its execution, and stays as it is when not.
Adopt ==
    /\ up = "up" /\ state = "WAITING_HOST" /\ reported /\ task.at = "none"
    /\ state' = "RUNNING" /\ named' = TRUE /\ pid' = TRUE /\ handle' = TRUE
    /\ task' = [NoTask EXCEPT !.at = "codex", !.kind = "turn"]
    /\ UNCHANGED <<project, mode, result, records, requests, up, outside, turns, bounds>>

RunnerReports ==
    /\ up = "up" /\ project.remote /\ reported' = FALSE
    /\ \/ /\ state = "WAITING_HOST" /\ mode = "ADOPT"
          /\ mode' = SessionMode /\ named' = FALSE /\ UNCHANGED state
       \/ state = "CANCELLING" /\ mode = "CANCEL" /\ reported /\ FinalizeCancellation
    /\ UNCHANGED <<project, result, pid, records, task, handle, requests, up, qa, file, board,
                   turns, bounds>>

-----------------------------------------------------------------------------
(* Shutdown, crash, and the next start.                                    *)

Forget == task' = NoTask /\ handle' = FALSE /\ cancel' = "idle" /\ answer' = "none" /\ up' = "down"

\* shutdown and _handle_cancelled_task: the Job of a task or of a handle will be
\* resumed, whatever its task was at.  An approved Job's task leaves it alone.
Shutdown ==
    /\ up = "up" /\ task.at # "assigned" /\ stops < MaxStops /\ stops' = stops + 1 /\ Forget
    /\ CASE state = "CANCELLING" /\ handle ->
              IF project.remote THEN mode' = "CANCEL" /\ named' = TRUE /\ UNCHANGED state
              ELSE FinalizeCancellation
         [] /\ state # "CANCELLING"
            /\ handle \/ (Busy /\ task.kind # "approved" /\ state \in Active) ->
              HostWait(IF project.remote THEN "ADOPT" ELSE SessionMode)
         [] OTHER -> Same
    /\ pid' = (pid /\ (project.remote \/ ~handle))
    /\ qa' = (qa /\ (project.remote \/ task.at # "await"))
    /\ UNCHANGED <<project, result, records, reported, file, board, turns, losses>>

Crash ==
    /\ up = "up" /\ stops < MaxStops /\ stops' = stops + 1 /\ Forget
    /\ UNCHANGED <<project, job, records, outside, turns, losses>>

\* A local Job that may have a process is not touched without the pid of it.
Refused == ~project.remote /\ ~pid /\ state \in {"STARTING", "RUNNING", "CANCELLING"}

\* A mutant: a pending submission goes before the QA run.
RestartSubmitsFirst ==
    /\ up = "down"
    /\ IF Refused THEN up' = "refused" /\ Same /\ UNCHANGED pid
       ELSE /\ up' = "up" /\ pid' = (pid /\ project.remote)
            /\ CASE state = "CANCELLING" ->
                      IF project.remote THEN mode' = "CANCEL" /\ UNCHANGED <<state, named>>
                      ELSE FinalizeCancellation
                 [] state \in {"STARTING", "RUNNING"} /\ run # NoRun -> HostWait("QA")
                 [] state \in {"ASSIGNED", "STARTING", "RUNNING"} /\ run = NoRun ->
                      /\ state' = "WAITING_HOST" /\ UNCHANGED named
                      /\ mode' = IF project.remote THEN "ADOPT" ELSE SessionMode
                 [] state = "WAITING_AGENT" ->
                      /\ state' = "WAITING_HOST" /\ named' = FALSE
                      /\ mode' = IF project.os /\ work # "none" THEN "FINALIZE"
                                 ELSE IF run # NoRun THEN "QA" ELSE SessionMode
                 [] OTHER -> Same
    /\ UNCHANGED <<project, result, records, task, handle, requests, outside, turns, bounds>>

\* A mutant: a Job that was being closed is not looked at.
RestartForgetsAgent ==
    /\ up = "down"
    /\ IF Refused THEN up' = "refused" /\ Same /\ UNCHANGED pid
       ELSE /\ up' = "up" /\ pid' = (pid /\ project.remote)
            /\ CASE state = "CANCELLING" ->
                      IF project.remote THEN mode' = "CANCEL" /\ UNCHANGED <<state, named>>
                      ELSE FinalizeCancellation
                 [] state \in {"STARTING", "RUNNING"} /\ run # NoRun -> HostWait("QA")
                 [] state \in {"ASSIGNED", "STARTING", "RUNNING"} /\ run = NoRun ->
                      /\ state' = "WAITING_HOST" /\ UNCHANGED named
                      /\ mode' = IF project.remote THEN "ADOPT" ELSE SessionMode
                 [] OTHER -> Same
    /\ UNCHANGED <<project, result, records, task, handle, requests, outside, turns, bounds>>

\* reconcile_startup.  With a QA run the Job is at QA, without one at the submission.
\* A Job that has a QA run and was only assigned again is left as it is.
Restart ==
    /\ up = "down"
    /\ IF Refused THEN up' = "refused" /\ Same /\ UNCHANGED pid
       ELSE /\ up' = "up" /\ pid' = (pid /\ project.remote)
            /\ CASE state = "CANCELLING" ->
                      IF project.remote THEN mode' = "CANCEL" /\ UNCHANGED <<state, named>>
                      ELSE FinalizeCancellation
                 [] state \in {"STARTING", "RUNNING"} /\ run # NoRun -> HostWait("QA")
                 [] state \in {"ASSIGNED", "STARTING", "RUNNING"} /\ run = NoRun ->
                      /\ state' = "WAITING_HOST" /\ UNCHANGED named
                      /\ mode' = IF project.remote THEN "ADOPT" ELSE SessionMode
                 [] state = "WAITING_AGENT" ->
                      /\ state' = "WAITING_HOST" /\ named' = FALSE
                      /\ mode' = IF run # NoRun THEN "QA"
                                 ELSE IF project.os /\ work # "none" THEN "FINALIZE"
                                 ELSE SessionMode
                 [] OTHER -> Same
    /\ UNCHANGED <<project, result, records, task, handle, requests, outside, turns, bounds>>

-----------------------------------------------------------------------------
TaskStep ==
    \/ Begin \/ ReadStatus \/ Select \/ Claim \/ RecordClaim \/ Turn
    \/ Recover \/ BeginQA \/ RunQA \/ QAResult \/ Verdict \/ Review
    \/ Complete \/ Submit \/ RecordSubmit \/ Submitted \/ End
RequestStep == Look \/ Joined \/ Answered

Next ==
    \/ TaskStep \/ TurnEnds \/ QAEnds \/ PrepareFails \/ QAFails \/ SubmitFails
    \/ RequestStep \/ Pause \/ Resume \/ Cancel \/ Respond \/ Expire
    \/ Retry \/ Dispatch \/ Adopt \/ RunnerReports \/ Shutdown \/ Crash \/ Restart

Spec == Init /\ [][Next]_vars

\* Tasks and requests are scheduled, the scheduler ticks for ever, QA commands have a
\* timeout, a Runner comes back, and a Controller that is down is started again.
Fairness ==
    /\ WF_vars(TaskStep) /\ WF_vars(Look \/ Joined) /\ WF_vars(Answered) /\ WF_vars(QAEnds)
    /\ WF_vars(Retry) /\ WF_vars(Dispatch) /\ WF_vars(Adopt) /\ WF_vars(RunnerReports)
    /\ WF_vars(Restart)

FairSpec == Spec /\ Fairness

-----------------------------------------------------------------------------
(* Properties.                                                             *)

\* docs/PROJECT_ADAPTERS.md: a claim is reconciled after a lost answer or a crash, and
\* is never made twice.
ClaimedOnce == board.claims <= 1

\* A Job with a Project OS task is COMPLETED only when its handoff was made, and the
\* row that keeps a retry from repeating it says so.
CompletedMeansHandedOff ==
    state = "COMPLETED" /\ project.os /\ turns > 0 => board.submits > 0 /\ work = "SUBMITTED"

\* What QA refused, or a human, is not handed off: not by a retry, and not after a
\* restart that finds the run recorded and the Job not yet FAILED.
RefusedIsNotHandedOff ==
    [][run.verdict = "FAIL" \/ run.review = "UI_REJECTED" => board'.submits = board.submits]_vars

\* A Job of a project with QA is COMPLETED only when its latest run passed or was
\* approved, whichever losses, pauses and retries came between.  (A crash before the
\* run is recorded makes a Project OS Job skip QA.)
CompletedMeansTested ==
    state = "COMPLETED" /\ project.qa /\ turns > 0 /\ stops = 0 =>
        run.verdict = "PASS" \/ run.review = "UI_APPROVED"

\* No active Job is left behind by those that drive it: each exception path, each restart
\* and each lost Runner leaves an active Job with a task or moves it to where the
\* scheduler or a human finds it.
ActiveJobIsDriven == up = "up" /\ state \in Active => Busy

\* A Job is CANCELLED, and its working tree free, only when no task works for it: not
\* while it is prepared or its turn runs, and not while it is closed by a task of its own,
\* after QA recovery, an approval or a lost submission.  The closing that follows its turn
\* is not waited for: _handles has the handle of the turn until the task is over, so that
\* a cancellation takes the exited process for the whole work of the task.
CancelWaitsForTask ==
    state = "CANCELLED" /\ Busy =>
        \/ task.at = "end"
        \/ task.kind = "turn" /\ task.at \in Closing

\* The closing of a Job comes to an end: each restart and each lost Runner is followed
\* by the rest of it, unless a turn runs again, the start-up refuses, a second restart
\* finds a Job with a QA run that was only assigned again, or a cancellation was left
\* to a Runner that does not know the execution any more.
ClosingEnds ==
    (state = "WAITING_AGENT" /\ up = "up") ~>
        \/ state \in Terminal \cup {"WAITING_HUMAN", "PAUSED"}
        \/ task.at = "codex" \/ up = "refused"
        \/ (state = "WAITING_HOST" /\ mode = "RESUME" /\ turns = MaxTurns)
        \/ (state = "ASSIGNED" /\ task.at = "none")
        \/ (state = "CANCELLING" /\ project.remote /\ mode = "CANCEL" /\ ~reported)

\* docs/ARCHITECTURE.md: a restart during the submission retries the submission, and
\* does not run the Agent again.  Only a human who resumes the Job does.
AgentIsNotRerun == [][result /\ turns' # turns => state = "PAUSED"]_vars

=============================================================================
