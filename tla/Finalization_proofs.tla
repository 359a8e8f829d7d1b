------------------------ MODULE Finalization_proofs -------------------------
(***************************************************************************)
(* Machine-checked proofs about Finalization, for every set of kinds of    *)
(* projects and every value of the bounds.                                 *)
(***************************************************************************)
EXTENDS Finalization, TLAPS

USE DEF job, records, requests, outside, bounds, At, Goto, Busy, Lost, Same, Close,
        Terminal, Active, Verdicts, TaskStep, RequestStep

-----------------------------------------------------------------------------
(* Types.                                                                  *)

\* A new task is well formed.
LEMMA NewTaskTyped ==
    /\ NoTask \in TaskType
    /\ \A kind \in {"turn", "recover", "finalize", "approved"},
          at \in {"begin", "codex", "recover", "submit", "complete"} :
             [NoTask EXCEPT !.at = at, !.kind = kind] \in TaskType
  BY DEF NoTask, TaskType

\* Every step leaves the task of the Job well formed.
LEMMA TaskTyped ==
    ASSUME task \in TaskType, board.current \in BOOLEAN, [Next]_vars
    PROVE  task' \in TaskType
<1>1. CASE Begin \/ Select \/ Claim \/ RecordClaim \/ Turn \/ ReadStatus
  BY <1>1 DEF TaskType, Begin, Select, Claim, RecordClaim, Turn, ReadStatus
<1>2. CASE BeginQA \/ RunQA \/ QAResult \/ Verdict \/ Review
  BY <1>2 DEF TaskType, BeginQA, RunQA, QAResult, Verdict, Review
<1>3. CASE Recover
  BY <1>3 DEF TaskType, Recover
<1>4. CASE Complete \/ Submit \/ RecordSubmit \/ Submitted
  BY <1>4 DEF TaskType, Complete, Submit, RecordSubmit, Submitted
<1>5. CASE TurnEnds \/ QAEnds \/ PrepareFails \/ QAFails \/ SubmitFails
  BY <1>5 DEF TaskType, TurnEnds, QAEnds, PrepareFails, QAFails, SubmitFails
<1>6. CASE Look \/ Joined \/ Pause \/ Cancel \/ Respond \/ Expire \/ Retry \/ RunnerReports
  BY <1>6 DEF TaskType, Look, Joined, Pause, Cancel, Respond, Expire, Retry,
                       RunnerReports
<1>7. CASE End \/ Answered \/ Resume \/ Dispatch \/ Adopt \/ Shutdown \/ Crash \/ Restart
  BY <1>7, NewTaskTyped
     DEF End, Answered, Resume, ResumeTurn, Dispatch, Adopt, Shutdown, Crash, Forget, Restart
<1>8. CASE UNCHANGED vars
  BY <1>8 DEF vars
<1>9. QED
  BY <1>1, <1>2, <1>3, <1>4, <1>5, <1>6, <1>7, <1>8 DEF Next

\* Every step leaves the QA run of the Job well formed.
LEMMA RunTyped ==
    ASSUME run \in RunType, file \in Verdicts \cup {"none"}, [Next]_vars
    PROVE  run' \in RunType
<1> USE DEF RunType, NoRun
<1>1. CASE Begin \/ Select \/ Claim \/ RecordClaim \/ Turn \/ ReadStatus
  BY <1>1 DEF Begin, Select, Claim, RecordClaim, Turn, ReadStatus
<1>2. CASE Recover \/ BeginQA \/ RunQA \/ QAResult \/ Verdict \/ Review
  BY <1>2 DEF Recover, BeginQA, RunQA, QAResult, Verdict, Review, FailQA
<1>3. CASE Complete \/ Submit \/ RecordSubmit \/ Submitted \/ End
  BY <1>3 DEF Complete, Submit, RecordSubmit, Submitted, End, Raised, FailQA
<1>4. CASE TurnEnds \/ QAEnds \/ PrepareFails \/ QAFails \/ SubmitFails
  BY <1>4 DEF TurnEnds, QAEnds, PrepareFails, QAFails, SubmitFails, FailQA
<1>5. CASE RequestStep \/ Pause \/ Resume \/ Cancel \/ Respond \/ Expire
  BY <1>5 DEF Look, Joined, Answered, Pause, Resume, Cancel, Respond, Expire
<1>6. CASE Retry \/ Dispatch \/ Adopt \/ RunnerReports \/ Shutdown \/ Crash \/ Restart
  BY <1>6 DEF Dispatch, Shutdown, Crash, Restart, Retry, Adopt, RunnerReports
<1>7. CASE UNCHANGED vars
  BY <1>7 DEF vars
<1>8. QED
  BY <1>1, <1>2, <1>3, <1>4, <1>5, <1>6, <1>7 DEF Next

\* The board of the Project OS changes by a claim and by a submission only.
LEMMA BoardMoves ==
    ASSUME [Next]_vars
    PROVE  \/ Claim /\ work = "SELECTED" /\ ~task.seen
              /\ board' = [board EXCEPT !.current = TRUE, !.claims = @ + 1]
           \/ Submit /\ work # "SUBMITTED" /\ board' = [board EXCEPT !.submits = @ + 1]
           \/ board' = board
<1>1. CASE Begin \/ Select \/ Claim \/ RecordClaim \/ Turn \/ ReadStatus
  BY <1>1 DEF Begin, Select, Claim, RecordClaim, Turn, ReadStatus
<1>2. CASE Recover \/ BeginQA \/ RunQA \/ QAResult \/ Verdict \/ Review
  BY <1>2 DEF Recover, BeginQA, RunQA, QAResult, Verdict, Review
<1>3. CASE Complete \/ Submit \/ RecordSubmit \/ Submitted \/ End
  BY <1>3 DEF Complete, Submit, RecordSubmit, Submitted, End
<1>4. CASE TurnEnds \/ QAEnds \/ PrepareFails \/ QAFails \/ SubmitFails
  BY <1>4 DEF TurnEnds, QAEnds, PrepareFails, QAFails, SubmitFails
<1>5. CASE RequestStep \/ Pause \/ Resume \/ Cancel \/ Respond \/ Expire
  BY <1>5 DEF Look, Joined, Answered, Pause, Resume, Cancel, Respond, Expire
<1>6. CASE Retry \/ Dispatch \/ Adopt \/ RunnerReports \/ Shutdown \/ Crash \/ Restart
  BY <1>6 DEF Dispatch, Shutdown, Crash, Restart, Retry, Adopt, RunnerReports
<1>7. CASE UNCHANGED vars
  BY <1>7 DEF vars
<1>8. QED
  BY <1>1, <1>2, <1>3, <1>4, <1>5, <1>6, <1>7 DEF Next

\* The boards that the Project OS can show.
Board == [current : BOOLEAN, claims : Nat, submits : Nat]
\* Every step leaves the board well formed.
LEMMA BoardTyped == ASSUME board \in Board, [Next]_vars PROVE board' \in Board
<1>1. board.claims + 1 \in Nat /\ board.submits + 1 \in Nat
  BY DEF Board
<1>2. CASE board' = [board EXCEPT !.current = TRUE, !.claims = @ + 1]
  BY <1>1, <1>2 DEF Board
<1>3. CASE board' = [board EXCEPT !.submits = @ + 1]
  BY <1>1, <1>3 DEF Board
<1>4. QED
  BY <1>2, <1>3, BoardMoves

\* Every step of the task, of a request, of the scheduler or of the world keeps every
\* variable in its type.
LEMMA TypeStep == TypeOK /\ [Next]_vars => TypeOK'
<1> SUFFICES ASSUME TypeOK, [Next]_vars PROVE TypeOK'
  OBVIOUS
<1> DEFINE Rows ==
      /\ project \in Projects
      /\ state \in Active \cup Terminal
             \cup {"ASSIGNED", "CANCELLING", "PAUSED", "WAITING_HUMAN", "WAITING_HOST"}
      /\ mode \in {"none", "START", "RESUME", "ADOPT", "QA", "FINALIZE", "CANCEL"}
      /\ {named, result, pid} \subseteq BOOLEAN
      /\ work \in {"none", "SELECTED", "CLAIMED", "PREPARED", "SUBMIT_FAILED", "SUBMITTED"}
      /\ gate \in {"none", "PENDING", "SETTLED"}
    Memory ==
      /\ handle \in BOOLEAN
      /\ cancel \in {"idle", "look", "join"} /\ answer \in {"none", "APPROVE", "REJECT"}
      /\ up \in {"up", "down", "refused"}
      /\ {reported, qa} \subseteq BOOLEAN /\ file \in Verdicts \cup {"none"}
<1>1. task' \in TaskType /\ run' \in RunType /\ board' \in Board
  BY TaskTyped, RunTyped, BoardTyped
     DEF TypeOK, MemoryTypeOK, RowsTypeOK, OutsideTypeOK, Board
<1>2. Rows /\ Memory /\ BoundsTypeOK
  BY DEF TypeOK, RowsTypeOK, MemoryTypeOK, OutsideTypeOK
<1>r. project.remote \in BOOLEAN
  BY <1>2, ProjectAssumption
<1>3. Rows'
  <2>1. CASE Begin \/ Select \/ Claim \/ RecordClaim \/ Turn \/ ReadStatus
    BY <1>2, <1>r, <2>1 DEF Begin, Select, Claim, RecordClaim, Turn, ReadStatus, MayComplete
  <2>2. CASE Recover \/ BeginQA \/ RunQA \/ QAResult \/ Verdict \/ Review
    BY <1>2, <2>2 DEF Recover, BeginQA, RunQA, QAResult, Verdict, Review, FailQA, MayFail
  <2>3. CASE Complete \/ Submit \/ RecordSubmit \/ Submitted \/ End
    BY <1>2, <2>3 DEF Complete, Submit, RecordSubmit, Submitted, End, Raised, FailQA,
                      MayFail, MayComplete
  <2>4. CASE TurnEnds \/ QAEnds \/ PrepareFails \/ QAFails \/ SubmitFails
    BY <1>2, <2>4 DEF TurnEnds, QAEnds, PrepareFails, QAFails, SubmitFails, Fail, FailQA,
                      MayFail, HostWait, SessionMode, FinalizeCancellation
  <2>5. CASE RequestStep \/ Pause \/ Resume \/ Cancel \/ Respond \/ Expire
    BY <1>2, <1>r, <2>5 DEF Look, Joined, Answered, Pause, Resume, Cancel, Respond, Expire,
                      ResumeTurn, FinalizeCancellation, ConfirmCancellation, MayFail
  <2>6. CASE Retry \/ Dispatch \/ Adopt \/ RunnerReports
    BY <1>2, <1>r, <2>6 DEF Retry, Dispatch, Adopt, RunnerReports, ResumeTurn, SessionMode,
                      FinalizeCancellation
  <2>7. CASE Shutdown \/ Crash \/ Restart
    BY <1>2, <2>7 DEF Shutdown, Crash, Restart, Forget, HostWait, SessionMode,
                      FinalizeCancellation
  <2>8. CASE UNCHANGED vars
    BY <1>2, <2>8 DEF vars
  <2>9. QED
    BY <2>1, <2>2, <2>3, <2>4, <2>5, <2>6, <2>7, <2>8 DEF Next
<1>4. Memory'
  <2>1. CASE Begin \/ Select \/ Claim \/ RecordClaim \/ Turn \/ ReadStatus
    BY <1>2, <1>r, <2>1 DEF Begin, Select, Claim, RecordClaim, Turn, ReadStatus, MayComplete
  <2>2. CASE Recover \/ BeginQA \/ RunQA \/ QAResult \/ Verdict \/ Review
    BY <1>2, <2>2 DEF Recover, BeginQA, RunQA, QAResult, Verdict, Review, FailQA, MayFail
  <2>3. CASE Complete \/ Submit \/ RecordSubmit \/ Submitted \/ End
    BY <1>2, <2>3 DEF Complete, Submit, RecordSubmit, Submitted, End, Raised, FailQA,
                      MayFail, MayComplete
  <2>4. CASE TurnEnds \/ QAEnds \/ PrepareFails \/ QAFails \/ SubmitFails
    BY <1>2, <2>4 DEF TurnEnds, QAEnds, PrepareFails, QAFails, SubmitFails, Fail, FailQA,
                      MayFail, HostWait, SessionMode, FinalizeCancellation
  <2>5. CASE RequestStep \/ Pause \/ Resume \/ Cancel \/ Respond \/ Expire
    BY <1>2, <1>r, <2>5 DEF Look, Joined, Answered, Pause, Resume, Cancel, Respond, Expire,
                      ResumeTurn, FinalizeCancellation, ConfirmCancellation, MayFail
  <2>6. CASE Retry \/ Dispatch \/ Adopt \/ RunnerReports
    BY <1>2, <1>r, <2>6 DEF Retry, Dispatch, Adopt, RunnerReports, ResumeTurn, SessionMode,
                      FinalizeCancellation
  <2>7. CASE Shutdown \/ Crash \/ Restart
    BY <1>2, <2>7 DEF Shutdown, Crash, Restart, Forget, HostWait, SessionMode,
                      FinalizeCancellation
  <2>8. CASE UNCHANGED vars
    BY <1>2, <2>8 DEF vars
  <2>9. QED
    BY <2>1, <2>2, <2>3, <2>4, <2>5, <2>6, <2>7, <2>8 DEF Next
<1>5. {turns + 1, stops + 1, losses + 1} \subseteq Nat
  BY <1>2 DEF BoundsTypeOK
<1>6. BoundsTypeOK'
  <2>1. CASE Begin \/ Select \/ Claim \/ RecordClaim \/ Turn \/ ReadStatus
    BY <1>2, <1>5, <2>1
       DEF Begin, Select, Claim, RecordClaim, Turn, ReadStatus, MayComplete, BoundsTypeOK
  <2>2. CASE Recover \/ BeginQA \/ RunQA \/ QAResult \/ Verdict \/ Review
    BY <1>2, <1>5, <2>2
       DEF Recover, BeginQA, RunQA, QAResult, Verdict, Review, FailQA, MayFail, BoundsTypeOK
  <2>3. CASE Complete \/ Submit \/ RecordSubmit \/ Submitted \/ End
    BY <1>2, <1>5, <2>3 DEF Complete, Submit, RecordSubmit, Submitted, End, Raised, FailQA,
                      MayFail, MayComplete, BoundsTypeOK
  <2>4. CASE TurnEnds \/ QAEnds \/ PrepareFails \/ QAFails \/ SubmitFails
    BY <1>2, <1>5, <2>4
       DEF TurnEnds, QAEnds, PrepareFails, QAFails, SubmitFails, Fail, FailQA,
                      MayFail, HostWait, SessionMode, FinalizeCancellation, BoundsTypeOK
  <2>5. CASE RequestStep \/ Pause \/ Resume \/ Cancel \/ Respond \/ Expire
    BY <1>2, <1>5, <2>5 DEF Look, Joined, Answered, Pause, Resume, Cancel, Respond, Expire,
                      ResumeTurn, FinalizeCancellation, ConfirmCancellation, MayFail, BoundsTypeOK
  <2>6. CASE Retry \/ Dispatch \/ Adopt \/ RunnerReports
    BY <1>2, <1>5, <2>6
       DEF Retry, Dispatch, Adopt, RunnerReports, ResumeTurn, SessionMode,
                      FinalizeCancellation, BoundsTypeOK
  <2>7. CASE Shutdown \/ Crash \/ Restart
    BY <1>2, <1>5, <2>7 DEF Shutdown, Crash, Restart, Forget, HostWait, SessionMode,
                      FinalizeCancellation, BoundsTypeOK
  <2>8. CASE UNCHANGED vars
    BY <1>2, <1>5, <2>8 DEF vars, BoundsTypeOK
  <2>9. QED
    BY <2>1, <2>2, <2>3, <2>4, <2>5, <2>6, <2>7, <2>8 DEF Next
<1>7. QED
  BY <1>1, <1>3, <1>4, <1>6 DEF TypeOK, RowsTypeOK, MemoryTypeOK, OutsideTypeOK, Board

-----------------------------------------------------------------------------
(* The inductive invariant.                                                *)

Early == {"begin", "status", "select", "claim", "claimed", "prepare", "turn"}
Prepared == {"PREPARED", "SUBMIT_FAILED", "SUBMITTED"}
Rejected == run.verdict = "FAIL" \/ run.review = "UI_REJECTED"
Tested == run.verdict = "PASS" \/ run.review = "UI_APPROVED"
\* The Job waits for its submission to be made again.
Resubmits == state \in {"WAITING_HOST", "ASSIGNED"} /\ mode = "FINALIZE"

\* A claim is on the board once, and a task that has read the board knows of it.
ClaimInv ==
    /\ board.claims = IF board.current THEN 1 ELSE 0
    /\ task.at \in {"select", "claim"} => task.seen = board.current

\* Which states a Job can be in while its task, a cancellation or nobody has it.
DriveInv ==
    /\ up # "up" => task = NoTask /\ cancel = "idle" /\ answer = "none" /\ ~handle
    /\ cancel # "idle" => state \in {"CANCELLING", "CANCELLED"}
    /\ state = "CANCELLING" /\ up = "up" /\ cancel = "idle" =>
          task.at \in {"none", "assigned", "end"}
    /\ mode = "CANCEL" => state = "CANCELLING" /\ task.at \in {"none", "assigned", "end"}
    /\ up = "up" /\ task.at \in {"none", "assigned", "begin", "end"} => state \notin Active
    /\ task.at \in Early => state \notin {"RUNNING", "WAITING_AGENT"} /\ task.kind = "turn"
    /\ handle => task.kind = "turn" /\ task.at \in Closing \cup {"codex", "end"}
    /\ up = "up" /\ state = "STARTING" => task.at \in Early \cup {"submit", "next", "submitted"}
    /\ CancelWaitsForTask

\* Where the task is when the Job waits or is done.
WaitInv ==
    /\ state \in {"WAITING_HOST", "WAITING_HUMAN", "COMPLETED"} => task.at \in {"none", "end"}
    /\ state = "ASSIGNED" => task.at \in {"none", "assigned", "begin"}
    /\ state = "ASSIGNED" /\ task.at = "assigned" =>
          mode \in {"START", "RESUME", "QA", "FINALIZE"}

\* A Job that has had no turn is on its way to the first one.
TurnInv ==
    /\ task.at \in Early => turns = 0
    /\ state \in {"WAITING_HOST", "ASSIGNED"} /\ mode = "START" => turns = 0
    /\ turns = 0 =>
          /\ state \notin {"RUNNING", "WAITING_AGENT", "PAUSED", "WAITING_HUMAN"}
          /\ mode \notin {"RESUME", "QA", "FINALIZE"} /\ run = NoRun /\ answer = "none" /\ ~reported
          /\ task.at \in Early \cup {"none", "assigned", "end"}

\* What is known of the Project OS task and of its submission.
HandoffInv ==
    /\ turns > 0 \/ task.at = "turn" => (project.os => work \in Prepared)
    /\ work = "SUBMITTED" \/ task.at = "next" => board.submits > 0
    /\ task.at = "submitted" => work = "SUBMITTED"
    /\ CompletedMeansHandedOff

\* What is known of the QA run wherever the Job is on its way to a submission, and of
\* the review wherever there may be an answer.
ReviewInv ==
    /\ ~project.qa =>
          /\ run = NoRun /\ answer = "none" /\ gate # "PENDING"
          /\ task.at \notin {"run", "await", "collect", "verdict", "gate"}
    /\ task.at = "verdict" => run.verdict # "none"
    /\ task.at = "gate" \/ state = "WAITING_HUMAN" \/ answer # "none" => run.verdict = "GATE"
    /\ answer # "none" =>
          /\ state \in {"WAITING_HUMAN", "CANCELLING", "CANCELLED"}
          /\ task.at \in {"none", "end"} /\ gate # "PENDING"
    /\ run.review = "UI_REJECTED" => state \in Terminal \cup {"CANCELLING"} /\ task.at = "none"
    /\ task.at \in {"complete", "submit", "next"} \/ Resubmits => ~Rejected

\* Without a crash, what goes to submission was tested.
TestInv ==
    /\ up # "up" => stops > 0
    /\ project.qa /\ stops = 0 /\ (Resubmits \/
          task.at \in {"complete", "submit", "next", "submitted"}) => Tested
    /\ CompletedMeansTested

IInv == TypeOK /\ ClaimInv /\ DriveInv /\ WaitInv /\ TurnInv /\ HandoffInv /\ ReviewInv /\ TestInv

-----------------------------------------------------------------------------
(* Every step keeps every part of the invariant.                          *)

\* What the retry of the scheduler makes of the Job.
LEMMA DispatchMoves ==
    ASSUME Dispatch
    PROVE  /\ up = "up" /\ task.at = "assigned"
           /\ \/ state # "ASSIGNED" /\ task' = NoTask /\ task'.at = "none"
                 /\ UNCHANGED <<state, mode, turns>>
                 /\ (handle' <=> handle) /\ (reported' <=> reported)
              \/ state = "ASSIGNED" /\ mode = "RESUME" /\ state' = "RUNNING"
                 /\ task'.at = "codex" /\ task'.kind = "turn" /\ handle' = TRUE
                 /\ turns' = turns + 1 /\ mode' = mode
              \/ state = "ASSIGNED" /\ UNCHANGED <<mode, turns>>
                 /\ (handle' <=> handle) /\ (reported' <=> reported)
                 /\ \/ mode = "START" /\ state' = "ASSIGNED" /\ task'.at = "begin"
                       /\ task'.kind = "turn"
                    \/ mode = "QA" /\ state' = "RUNNING" /\ task'.at = "recover"
                    \/ mode \notin {"START", "RESUME", "QA"} /\ state' = "STARTING"
                       /\ task'.at = "submit"
           /\ UNCHANGED <<project, result, records, requests, up, qa, file, board, bounds>>
<1> USE DEF Dispatch
<1>2. CASE state # "ASSIGNED"
  BY <1>2 DEF NoTask
<1>3. CASE state = "ASSIGNED" /\ mode = "RESUME"
  <2>1. task' = [NoTask EXCEPT !.at = "codex", !.kind = "turn"]
    BY <1>3 DEF ResumeTurn
  <2>2. task'.at = "codex" /\ task'.kind = "turn"
    BY <2>1 DEF NoTask
  <2>3. QED
    BY <1>3, <2>2 DEF ResumeTurn
<1>4. CASE state = "ASSIGNED" /\ mode # "RESUME"
  <2>1. task' = CASE mode = "START" -> [NoTask EXCEPT !.at = "begin", !.kind = "turn"]
                  [] mode = "QA" -> [NoTask EXCEPT !.at = "recover", !.kind = "recover"]
                  [] OTHER -> [NoTask EXCEPT !.at = "submit", !.kind = "finalize"]
    BY <1>4
  <2>2. task'.at = CASE mode = "START" -> "begin" [] mode = "QA" -> "recover"
                     [] OTHER -> "submit"
    BY <2>1 DEF NoTask
  <2>3. mode = "START" => task'.kind = "turn"
    BY <2>1 DEF NoTask
  <2>4. QED
    BY <1>4, <2>2, <2>3
<1>5. QED
  BY <1>2, <1>3, <1>4

\* A claim is made only when the board, as read or as it is, has none.
LEMMA ClaimStep ==
    ASSUME task \in TaskType, board \in Board, ClaimInv,
           [Next]_vars
    PROVE  ClaimInv'
<1>1. CASE Dispatch
  BY <1>1, DispatchMoves DEF ClaimInv, Board
<1> USE DEF ClaimInv, TaskType, NoTask, Board
<1>2. CASE Begin
  BY <1>2 DEF Begin
<1>3. CASE Select
  BY <1>3 DEF Select, MayComplete
<1>4. CASE Claim
  BY <1>4 DEF Claim
<1>5. CASE RecordClaim
  BY <1>5 DEF RecordClaim
<1>6. CASE Turn
  BY <1>6 DEF Turn
<1>7. CASE ReadStatus
  BY <1>7 DEF ReadStatus
<1>8. CASE Recover \/ BeginQA \/ RunQA \/ QAResult \/ Verdict \/ Review
  BY <1>8 DEF Recover, BeginQA, RunQA, QAResult, Verdict, Review, FailQA, MayFail
<1>9. CASE Complete \/ Submit \/ RecordSubmit \/ Submitted \/ End
  BY <1>9 DEF Complete, Submit, RecordSubmit, Submitted, End, Raised, FailQA, MayFail,
              MayComplete
<1>10. CASE TurnEnds \/ QAEnds \/ PrepareFails
  BY <1>10 DEF TurnEnds, QAEnds, PrepareFails, Fail, HostWait, SessionMode,
               FinalizeCancellation
<1>11. CASE QAFails \/ SubmitFails
  BY <1>11 DEF QAFails, SubmitFails, FailQA, MayFail, HostWait
<1>12. CASE Look \/ Joined \/ Answered \/ Pause \/ Resume \/ Cancel \/ Respond \/ Expire
  BY <1>12 DEF Look, Joined, Answered, Pause, Resume, Cancel, Respond, Expire,
               FinalizeCancellation, ConfirmCancellation, QAActive, MayFail, ResumeTurn
<1>13. CASE Retry \/ Adopt \/ RunnerReports
  BY <1>13 DEF Retry, Adopt, RunnerReports, SessionMode, FinalizeCancellation
<1>14. CASE Shutdown \/ Crash \/ Restart
  BY <1>14 DEF Shutdown, Crash, Restart, Forget, HostWait, SessionMode,
               FinalizeCancellation, Refused
<1>15. CASE UNCHANGED vars
  BY <1>15 DEF vars
<1>16. QED
  BY <1>1, <1>2, <1>3, <1>4, <1>5, <1>6, <1>7, <1>8, <1>9, <1>10, <1>11, <1>12, <1>13,
     <1>14, <1>15 DEF Next

\* Every step leaves the Job in a state that its task, its cancellation or nobody may have.
LEMMA DriveStep ==
    ASSUME task \in TaskType, DriveInv,
           [Next]_vars
    PROVE  DriveInv'
<1>1. CASE Dispatch
  <2>1. CASE state # "ASSIGNED"
    BY <1>1, <2>1, DispatchMoves DEF DriveInv, CancelWaitsForTask, Early, Closing
  <2>2. CASE state = "ASSIGNED" /\ mode = "RESUME"
    BY <1>1, <2>2, DispatchMoves DEF DriveInv, CancelWaitsForTask, Early, Closing
  <2>3. CASE state = "ASSIGNED" /\ mode # "RESUME"
    BY <1>1, <2>3, DispatchMoves DEF DriveInv, CancelWaitsForTask, Early, Closing
  <2>4. QED
    BY <2>1, <2>2, <2>3
<1> USE DEF DriveInv, CancelWaitsForTask, TaskType, NoTask, Early, Closing
<1>2. CASE Begin \/ Select \/ Claim \/ RecordClaim \/ Turn \/ ReadStatus
  BY <1>2 DEF Begin, Select, Claim, RecordClaim, Turn, ReadStatus, MayComplete
<1>3. CASE Recover
  BY <1>3 DEF Recover
<1>4. CASE BeginQA
  BY <1>4 DEF BeginQA
<1>5. CASE RunQA
  BY <1>5 DEF RunQA
<1>6. CASE QAResult
  BY <1>6 DEF QAResult, FailQA, MayFail
<1>7. CASE Verdict
  BY <1>7 DEF Verdict, MayFail
<1>8. CASE Review
  BY <1>8 DEF Review, FailQA, MayFail
<1>9. CASE Complete \/ Submit \/ RecordSubmit \/ Submitted \/ End
  BY <1>9 DEF Complete, Submit, RecordSubmit, Submitted, End, Raised, FailQA, MayFail,
              MayComplete
<1>10. CASE TurnEnds \/ QAEnds \/ PrepareFails
  BY <1>10 DEF TurnEnds, QAEnds, PrepareFails, Fail, HostWait, SessionMode,
               FinalizeCancellation
<1>11. CASE QAFails \/ SubmitFails
  <2>1. CASE QAFails /\ task'.at = "end"
    BY <2>1 DEF QAFails, FailQA, MayFail, HostWait
  <2>2. CASE QAFails /\ task'.at # "end"
    BY <2>2 DEF QAFails
  <2>3. CASE SubmitFails
    BY <2>3 DEF SubmitFails, MayFail, HostWait
  <2>4. QED
    BY <1>11, <2>1, <2>2, <2>3
<1>12. CASE Look
  <2>1. CASE handle
    <3>1. /\ up = "up" /\ UNCHANGED <<up, handle, answer, run, turns>> /\ cancel' = "idle"
          /\ task' = [task EXCEPT !.at = IF task.at = "codex" THEN "end" ELSE task.at]
          /\ FinalizeCancellation /\ cancel = "look"
      BY <1>12, <2>1 DEF Look
    <3>2. task'.kind = task.kind /\ (task'.at = "end" \/ (task'.at = task.at /\ task.at # "codex"))
      <4>1. CASE task.at = "codex"
        BY <3>1, <4>1
      <4>2. CASE task.at # "codex"
        BY <3>1, <4>2
      <4>3. QED
        BY <4>1, <4>2
    <3>3. state' = "CANCELLED" /\ mode' # "CANCEL"
      <4>1. state \in {"CANCELLING", "CANCELLED"} /\ (state = "CANCELLED" => mode # "CANCEL")
        BY <3>1
      <4>2. CASE state = "CANCELLING"
        BY <3>1, <4>2 DEF FinalizeCancellation
      <4>3. CASE state = "CANCELLED"
        BY <3>1, <4>1, <4>3 DEF FinalizeCancellation
      <4>4. QED
        BY <4>1, <4>2, <4>3
    <3>4. task.kind = "turn" /\ task.at \in Closing \cup {"codex", "end"}
      BY <2>1
    <3>5. task'.kind = "turn" /\ task'.at \in Closing \cup {"end"}
      BY <3>2, <3>4
    <3>6. QED
      BY <3>1, <3>3, <3>5
  <2>2. CASE ~handle /\ ~Busy
    BY <1>12, <2>2 DEF Look, ConfirmCancellation, FinalizeCancellation
  <2>3. CASE ~handle /\ Busy /\ QAActive
    BY <1>12, <2>3 DEF Look, ConfirmCancellation, FinalizeCancellation, QAActive
  <2>4. CASE ~handle /\ Busy /\ ~QAActive
    BY <1>12, <2>4 DEF Look
  <2>5. QED
    BY <2>1, <2>2, <2>3, <2>4
<1>13. CASE Joined
  BY <1>13 DEF Joined, ConfirmCancellation, FinalizeCancellation
<1>14. CASE Answered
  BY <1>14 DEF Answered, MayFail
<1>15. CASE Pause
  BY <1>15 DEF Pause
<1>16. CASE Resume
  BY <1>16 DEF Resume, ResumeTurn
<1>17. CASE Cancel
  BY <1>17 DEF Cancel
<1>18. CASE Respond
  BY <1>18 DEF Respond
<1>19. CASE Expire
  BY <1>19 DEF Expire
<1>20. CASE Retry \/ Adopt \/ RunnerReports
  <2>1. CASE Retry
    BY <2>1 DEF Retry
  <2>2. CASE Adopt
    BY <2>2 DEF Adopt
  <2>3. CASE RunnerReports
    BY <2>3 DEF RunnerReports, SessionMode, FinalizeCancellation
  <2>4. QED
    BY <1>20, <2>1, <2>2, <2>3
<1>21. CASE Shutdown \/ Crash \/ Restart
  BY <1>21 DEF Shutdown, Crash, Restart, Forget, HostWait, SessionMode,
               FinalizeCancellation, Refused
<1>22. CASE UNCHANGED vars
  BY <1>22 DEF vars
<1>23. QED
  BY <1>1, <1>2, <1>3, <1>4, <1>5, <1>6, <1>7, <1>8, <1>9, <1>10, <1>11, <1>12, <1>13,
     <1>14, <1>15, <1>16, <1>17, <1>18, <1>19, <1>20, <1>21, <1>22 DEF Next

\* A Job that waits or is done has no task at work.
LEMMA WaitStep ==
    ASSUME task \in TaskType, DriveInv, WaitInv,
           [Next]_vars
    PROVE  WaitInv'
<1>1. CASE Dispatch
  BY <1>1, DispatchMoves DEF DriveInv, WaitInv, Early
<1> USE DEF DriveInv, WaitInv, TaskType, NoTask, Early
<1>2. CASE Begin \/ Select \/ Claim \/ RecordClaim \/ Turn \/ ReadStatus
  BY <1>2 DEF Begin, Select, Claim, RecordClaim, Turn, ReadStatus, MayComplete
<1>3. CASE Recover \/ BeginQA \/ RunQA \/ QAResult \/ Verdict \/ Review
  BY <1>3 DEF Recover, BeginQA, RunQA, QAResult, Verdict, Review, FailQA, MayFail
<1>4. CASE Complete \/ Submit \/ RecordSubmit \/ Submitted \/ End
  BY <1>4 DEF Complete, Submit, RecordSubmit, Submitted, End, Raised, FailQA, MayFail,
              MayComplete
<1>5. CASE TurnEnds \/ QAEnds \/ PrepareFails
  BY <1>5 DEF TurnEnds, QAEnds, PrepareFails, Fail, HostWait, SessionMode,
               FinalizeCancellation
<1>6. CASE QAFails \/ SubmitFails
  BY <1>6 DEF QAFails, SubmitFails, FailQA, MayFail, HostWait
<1>7. CASE Look \/ Joined \/ Answered \/ Pause \/ Resume \/ Cancel \/ Respond \/ Expire
  BY <1>7 DEF Look, Joined, Answered, Pause, Resume, Cancel, Respond, Expire,
              FinalizeCancellation, ConfirmCancellation, QAActive, MayFail, ResumeTurn
<1>8. CASE Retry \/ Adopt \/ RunnerReports
  BY <1>8 DEF Retry, Adopt, RunnerReports, SessionMode, FinalizeCancellation
<1>9. CASE Shutdown \/ Crash \/ Restart
  BY <1>9 DEF Shutdown, Crash, Restart, Forget, HostWait, SessionMode,
              FinalizeCancellation, Refused
<1>10. CASE UNCHANGED vars
  BY <1>10 DEF vars
<1>11. QED
  BY <1>1, <1>2, <1>3, <1>4, <1>5, <1>6, <1>7, <1>8, <1>9, <1>10 DEF Next

\* Until the first turn the Job is on its way to it.
LEMMA TurnStep ==
    ASSUME task \in TaskType, turns \in Nat, DriveInv, WaitInv, TurnInv,
           [Next]_vars
    PROVE  TurnInv'
<1>1. CASE Dispatch
  <2>1. turns + 1 # 0
    OBVIOUS
  <2>2. CASE mode = "RESUME"
    BY <1>1, <2>1, <2>2, DispatchMoves
       DEF DriveInv, WaitInv, TurnInv, NoRun,
           Early
  <2>3. CASE mode # "RESUME" /\ state = "ASSIGNED"
    BY <1>1, <2>1, <2>3, DispatchMoves
       DEF DriveInv, WaitInv, TurnInv, NoRun,
           Early
  <2>4. CASE mode # "RESUME" /\ state # "ASSIGNED"
    BY <1>1, <2>1, <2>4, DispatchMoves
       DEF DriveInv, WaitInv, TurnInv, NoRun,
           Early
  <2>5. QED
    BY <2>2, <2>3, <2>4
<1> USE DEF DriveInv, WaitInv, TurnInv, TaskType, NoTask, NoRun, Early
<1>2. CASE Begin
  BY <1>2 DEF Begin
<1>3. CASE Select
  BY <1>3 DEF Select, MayComplete
<1>4. CASE Claim
  BY <1>4 DEF Claim
<1>5. CASE RecordClaim
  BY <1>5 DEF RecordClaim
<1>6. CASE Turn
  BY <1>6 DEF Turn
<1>7. CASE ReadStatus
  BY <1>7 DEF ReadStatus
<1>8. CASE Recover \/ BeginQA \/ RunQA \/ QAResult \/ Verdict \/ Review
  BY <1>8 DEF Recover, BeginQA, RunQA, QAResult, Verdict, Review, FailQA, MayFail
<1>9. CASE Complete \/ Submit \/ RecordSubmit \/ Submitted \/ End
  BY <1>9 DEF Complete, Submit, RecordSubmit, Submitted, End, Raised, FailQA, MayFail,
              MayComplete
<1>10. CASE TurnEnds \/ QAEnds \/ PrepareFails
  BY <1>10 DEF TurnEnds, QAEnds, PrepareFails, Fail, HostWait, SessionMode,
               FinalizeCancellation
<1>11. CASE QAFails \/ SubmitFails
  BY <1>11 DEF QAFails, SubmitFails, FailQA, MayFail, HostWait
<1>12. CASE Look
  <2>1. CASE handle
    BY <1>12, <2>1 DEF Look, FinalizeCancellation
  <2>2. CASE ~handle /\ ~Busy
    BY <1>12, <2>2 DEF Look, ConfirmCancellation, FinalizeCancellation
  <2>3. CASE ~handle /\ Busy /\ QAActive
    BY <1>12, <2>3 DEF Look, ConfirmCancellation, FinalizeCancellation, QAActive
  <2>4. CASE ~handle /\ Busy /\ ~QAActive
    BY <1>12, <2>4 DEF Look
  <2>5. QED
    BY <2>1, <2>2, <2>3, <2>4
<1>13. CASE Joined
  BY <1>13 DEF Joined, ConfirmCancellation, FinalizeCancellation
<1>14. CASE Answered
  BY <1>14 DEF Answered, MayFail
<1>15. CASE Pause
  BY <1>15 DEF Pause
<1>16. CASE Resume
  BY <1>16 DEF Resume, ResumeTurn
<1>17. CASE Cancel
  BY <1>17 DEF Cancel
<1>18. CASE Respond
  BY <1>18 DEF Respond
<1>19. CASE Expire
  BY <1>19 DEF Expire
<1>20. CASE Retry \/ Adopt \/ RunnerReports
  <2>1. CASE Retry
    BY <2>1 DEF Retry
  <2>2. CASE Adopt
    BY <2>2 DEF Adopt
  <2>3. CASE RunnerReports
    BY <2>3 DEF RunnerReports, SessionMode, FinalizeCancellation
  <2>4. QED
    BY <1>20, <2>1, <2>2, <2>3
<1>21. CASE Shutdown \/ Crash \/ Restart
  BY <1>21 DEF Shutdown, Crash, Restart, Forget, HostWait, SessionMode,
               FinalizeCancellation, Refused
<1>22. CASE UNCHANGED vars
  BY <1>22 DEF vars
<1>23. QED
  BY <1>1, <1>2, <1>3, <1>4, <1>5, <1>6, <1>7, <1>8, <1>9, <1>10, <1>11, <1>12, <1>13,
     <1>14, <1>15, <1>16, <1>17, <1>18, <1>19, <1>20, <1>21, <1>22 DEF Next

\* A turn needs the prepared task, and a completion the recorded submission.
LEMMA HandoffStep ==
    ASSUME task \in TaskType, board \in Board, turns \in Nat, DriveInv, WaitInv,
           TurnInv, HandoffInv,
           [Next]_vars
    PROVE  HandoffInv'
<1>1. CASE Dispatch
  <2>1. CASE mode = "RESUME"
    <3>1. state = "ASSIGNED" => turns > 0
      <4>1. turns > 0 <=> turns # 0
        OBVIOUS
      <4>2. QED
        BY <2>1, <4>1 DEF TurnInv
    <3>2. state = "ASSIGNED" => (project.os => work \in Prepared)
      BY <3>1 DEF HandoffInv
    <3>3. turns + 1 > 0
      OBVIOUS
    <3>4. QED
      BY <1>1, <2>1, <3>1, <3>2, <3>3, DispatchMoves
         DEF DriveInv, WaitInv,
             TurnInv, HandoffInv, CompletedMeansHandedOff, Early, Prepared, Board
  <2>2. CASE mode # "RESUME"
    BY <1>1, <2>2, DispatchMoves
       DEF DriveInv, WaitInv, TurnInv, HandoffInv,
           CompletedMeansHandedOff, Early, Prepared, Board
  <2>3. QED
    BY <2>1, <2>2
<1> USE DEF DriveInv, WaitInv, TurnInv, HandoffInv, CompletedMeansHandedOff, TaskType,
            NoTask, Early, Prepared, Board
<1>2. CASE Begin \/ Select \/ Claim \/ RecordClaim \/ Turn \/ ReadStatus
  BY <1>2 DEF Begin, Select, Claim, RecordClaim, Turn, ReadStatus, MayComplete
<1>3. CASE Recover
  BY <1>3 DEF Recover
<1>4. CASE BeginQA
  BY <1>4 DEF BeginQA
<1>5. CASE RunQA
  BY <1>5 DEF RunQA
<1>6. CASE QAResult
  BY <1>6 DEF QAResult, FailQA, MayFail
<1>7. CASE Verdict
  BY <1>7 DEF Verdict, MayFail
<1>8. CASE Review
  BY <1>8 DEF Review, FailQA, MayFail
<1>9. CASE Complete \/ Submit \/ RecordSubmit \/ Submitted \/ End
  BY <1>9 DEF Complete, Submit, RecordSubmit, Submitted, End, Raised, FailQA, MayFail,
              MayComplete
<1>10. CASE TurnEnds \/ QAEnds \/ PrepareFails
  BY <1>10 DEF TurnEnds, QAEnds, PrepareFails, Fail, HostWait, SessionMode,
               FinalizeCancellation
<1>11. CASE QAFails \/ SubmitFails
  BY <1>11 DEF QAFails, SubmitFails, FailQA, MayFail, HostWait
<1>12. CASE Look
  <2>1. CASE handle
    BY <1>12, <2>1 DEF Look, FinalizeCancellation
  <2>2. CASE ~handle /\ ~Busy
    BY <1>12, <2>2 DEF Look, ConfirmCancellation, FinalizeCancellation
  <2>3. CASE ~handle /\ Busy /\ QAActive
    BY <1>12, <2>3 DEF Look, ConfirmCancellation, FinalizeCancellation, QAActive
  <2>4. CASE ~handle /\ Busy /\ ~QAActive
    BY <1>12, <2>4 DEF Look
  <2>5. QED
    BY <2>1, <2>2, <2>3, <2>4
<1>13. CASE Joined
  BY <1>13 DEF Joined, ConfirmCancellation, FinalizeCancellation
<1>14. CASE Answered
  BY <1>14 DEF Answered, MayFail
<1>15. CASE Pause
  BY <1>15 DEF Pause
<1>16. CASE Resume
  BY <1>16 DEF Resume, ResumeTurn
<1>17. CASE Cancel
  BY <1>17 DEF Cancel
<1>18. CASE Respond
  BY <1>18 DEF Respond
<1>19. CASE Expire
  BY <1>19 DEF Expire
<1>20. CASE Retry \/ Adopt \/ RunnerReports
  <2>1. CASE Retry
    BY <2>1 DEF Retry
  <2>2. CASE Adopt
    BY <2>2 DEF Adopt
  <2>3. CASE RunnerReports
    BY <2>3 DEF RunnerReports, SessionMode, FinalizeCancellation
  <2>4. QED
    BY <1>20, <2>1, <2>2, <2>3
<1>21. CASE Shutdown \/ Crash \/ Restart
  BY <1>21 DEF Shutdown, Crash, Restart, Forget, HostWait, SessionMode,
               FinalizeCancellation, Refused
<1>22. CASE UNCHANGED vars
  BY <1>22 DEF vars
<1>23. QED
  BY <1>1, <1>2, <1>3, <1>4, <1>5, <1>6, <1>7, <1>8, <1>9, <1>10, <1>11, <1>12, <1>13,
     <1>14, <1>15, <1>16, <1>17, <1>18, <1>19, <1>20, <1>21, <1>22 DEF Next

\* No way to the submission is open to a Job that was refused.
LEMMA ReviewStep ==
    ASSUME task \in TaskType, run \in RunType, DriveInv, WaitInv, TurnInv, ReviewInv,
           answer \in {"none", "APPROVE", "REJECT"},
           [Next]_vars
    PROVE  ReviewInv'
<1>1. CASE Dispatch
  BY <1>1, DispatchMoves DEF DriveInv, WaitInv, TurnInv, ReviewInv, Rejected,
                             Resubmits, NoRun, RunType, Early
<1>2. CASE Answered
  <2>1. /\ task.at = "none" /\ run.verdict = "GATE" /\ project.qa /\ gate # "PENDING"
        /\ answer # "none" /\ answer' = "none" /\ UNCHANGED <<up, project, gate>>
        /\ state \in {"WAITING_HUMAN", "CANCELLING", "CANCELLED"}
    BY <1>2 DEF Answered, TaskType, DriveInv, WaitInv, ReviewInv
  <2>2. CASE answer = "REJECT"
    <3>1. /\ run'.verdict = "GATE" /\ run'.review = "UI_REJECTED" /\ task' = task
          /\ state' \in Terminal \cup {"CANCELLING"}
      BY <1>2, <2>1, <2>2 DEF Answered, RunType, MayFail
    <3>2. QED
      BY <2>1, <2>2, <3>1 DEF ReviewInv, Resubmits, Rejected
  <2>3. CASE answer = "APPROVE"
    <3>1. run'.verdict = "GATE" /\ run'.review = "UI_APPROVED"
      BY <1>2, <2>1, <2>3 DEF Answered, RunType
    <3>2. \/ task' = task /\ state' = state /\ state # "WAITING_HUMAN"
          \/ state' = "RUNNING" /\ task'.at = "complete"
      BY <1>2, <2>1, <2>3 DEF Answered, NoTask
    <3>3. QED
      BY <2>1, <2>3, <3>1, <3>2 DEF ReviewInv, Resubmits, Rejected
  <2>4. QED
    BY <2>1, <2>2, <2>3
<1> USE DEF DriveInv, WaitInv, TurnInv, ReviewInv, Rejected, Resubmits, TaskType,
            NoTask, NoRun, RunType, Early
<1>3. CASE Begin
  BY <1>3 DEF Begin
<1>4. CASE Select
  BY <1>4 DEF Select, MayComplete
<1>5. CASE Claim
  BY <1>5 DEF Claim
<1>6. CASE RecordClaim
  BY <1>6 DEF RecordClaim
<1>7. CASE Turn
  BY <1>7 DEF Turn
<1>8. CASE ReadStatus
  BY <1>8 DEF ReadStatus
<1>9. CASE Recover
  BY <1>9 DEF Recover
<1>10. CASE BeginQA
  BY <1>10 DEF BeginQA
<1>11. CASE RunQA
  BY <1>11 DEF RunQA
<1>12. CASE QAResult
  <2>1. (~project.qa => run = NoRun /\ answer = "none" /\ gate # "PENDING"
               /\ task.at \notin {"run", "await", "collect", "verdict", "gate"})'
    BY <1>12 DEF QAResult, FailQA, MayFail
  <2>2. (task.at = "verdict" => run.verdict # "none")'
    BY <1>12 DEF QAResult, FailQA, MayFail
  <2>3. (task.at = "gate" \/ state = "WAITING_HUMAN" \/ answer # "none"
               => run.verdict = "GATE")'
    BY <1>12 DEF QAResult, FailQA, MayFail
  <2>4. (answer # "none" => state \in {"WAITING_HUMAN", "CANCELLING", "CANCELLED"}
               /\ task.at \in {"none", "end"} /\ gate # "PENDING")'
    BY <1>12 DEF QAResult, FailQA, MayFail
  <2>5. (run.review = "UI_REJECTED" => state \in Terminal \cup {"CANCELLING"} /\ task.at = "none")'
    BY <1>12 DEF QAResult, FailQA, MayFail
  <2>6. (task.at \in {"complete", "submit", "next"} \/ Resubmits => ~Rejected)'
    BY <1>12 DEF QAResult, FailQA, MayFail
  <2>7. QED
    BY <2>1, <2>2, <2>3, <2>4, <2>5, <2>6
<1>13. CASE Verdict
  BY <1>13 DEF Verdict, MayFail
<1>14. CASE Review
  BY <1>14 DEF Review, FailQA, MayFail
<1>15. CASE Complete \/ Submit \/ RecordSubmit \/ Submitted \/ End
  BY <1>15 DEF Complete, Submit, RecordSubmit, Submitted, End, Raised, FailQA, MayFail,
               MayComplete
<1>16. CASE TurnEnds \/ QAEnds \/ PrepareFails
  BY <1>16 DEF TurnEnds, QAEnds, PrepareFails, Fail, HostWait, SessionMode,
               FinalizeCancellation
<1>17. CASE QAFails
  <2>1. CASE run' = run
    BY <1>17, <2>1 DEF QAFails, FailQA, MayFail, HostWait
  <2>2. CASE run' # run
    BY <1>17, <2>2 DEF QAFails, FailQA, MayFail, HostWait
  <2>3. QED
    BY <2>1, <2>2
<1>18. CASE SubmitFails
  BY <1>18 DEF SubmitFails, MayFail, HostWait
<1>19. CASE Look
  BY <1>19 DEF Look, ConfirmCancellation, FinalizeCancellation, QAActive
<1>20. CASE Joined
  BY <1>20 DEF Joined, ConfirmCancellation, FinalizeCancellation
<1>21. CASE Pause
  BY <1>21 DEF Pause
<1>22. CASE Resume
  BY <1>22 DEF Resume, ResumeTurn
<1>23. CASE Cancel
  BY <1>23 DEF Cancel
<1>24. CASE Respond
  BY <1>24 DEF Respond
<1>25. CASE Expire
  BY <1>25 DEF Expire
<1>26. CASE Retry \/ Adopt \/ RunnerReports
  <2>1. CASE Retry
    BY <2>1 DEF Retry
  <2>2. CASE Adopt
    BY <2>2 DEF Adopt
  <2>3. CASE RunnerReports
    BY <2>3 DEF RunnerReports, SessionMode, FinalizeCancellation
  <2>4. QED
    BY <1>26, <2>1, <2>2, <2>3
<1>27. CASE Shutdown
  BY <1>27 DEF Shutdown, Forget, HostWait, SessionMode, FinalizeCancellation
<1>28. CASE Crash
  BY <1>28 DEF Crash, Forget
<1>29. CASE Restart
  BY <1>29 DEF Restart, Refused, HostWait, SessionMode, FinalizeCancellation
<1>30. CASE UNCHANGED vars
  BY <1>30 DEF vars
<1>31. QED
  BY <1>1, <1>2, <1>3, <1>4, <1>5, <1>6, <1>7, <1>8, <1>9, <1>10, <1>11, <1>12, <1>13,
     <1>14, <1>15, <1>16, <1>17, <1>18, <1>19, <1>20, <1>21, <1>22, <1>23, <1>24,
     <1>25, <1>26, <1>27, <1>28, <1>29, <1>30 DEF Next

\* No way to the submission is open, without a crash, to a Job that was not tested.
LEMMA TestStep ==
    ASSUME task \in TaskType, run \in RunType, stops \in Nat, DriveInv, WaitInv,
           TurnInv, HandoffInv, ReviewInv, TestInv,
           answer \in {"none", "APPROVE", "REJECT"},
           [Next]_vars
    PROVE  TestInv'
<1>1. CASE Dispatch
  BY <1>1, DispatchMoves DEF DriveInv, WaitInv, TurnInv, HandoffInv, ReviewInv,
                             TestInv, CompletedMeansTested, Tested, Resubmits, NoRun,
                             RunType, Early
<1>2. CASE Answered
  <2>1. /\ task.at = "none" /\ run.verdict = "GATE" /\ UNCHANGED <<up, project, turns, stops>>
        /\ answer # "none" /\ state \in {"WAITING_HUMAN", "CANCELLING", "CANCELLED"}
    BY <1>2 DEF Answered, TaskType, DriveInv, WaitInv, ReviewInv
  <2>2. CASE answer = "REJECT"
    <3>1. task' = task /\ state' \in {"FAILED", "CANCELLED", "CANCELLING"}
      BY <1>2, <2>1, <2>2 DEF Answered, MayFail
    <3>2. QED
      BY <2>1, <3>1 DEF TestInv, Resubmits, CompletedMeansTested
  <2>3. CASE answer = "APPROVE"
    <3>1. run'.verdict = "GATE" /\ run'.review = "UI_APPROVED"
      BY <1>2, <2>1, <2>3 DEF Answered, RunType
    <3>2. QED
      BY <2>1, <3>1 DEF TestInv, Tested, CompletedMeansTested
  <2>4. QED
    BY <2>1, <2>2, <2>3
<1> USE DEF DriveInv, WaitInv, TurnInv, HandoffInv, ReviewInv, TestInv,
            CompletedMeansTested, Tested, Resubmits, TaskType, NoTask, NoRun, RunType,
            Early
<1>3. CASE Begin
  BY <1>3 DEF Begin
<1>4. CASE Select
  BY <1>4 DEF Select, MayComplete
<1>5. CASE Claim
  BY <1>5 DEF Claim
<1>6. CASE RecordClaim
  BY <1>6 DEF RecordClaim
<1>7. CASE Turn
  BY <1>7 DEF Turn
<1>8. CASE ReadStatus
  BY <1>8 DEF ReadStatus
<1>9. CASE Recover
  BY <1>9 DEF Recover
<1>10. CASE BeginQA
  BY <1>10 DEF BeginQA
<1>11. CASE RunQA
  BY <1>11 DEF RunQA
<1>12. CASE QAResult
  BY <1>12 DEF QAResult, FailQA, MayFail
<1>13. CASE Verdict
  BY <1>13 DEF Verdict, MayFail
<1>14. CASE Review
  BY <1>14 DEF Review, FailQA, MayFail
<1>15. CASE Complete \/ Submit \/ RecordSubmit \/ Submitted \/ End
  BY <1>15 DEF Complete, Submit, RecordSubmit, Submitted, End, Raised, FailQA, MayFail,
               MayComplete
<1>16. CASE TurnEnds \/ QAEnds \/ PrepareFails
  BY <1>16 DEF TurnEnds, QAEnds, PrepareFails, Fail, HostWait, SessionMode,
               FinalizeCancellation
<1>17. CASE QAFails \/ SubmitFails
  BY <1>17 DEF QAFails, SubmitFails, FailQA, MayFail, HostWait
<1>18. CASE Look
  BY <1>18 DEF Look, ConfirmCancellation, FinalizeCancellation, QAActive
<1>19. CASE Joined
  BY <1>19 DEF Joined, ConfirmCancellation, FinalizeCancellation
<1>20. CASE Pause
  BY <1>20 DEF Pause
<1>21. CASE Resume
  BY <1>21 DEF Resume, ResumeTurn
<1>22. CASE Cancel
  BY <1>22 DEF Cancel
<1>23. CASE Respond
  BY <1>23 DEF Respond
<1>24. CASE Expire
  BY <1>24 DEF Expire
<1>25. CASE Retry \/ Adopt \/ RunnerReports
  BY <1>25 DEF Retry, Adopt, RunnerReports, SessionMode, FinalizeCancellation
<1>26. CASE Shutdown \/ Crash \/ Restart
  BY <1>26 DEF Shutdown, Crash, Restart, Forget, HostWait, SessionMode,
               FinalizeCancellation, Refused
<1>27. CASE UNCHANGED vars
  BY <1>27 DEF vars
<1>28. QED
  BY <1>1, <1>2, <1>3, <1>4, <1>5, <1>6, <1>7, <1>8, <1>9, <1>10, <1>11, <1>12, <1>13,
     <1>14, <1>15, <1>16, <1>17, <1>18, <1>19, <1>20, <1>21, <1>22, <1>23, <1>24,
     <1>25, <1>26, <1>27 DEF Next

-----------------------------------------------------------------------------
(* The theorems.                                                           *)

\* A Job that was just assigned satisfies every part of the invariant.
LEMMA InvInit == Init => IInv
<1> SUFFICES ASSUME Init PROVE IInv
  OBVIOUS
<1>1. /\ task.at = "begin" /\ run = NoRun /\ gate = "none" /\ answer = "none" /\ handle = FALSE
      /\ state = "ASSIGNED" /\ mode = "none" /\ work = "none" /\ cancel = "idle" /\ up = "up"
      /\ task.kind = "turn" /\ reported = FALSE /\ turns = 0 /\ ~(turns > 0)
      /\ ~board.current /\ board.claims = 0
  BY DEF Init, NoTask
<1>2. task \in TaskType /\ run \in RunType /\ board \in Board
  BY NewTaskTyped DEF Init, RunType, NoRun, Board
<1>3. TypeOK
  <2>1. {turns, stops, losses} \subseteq Nat
    BY DEF Init
  <2>2. QED
    BY <1>2, <2>1
       DEF Init, TypeOK, RowsTypeOK, MemoryTypeOK, OutsideTypeOK, BoundsTypeOK, Board
<1>4. ClaimInv /\ DriveInv /\ WaitInv
  BY <1>1 DEF ClaimInv, DriveInv, WaitInv, CancelWaitsForTask, Early, Closing
<1>5. TurnInv /\ HandoffInv
  BY <1>1 DEF TurnInv, HandoffInv, CompletedMeansHandedOff, Early
<1>6. ReviewInv /\ TestInv
  BY <1>1 DEF ReviewInv, TestInv, CompletedMeansTested, Rejected, Resubmits, NoRun
<1>7. QED
  BY <1>3, <1>4, <1>5, <1>6 DEF IInv

\* Every step keeps the invariant.
LEMMA InvStep == IInv /\ [Next]_vars => IInv'
<1> SUFFICES ASSUME IInv, [Next]_vars PROVE IInv'
  OBVIOUS
<1>1. TypeOK /\ ClaimInv /\ DriveInv /\ WaitInv /\ TurnInv /\ HandoffInv /\ ReviewInv /\ TestInv
  BY DEF IInv
<1>2. /\ task \in TaskType /\ run \in RunType /\ board \in Board /\ turns \in Nat /\ stops \in Nat
      /\ answer \in {"none", "APPROVE", "REJECT"}
  BY <1>1 DEF TypeOK, RowsTypeOK, MemoryTypeOK, OutsideTypeOK, BoundsTypeOK, Board
<1>3. TypeOK'
  BY <1>1, TypeStep
<1>4. ClaimInv' /\ DriveInv' /\ WaitInv' /\ TurnInv'
  BY <1>1, <1>2, ClaimStep, DriveStep, WaitStep, TurnStep
<1>5. HandoffInv' /\ ReviewInv' /\ TestInv'
  BY <1>1, <1>2, HandoffStep, ReviewStep, TestStep
<1>6. QED
  BY <1>3, <1>4, <1>5 DEF IInv

\* Whatever losses, pauses, cancellations, crashes and restarts come: what the next
\* theorems read off holds in every state.
THEOREM Invariance == Spec => []IInv
  BY InvInit, InvStep, PTL DEF Spec

\* Every row, task, request and counter keeps the values that the code gives it.
THEOREM TypeCorrect == Spec => []TypeOK
<1>1. IInv => TypeOK
  BY DEF IInv
<1>2. QED
  BY <1>1, Invariance, PTL

\* The adapter claims its task on the board of the Project OS at most once, also when the
\* answer to the claim was lost or the Controller crashed before it recorded the claim.
THEOREM ClaimIsMadeOnce == Spec => []ClaimedOnce
<1>1. IInv => ClaimedOnce
  <2> SUFFICES ASSUME IInv PROVE board.claims <= 1
    BY DEF ClaimedOnce
  <2>1. board.claims \in {0, 1}
    BY DEF IInv, ClaimInv
  <2>2. QED
    BY <2>1
<1>2. QED
  BY <1>1, Invariance, PTL

\* A Job with a Project OS task that had a turn is COMPLETED only when its handoff was
\* submitted and its ProjectWork row says so.
THEOREM CompletionIsHandedOff == Spec => []CompletedMeansHandedOff
<1>1. IInv => CompletedMeansHandedOff
  BY DEF IInv, HandoffInv
<1>2. QED
  BY <1>1, Invariance, PTL

\* Without a crash or a shutdown, a Job of a project with QA that had a turn is COMPLETED
\* only when its latest QA run passed or a human approved it.
THEOREM CompletionIsTested == Spec => []CompletedMeansTested
<1>1. IInv => CompletedMeansTested
  BY DEF IInv, TestInv
<1>2. QED
  BY <1>1, Invariance, PTL

\* While the Controller is up an active Job has a task at work: no exception path, lost
\* Runner, retry or restart leaves one behind.
THEOREM ActiveJobsAreDriven == Spec => []ActiveJobIsDriven
<1>1. IInv => ActiveJobIsDriven
  BY DEF IInv, DriveInv, ActiveJobIsDriven
<1>2. QED
  BY <1>1, Invariance, PTL

\* A CANCELLED Job has no task at work: its preparation, its turn and a closing in a task
\* of its own were stopped or waited for.  Only the closing that follows its turn in the
\* same task may still be under way: its handle lets the cancellation pass.
THEOREM CancellationWaits == Spec => []CancelWaitsForTask
<1>1. IInv => CancelWaitsForTask
  BY DEF IInv, DriveInv
<1>2. QED
  BY <1>1, Invariance, PTL

\* No step submits the work of a Job whose QA run failed or whose reviewer rejected it.
THEOREM RefusalIsFinal == Spec => RefusedIsNotHandedOff
<1>1. IInv /\ [Next]_vars =>
        [run.verdict = "FAIL" \/ run.review = "UI_REJECTED" => board'.submits = board.submits]_vars
  <2> SUFFICES ASSUME IInv, [Next]_vars, Rejected PROVE board'.submits = board.submits
    BY DEF Rejected
  <2>1. board \in Board
    BY DEF IInv, TypeOK, OutsideTypeOK, Board
  <2>2. ~Submit
    BY DEF IInv, ReviewInv, Submit
  <2>3. QED
    BY <2>1, <2>2, BoardMoves DEF Board
<1>2. QED
  BY <1>1, Invariance, PTL DEF Spec, RefusedIsNotHandedOff

=============================================================================
