------------------------ MODULE RemoteExecution_proofs -----------------------
(***************************************************************************)
(* Theorems about RemoteExecution, for every number of executions, faults  *)
(* and messages under way.                                                 *)
(***************************************************************************)
EXTENDS RemoteExecution, TLAPS, FiniteSetTheorems, WellFoundedInduction

USE DEF rows, memory, link, runner, history, bounds, vars, Move, Record, Goto,
        Fault, CancelAt, CancelGoto, Runs, RunnerOnly

-----------------------------------------------------------------------------
(* The inductive invariant.                                                *)

\* TypeOK, in the parts that are proved one by one.
FlagsOK ==
    /\ state \in Active \cup Terminal \cup {"WAITING_HOST", "PAUSED", "CANCELLING"}
    /\ session \in BOOLEAN /\ up \in BOOLEAN /\ conn \in BOOLEAN /\ synced \in BOOLEAN
    /\ dispatch \in {"none", "START", "FRESH", "RESUME", "NEW"}
    /\ paused \in {"never", "paused", "over", "live"}
BoundsOK == faults \in 0..MaxFaults /\ early \in 0..MaxEarly
PlacesOK ==
    /\ handle \in Exec \cup {NoExec} /\ adopting \in Exec \cup {NoExec}
    /\ acked \subseteq Exec /\ bound \subseteq Exec
MapsOK ==
    /\ ledger \in [Exec -> LedgerState] /\ future \in [Exec -> Future]
    /\ run \in [Exec -> ExecState]

Final == Terminal \cup {"CANCELLING"}
Cancelling == {"CANCELLING", "CANCELLED"}
HasEnded(e) == run[e] \in {"refused", "done", "gone"}

\* What is under way.
Orders == ToSet(toRunner)
Mail == ToSet(toController)

\* An execution may come to life as long as its command is under way.
Ordered(type, e) == [type |-> type, exec |-> e] \in Orders
MayRun(e) ==
    run[e] \in {"reserved", "alive"} \/ (run[e] = "none" /\ Ordered("JOB_START", e))
NoneRuns == \A e \in Exec : ~MayRun(e)
OnlyRuns(e) == \A f \in Exec : f # e => ~MayRun(f)
NoTasks == \A e \in Exec : task[e] = NoTask
Sending == \E e \in Exec : task[e].at = "send"
Reports == {m \in Mail : m.type = "RUNNING_JOBS"}
Answers == {m \in Mail : m.type = "JOB_RESULT"}

\* Without the Controller there is no task, without a connection nothing is under way.
DownInv ==
    /\ ~up => /\ handle = NoExec /\ dispatch = "none" /\ NoTasks /\ adopting = NoExec
              /\ ~conn /\ \A c \in Canceller : canceller[c].at = "idle"
    /\ ~conn => toRunner = <<>> /\ toController = <<>> /\ ~synced /\ adopting = NoExec

\* Cancellations and records are where the code leaves them.
CancelInv ==
    \A c \in Canceller :
        /\ canceller[c].at # "idle" => state \in Cancelling
        /\ canceller[c].at \in {"send", "sent", "ack"} => canceller[c].exec \in Exec
        /\ canceller[c].at = "ack" => state = "CANCELLED"
RowsInv ==
    /\ rec.mode = "CANCEL" => state \in Cancelling
    /\ state \notin Terminal => rec # NoRec
FutureInv ==
    /\ adopting # NoExec => future[adopting] # "none"
    /\ \A e \in Exec : task[e].at \notin {"none", "send", "record"} => future[e] # "none"
TasksInv ==
    \A e \in Exec : task[e].at \in {"stop", "stopping", "await", "ack"} => e \in bound
UsedInv == \A e, f \in Exec : e \in Used /\ f < e => f \in Used
ControlInv == DownInv /\ CancelInv /\ RowsInv /\ FutureInv /\ TasksInv /\ UsedInv

\* An execution that was not sent yet is known nowhere else.
Held(e) ==
    \/ future[e] # "none" \/ e \in bound \/ e \in {handle, rec.exec, adopting}
    \/ \E c \in Canceller : canceller[c].exec = e
Told(e) ==
    \/ run[e] # "none" \/ \E m \in Orders : m.exec = e
    \/ \E m \in Reports : e \in m.running \cup m.completed
    \/ \E m \in Answers : m.exec = e
FreshInv ==
    \A e \in Exec :
        /\ ledger[e] = "none" => task[e] = NoTask
        /\ ledger[e] = "none" \/ task[e].at = "send" => ~Held(e) /\ ~Told(e)

\* What is told, known or acknowledged as a result is that of an execution that ended.
EndInv ==
    /\ \A e \in Exec : future[e] = "result" => HasEnded(e)
    /\ \A m \in Answers : m.kind = "result" => HasEnded(m.exec)
    /\ \A m \in Reports : \A e \in m.completed : run[e] \in {"done", "gone"}
    /\ \A e \in acked : HasEnded(e)
    /\ \A e \in Exec : Ordered("JOB_RESULT_ACK", e) => e \in acked

\* The command that starts an execution is sent once, and first.
StartsFirst ==
    \A i, j \in DOMAIN toRunner :
        toRunner[i].type = "JOB_START" /\ toRunner[j].exec = toRunner[i].exec => i <= j
OrderInv ==
    /\ \A e \in Exec : Ordered("JOB_START", e) => run[e] = "none"
    /\ StartsFirst

\* A Runner that cannot confirm a cancellation does not have the execution.
UnconfirmedInv ==
    /\ \A e \in Exec : future[e] = "unconfirmed" => ~MayRun(e)
    /\ \A m \in Answers : m.kind = "unconfirmed" => ~MayRun(m.exec)

\* At most one task has the Job's turn.  A task that is left with the record of a
\* lost host may see the Job move on.
Driving(e) == task[e].at \notin {"none", "record"}
Suits(turn) ==
    \/ turn.at \in {"send", "bind"} /\ state = (IF turn.mode = "FRESH" THEN "STARTING" ELSE "RUNNING")
    \/ turn.at \in {"await", "ack"} /\ state = "RUNNING"
    \/ turn.at = "ack" /\ state \in Terminal
    \/ state \in Cancelling \cup {"PAUSED"}
OwnerInv ==
    /\ \A e, f \in Exec : Driving(e) /\ Driving(f) => e = f
    /\ \A e \in Exec :
          Driving(e) => Suits(task[e]) /\ dispatch = "none" /\ adopting = NoExec
    /\ \/ dispatch = "none"
       \/ dispatch = "START" /\ state = "ASSIGNED"
       \/ dispatch = "FRESH" /\ state = "STARTING"
       \/ dispatch \in {"RESUME", "NEW"} /\ state = "RUNNING"
       \/ state \in Cancelling \cup {"PAUSED"}
    /\ adopting # NoExec => dispatch = "none" /\ state \in {"ASSIGNED"} \cup Cancelling

Settled ==
    acked' # acked => state \in Terminal \cup {"PAUSED", "CANCELLING"} \/ dispatch' # "none"

Never == early = 0 /\ paused = "never"

\* A Job has one task, or one that is about to begin.
Fits(turn) ==
    \/ turn.at \in {"send", "bind"} /\ state = (IF turn.mode = "FRESH" THEN "STARTING" ELSE "RUNNING")
    \/ turn.at \in {"await", "ack"} /\ state = "RUNNING"
    \/ turn.at = "record" /\ state = "WAITING_HOST"
    \/ turn.at # "none" /\ state \in Cancelling
    \/ turn.at = "ack" /\ state \in Terminal
TurnInv ==
    /\ \A e, f \in Exec : task[e] # NoTask /\ task[f] # NoTask => e = f
    /\ \A e \in Exec : task[e] # NoTask =>
        /\ Fits(task[e])
        /\ conn => future[e] # "lost" /\ task[e].at # "record"
        /\ task[e].at = "send" => ledger[e] = "ACTIVE" /\ (conn => synced)
DispatchInv ==
    dispatch # "none" =>
        /\ NoTasks
        /\ \/ dispatch = "START" /\ state = "ASSIGNED"
           \/ dispatch = "FRESH" /\ state = "STARTING"
           \/ dispatch \in {"RESUME", "NEW"} /\ state = "RUNNING"
           \/ state \in Cancelling
AdoptingInv ==
    adopting # NoExec =>
        /\ conn /\ future[adopting] = "open" /\ rec.exec = adopting
        /\ state \in {"ASSIGNED", "CANCELLING"}
        /\ dispatch = "none" /\ NoTasks /\ handle = NoExec
        /\ \A c \in Canceller : canceller[c].at \in {"idle", "look", "join"}
DriverInv == state # "PAUSED" /\ TurnInv /\ DispatchInv /\ AdoptingInv

\* The first snapshot of a connection comes first.
IsFull(m) == m.type = "RUNNING_JOBS" /\ m.full
LinkInv ==
    /\ \A i \in DOMAIN toController :
        IsFull(toController[i]) => i = 1 /\ ~synced /\ adopting = NoExec
    /\ conn /\ ~synced /\ adopting = NoExec =>
        toController # <<>> /\ IsFull(toController[1])

\* Whatever may run is the latest execution; nothing is started beside it.
LatestInv == \A f \in Exec : MayRun(f) \/ task[f].at = "send" => \A e \in Used : e <= f
StartInv == dispatch # "none" \/ Sending => NoneRuns
AloneInv == \A e \in Exec : task[e] # NoTask \/ adopting = e => OnlyRuns(e)
AckInv == \A e \in Exec : task[e].at = "ack" => ~MayRun(e)
WaitInv == conn /\ synced /\ state = "WAITING_HOST" => NoneRuns
TreeInv == LatestInv /\ StartInv /\ AloneInv /\ AckInv /\ WaitInv

\* A snapshot names what may run.
ReportInv ==
    \A m \in Reports :
        /\ \A f \in Exec : MayRun(f) => f \in m.running
        /\ ~m.full => dispatch = "none" /\ ~Sending /\ state \in Final

\* The rows of a Job lead to the execution that may run.
OpenInv == \A f \in Exec : MayRun(f) /\ state \notin Terminal => f \in OpenRows
BoundInv == \A f \in Exec : MayRun(f) /\ state \notin Terminal /\ f \in bound => rec.exec = f
AgainInv ==
    \A f \in Exec :
        /\ MayRun(f)
        /\ \/ state = "WAITING_HOST" /\ rec.mode \in {"START", "RESUME"}
           \/ task[f].at = "record"
        => f \in bound
RecordInv == OpenInv /\ BoundInv /\ AgainInv

\* So do the handle and the cancellations, beside which nothing starts.
NothingStarts == dispatch = "none" /\ ~Sending
HandleInv ==
    handle # NoExec =>
        OnlyRuns(handle) /\ NothingStarts /\ (~NoTasks \/ state \in Final)
IntentInv == rec.mode = "CANCEL" => NothingStarts
RequestInv ==
    \A c \in Canceller :
        canceller[c].at \in {"send", "sent", "ack"} =>
            OnlyRuns(canceller[c].exec) /\ NothingStarts

\* A Job that is CANCELLED leaves nothing behind that it knows of.
CancelledInv ==
    state = "CANCELLED" =>
        NothingStarts /\ \A f \in Exec : MayRun(f) => f \notin bound /\ NoTasks

BasicInv == TypeOK /\ ControlInv /\ FreshInv /\ EndInv /\ OrderInv /\ UnconfirmedInv
NeverInv ==
    /\ DriverInv /\ LinkInv /\ TreeInv /\ ReportInv
    /\ RecordInv /\ HandleInv /\ IntentInv /\ RequestInv /\ CancelledInv
IInv == BasicInv /\ OwnerInv /\ (Never => NeverInv)

-----------------------------------------------------------------------------
(* Queues, and the latest of some executions.                              *)

LEMMA EmptyQueue == ToSet(<<>>) = {}
  BY DEF ToSet

LEMMA AppendQueue ==
    ASSUME NEW S, NEW q \in Seq(S), NEW x
    PROVE  /\ ToSet(Append(q, x)) = ToSet(q) \cup {x}
           /\ x \in S => Append(q, x) \in Seq(S)
<1>1. /\ DOMAIN Append(q, x) = 1..(Len(q) + 1) /\ DOMAIN q = 1..Len(q)
      /\ Append(q, x)[Len(q) + 1] = x /\ \A i \in 1..Len(q) : Append(q, x)[i] = q[i]
  OBVIOUS
<1>2. Len(q) \in Nat
  OBVIOUS
<1>3. 1..(Len(q) + 1) = 1..Len(q) \cup {Len(q) + 1}
  BY <1>2
<1>4. QED
  BY <1>1, <1>3 DEF ToSet

LEMMA TailQueue ==
    ASSUME NEW S, NEW q \in Seq(S), q # <<>>
    PROVE  /\ Tail(q) \in Seq(S) /\ Head(q) \in S /\ Head(q) \in ToSet(q)
           /\ ToSet(q) = ToSet(Tail(q)) \cup {Head(q)}
           /\ Len(Tail(q)) = Len(q) - 1 /\ Head(q) = q[1]
           /\ \A i \in DOMAIN Tail(q) : i + 1 \in DOMAIN q /\ Tail(q)[i] = q[i + 1]
<1>1. /\ Len(q) \in Nat \ {0} /\ DOMAIN q = 1..Len(q) /\ Head(q) = q[1] /\ Head(q) \in S
      /\ Tail(q) \in Seq(S) /\ Len(Tail(q)) = Len(q) - 1
      /\ DOMAIN Tail(q) = 1..(Len(q) - 1)
      /\ \A i \in 1..(Len(q) - 1) : Tail(q)[i] = q[i + 1]
  OBVIOUS
<1>2. \A i \in 1..(Len(q) - 1) : i + 1 \in 1..Len(q)
  BY <1>1
<1>3. \A i \in 1..Len(q) : i # 1 => i - 1 \in 1..(Len(q) - 1) /\ (i - 1) + 1 = i
  BY <1>1
<1>4. 1 \in 1..Len(q)
  BY <1>1
<1>5. ASSUME NEW x \in ToSet(q), x # Head(q) PROVE x \in ToSet(Tail(q))
  <2>1. PICK i \in 1..Len(q) : x = q[i]
    BY <1>1 DEF ToSet
  <2>2. i # 1
    BY <2>1, <1>1, <1>5
  <2>3. x = Tail(q)[i - 1]
    BY <2>1, <2>2, <1>1, <1>3
  <2>4. QED
    BY <2>2, <2>3, <1>1, <1>3 DEF ToSet
<1>6. QED
  BY <1>1, <1>2, <1>4, <1>5 DEF ToSet

LEMMA JoinQueues ==
    ASSUME NEW S, NEW p \in Seq(S), NEW q \in Seq(S)
    PROVE  /\ p \o q \in Seq(S) /\ ToSet(p \o q) = ToSet(p) \cup ToSet(q)
           /\ Len(p \o q) = Len(p) + Len(q)
           /\ \A i \in DOMAIN (p \o q) :
                \/ i \in DOMAIN p /\ (p \o q)[i] = p[i]
                \/ i > Len(p) /\ (p \o q)[i] \in ToSet(q)
<1>1. /\ Len(p) \in Nat /\ Len(q) \in Nat /\ p \o q \in Seq(S)
      /\ Len(p \o q) = Len(p) + Len(q)
      /\ DOMAIN p = 1..Len(p) /\ DOMAIN q = 1..Len(q) /\ DOMAIN (p \o q) = 1..(Len(p) + Len(q))
      /\ \A i \in 1..(Len(p) + Len(q)) :
            (p \o q)[i] = IF i <= Len(p) THEN p[i] ELSE q[i - Len(p)]
  OBVIOUS
<1>2. \A i \in 1..(Len(p) + Len(q)) :
        \/ i \in 1..Len(p) /\ i <= Len(p)
        \/ i > Len(p) /\ ~(i <= Len(p)) /\ i - Len(p) \in 1..Len(q)
  BY <1>1
<1>3. \A i \in 1..Len(q) : /\ i + Len(p) \in 1..(Len(p) + Len(q)) /\ ~(i + Len(p) <= Len(p))
                           /\ (i + Len(p)) - Len(p) = i
  BY <1>1
<1>4. \A i \in 1..Len(p) : i \in 1..(Len(p) + Len(q)) /\ i <= Len(p)
  BY <1>1
<1>5. ToSet(p \o q) \subseteq ToSet(p) \cup ToSet(q)
  BY <1>1, <1>2 DEF ToSet
<1>6. ToSet(p) \subseteq ToSet(p \o q)
  BY <1>1, <1>4 DEF ToSet
<1>7. ToSet(q) \subseteq ToSet(p \o q)
  <2>1. ASSUME NEW i \in 1..Len(q) PROVE q[i] = (p \o q)[i + Len(p)]
    BY <1>1, <1>3
  <2>2. QED
    BY <2>1, <1>1, <1>3 DEF ToSet
<1>8. ASSUME NEW i \in DOMAIN (p \o q)
      PROVE  \/ i \in DOMAIN p /\ (p \o q)[i] = p[i]
             \/ i > Len(p) /\ (p \o q)[i] \in ToSet(q)
  BY <1>1, <1>2 DEF ToSet
<1>9. QED
  BY <1>1, <1>5, <1>6, <1>7, <1>8

\* A queue of messages about some executions, one each.
LEMMA ListQueue ==
    ASSUME NEW D \in SUBSET Exec, NEW s \in SetToSeqs(D)
    PROVE  /\ Cardinality(D) \in Nat
           /\ s \in [1..Cardinality(D) -> D] /\ DOMAIN s = 1..Cardinality(D)
<1>1. Cardinality(D) \in Nat
  <2>1. IsFiniteSet(Exec)
    BY FS_Interval, BoundAssumption DEF Exec
  <2>2. IsFiniteSet(D)
    BY <2>1, FS_Subset
  <2>3. QED
    BY <2>2, FS_CardinalityType
<1>2. s \in [1..Cardinality(D) -> D]
  BY DEF SetToSeqs
<1>3. QED
  BY <1>1, <1>2

LEMMA FlushQueue ==
    ASSUME Flush, run \in [Exec -> ExecState]
    PROVE  /\ toController' \in Seq(Report \cup Answer) /\ toController' # <<>>
           /\ toController'[1] = Snapshot(TRUE)
           /\ \A i \in DOMAIN toController' :
                i = 1 \/ \E e \in Completed : toController'[i] = Result(e, "result")
<1>1. PICK s \in SetToSeqs(Completed) :
        toController' = <<Snapshot(TRUE)>> \o [i \in DOMAIN s |-> Result(s[i], "result")]
  BY DEF Flush
<1> DEFINE q == [i \in DOMAIN s |-> Result(s[i], "result")]
           p == <<Snapshot(TRUE)>>
<1>2. Completed \in SUBSET Exec
  BY DEF Completed
<1>3. /\ Cardinality(Completed) \in Nat /\ DOMAIN s = 1..Cardinality(Completed)
      /\ \A i \in DOMAIN s : s[i] \in Completed
  BY <1>2, ListQueue
<1>4. Snapshot(TRUE) \in Report
  BY DEF Snapshot, Completed, Report
<1>5. \A e \in Exec : Result(e, "result") \in Answer
  BY DEF Result, Answer
<1>6. /\ q \in Seq(Report \cup Answer)
      /\ \A i \in DOMAIN q : \E e \in Completed : q[i] = Result(e, "result")
  <2>1. \A i \in DOMAIN s : q[i] \in Report \cup Answer /\ q[i] = Result(s[i], "result")
    BY <1>2, <1>3, <1>5
  <2>2. q \in [1..Cardinality(Completed) -> Report \cup Answer]
    BY <1>3, <2>1
  <2>3. QED
    BY <1>3, <2>1, <2>2
<1>7. p \in Seq(Report \cup Answer) /\ Len(p) = 1 /\ DOMAIN p = {1} /\ p[1] = Snapshot(TRUE)
  <2>1. Snapshot(TRUE) \in Report \cup Answer
    BY <1>4
  <2> HIDE DEF p
  <2>2. \A x \in Report \cup Answer : /\ <<x>> \in Seq(Report \cup Answer)
                                      /\ Len(<<x>>) = 1 /\ DOMAIN <<x>> = {1} /\ <<x>>[1] = x
    OBVIOUS
  <2>3. QED
    BY <2>1, <2>2 DEF p
<1> HIDE DEF p, q
<1>8. toController' = p \o q
  BY <1>1 DEF p, q
<1>9. Len(q) \in Nat
  BY <1>6
<1>10. /\ toController' \in Seq(Report \cup Answer)
      /\ Len(toController') = 1 + Len(q)
      /\ \A i \in DOMAIN (p \o q) :
            \/ i \in DOMAIN p /\ (p \o q)[i] = p[i]
            \/ i > 1 /\ (p \o q)[i] \in ToSet(q)
  <2>1. /\ p \o q \in Seq(Report \cup Answer) /\ Len(p \o q) = Len(p) + Len(q)
        /\ \A i \in DOMAIN (p \o q) :
              \/ i \in DOMAIN p /\ (p \o q)[i] = p[i]
              \/ i > Len(p) /\ (p \o q)[i] \in ToSet(q)
    BY <1>6, <1>7, JoinQueues
  <2>2. QED
    BY <2>1, <1>7, <1>8
<1>11. toController' # <<>> /\ 1 \in DOMAIN toController'
  BY <1>9, <1>10
<1>12. toController'[1] = Snapshot(TRUE)
  <2>1. ~(1 > 1)
    OBVIOUS
  <2>2. QED
    BY <1>7, <1>8, <1>10, <1>11, <2>1
<1>13. QED
  BY <1>6, <1>7, <1>8, <1>10, <1>11, <1>12 DEF ToSet

LEMMA AckQueue ==
    ASSUME NEW D \in SUBSET Exec, NEW s \in SetToSeqs(D),
           NEW q, q = [i \in DOMAIN s |-> [type |-> "JOB_RESULT_ACK", exec |-> s[i]]]
    PROVE  /\ q \in Seq(Order)
           /\ \A m \in ToSet(q) : \E e \in D : m = [type |-> "JOB_RESULT_ACK", exec |-> e]
<1>1. /\ Cardinality(D) \in Nat /\ DOMAIN s = 1..Cardinality(D)
      /\ \A i \in DOMAIN s : s[i] \in D
  BY ListQueue
<1>2. \A i \in DOMAIN s : q[i] \in Order /\ q[i] = [type |-> "JOB_RESULT_ACK", exec |-> s[i]]
  BY <1>1 DEF Order
<1>3. QED
  BY <1>1, <1>2 DEF ToSet

LEMMA LatestIn ==
    ASSUME NEW S \in SUBSET Exec, S # {}
    PROVE  Latest(S) \in S /\ \A f \in S : f <= Latest(S)
<1> DEFINE Less == OpToRel(<, Nat)
           Gap == {MaxExec - e : e \in S}
<1>1. PICK g \in Gap : \A h \in Gap : ~(<<h, g>> \in Less)
  <2>1. IsWellFoundedOn(Less, Nat)
    BY NatLessThanWellFounded DEF OpToRel
  <2>2. Gap \subseteq Nat /\ Gap # {}
    BY BoundAssumption DEF Exec
  <2> HIDE DEF Gap, Less
  <2>3. QED
    BY <2>1, <2>2, WFMin
<1>2. ASSUME NEW h \in Gap PROVE ~(h < g)
  <2>1. <<h, g>> \notin Less
    BY <1>1
  <2>2. h \in Nat /\ g \in Nat
    BY BoundAssumption DEF Exec
  <2>3. QED
    BY <2>1, <2>2 DEF OpToRel
<1>3. PICK e \in S : g = MaxExec - e
  OBVIOUS
<1>4. \A f \in S : f <= e
  <2> TAKE f \in S
  <2>1. ~(MaxExec - f < MaxExec - e)
    BY <1>2, <1>3
  <2>2. MaxExec \in Nat /\ f \in Nat /\ e \in Nat
    BY BoundAssumption DEF Exec
  <2>3. QED
    BY <2>1, <2>2
<1>5. QED
  BY <1>4 DEF Latest

-----------------------------------------------------------------------------
(* The steps, by what they do to the two queues.                           *)

Acks(m) ==
    \E s \in SetToSeqs(Over(m)) :
        toRunner' = toRunner \o [i \in DOMAIN s |-> [type |-> "JOB_RESULT_ACK", exec |-> s[i]]]
Handled(m) ==
    /\ up /\ adopting = NoExec /\ toController # <<>>
    /\ m = Head(toController) /\ m.type = "RUNNING_JOBS"
    /\ toController' = Tail(toController)
    /\ ledger' = [e \in Exec |-> IF e \in Closed(m) THEN "ACKNOWLEDGED" ELSE ledger[e]]
    /\ acked' = acked \cup Over(m)
    /\ Acks(m)
    /\ UNCHANGED <<session, up, dispatch, task, conn, run, paused, bounds>>
Looked(m) == synced' = (synced \/ m.full) /\ state' = state /\ adopting' = adopting

AdoptMove(m) == Handled(m) /\ Adopts(m) /\ Adopt(Adoptee(m))
AbsenceMove(m) == Handled(m) /\ ~Adopts(m) /\ Looked(m) /\ Misses(m) /\ ConfirmAbsence
TakeUpMove(m) == Handled(m) /\ ~Adopts(m) /\ Looked(m) /\ TakesUp(m) /\ AdoptCancel(Known(m))
PassMove(m) ==
    /\ Handled(m) /\ ~Adopts(m) /\ Looked(m) /\ ~Misses(m) /\ ~TakesUp(m)
    /\ UNCHANGED <<rec, handle, future, canceller, bound>>
SnapshotStep(m) == AdoptMove(m) \/ AbsenceMove(m) \/ TakeUpMove(m) \/ PassMove(m)

LEMMA SnapshotMoves ==
    ASSUME TypeOK, HandleSnapshot
    PROVE  \E m \in Report : SnapshotStep(m)
<1> DEFINE m == Head(toController)
<1>1. m \in Report \cup Answer
  <2>1. toController \in Seq(Report \cup Answer) /\ toController # <<>>
    BY DEF TypeOK, HandleSnapshot
  <2>2. QED
    BY <2>1, TailQueue
<1>2. m \in Report
  BY <1>1 DEF HandleSnapshot, Answer
<1>3. Handled(m)
  BY DEF HandleSnapshot, Handled, Acks
<1>4. \/ Adopts(m) /\ Adopt(Adoptee(m))
      \/ /\ ~Adopts(m) /\ Looked(m)
         /\ \/ Misses(m) /\ ConfirmAbsence
            \/ TakesUp(m) /\ AdoptCancel(Known(m))
            \/ /\ ~Misses(m) /\ ~TakesUp(m)
               /\ UNCHANGED <<rec, handle, future, canceller, bound>>
  BY DEF HandleSnapshot, Looked
<1> HIDE DEF m
<1>5. SnapshotStep(m)
  BY <1>3, <1>4 DEF SnapshotStep, AdoptMove, AbsenceMove, TakeUpMove, PassMove
<1>6. QED
  BY <1>2, <1>5

\* What TakeResult makes of the end of a turn.
Taking(e) ==
    /\ up /\ task[e].at = "await" /\ future[e] # "open"
    /\ Received(e)
    /\ UNCHANGED <<up, future, dispatch, canceller, adopting, link, runner, history, bounds>>
CancelledMove(e) ==
    /\ Taking(e) /\ state = "CANCELLING" /\ future[e] = "result"
    /\ Cancelled /\ Goto(e, "ack") /\ UNCHANGED <<session, handle>>
PendingMove(e) ==
    /\ Taking(e) /\ state = "CANCELLING" /\ future[e] # "result"
    /\ Record("CANCEL", e) /\ Ended(e) /\ UNCHANGED <<state, session>>
YieldMove(e) ==
    /\ Taking(e) /\ state = "WAITING_HOST"
    /\ Ended(e) /\ UNCHANGED <<state, rec, session>>
LossMove(e) ==
    /\ Taking(e) /\ state = "RUNNING" /\ future[e] = "lost"
    /\ Move("WAITING_HOST") /\ Goto(e, "record") /\ UNCHANGED <<handle, rec, session>>
EndMove(e) ==
    /\ Taking(e) /\ state = "RUNNING" /\ future[e] # "lost"
    /\ Goto(e, "ack") /\ UNCHANGED handle /\ session' \in {session, TRUE}
    /\ state' \in {"COMPLETED", "FAILED"} /\ rec' = NoRec
TurnMove(e) ==
    /\ Taking(e) /\ state = "RUNNING" /\ future[e] # "lost"
    /\ Goto(e, "ack") /\ UNCHANGED handle /\ session' \in {session, TRUE}
    /\ Used # Exec /\ UNCHANGED <<state, rec>>
LeftMove(e) ==
    /\ Taking(e) /\ state \notin {"CANCELLING", "WAITING_HOST", "RUNNING"}
    /\ Goto(e, "ack") /\ UNCHANGED <<state, rec, session, handle>>
ResultStep(e) ==
    \/ CancelledMove(e) \/ PendingMove(e) \/ YieldMove(e) \/ LossMove(e)
    \/ EndMove(e) \/ TurnMove(e) \/ LeftMove(e)

LEMMA ResultMoves ==
    ASSUME NEW e \in Exec, TakeResult(e)
    PROVE  ResultStep(e)
<1>1. Taking(e)
  BY DEF TakeResult, Taking
<1>2. \/ /\ state = "CANCELLING" /\ future[e] = "result"
         /\ Cancelled /\ Goto(e, "ack") /\ UNCHANGED <<session, handle>>
      \/ /\ state = "CANCELLING" /\ future[e] # "result"
         /\ Record("CANCEL", e) /\ Ended(e) /\ UNCHANGED <<state, session>>
      \/ state = "WAITING_HOST" /\ Ended(e) /\ UNCHANGED <<state, rec, session>>
      \/ /\ state = "RUNNING" /\ future[e] = "lost"
         /\ EnterHostWait(e) /\ UNCHANGED <<rec, session>>
      \/ /\ state = "RUNNING" /\ future[e] # "lost"
         /\ Goto(e, "ack") /\ UNCHANGED handle
         /\ session' \in {session, TRUE}
         /\ \/ state' \in {"COMPLETED", "FAILED"} /\ rec' = NoRec
            \/ Used # Exec /\ UNCHANGED <<state, rec>>
      \/ /\ state \notin {"CANCELLING", "WAITING_HOST", "RUNNING"}
         /\ Goto(e, "ack") /\ UNCHANGED <<state, rec, session, handle>>
  BY DEF TakeResult
<1>3. state = "RUNNING" /\ EnterHostWait(e) =>
        Move("WAITING_HOST") /\ Goto(e, "record") /\ UNCHANGED handle
  BY DEF EnterHostWait
<1>4. QED
  BY <1>1, <1>2, <1>3 DEF ResultStep, CancelledMove, PendingMove, YieldMove, LossMove,
     EndMove, TurnMove, LeftMove

LEMMA OrderSteps ==
    ASSUME TypeOK
    PROVE  /\ toRunner' = toRunner => Orders' = Orders /\ toRunner' \in Seq(Order)
           /\ toRunner' = <<>> => Orders' = {} /\ toRunner' \in Seq(Order)
           /\ \A type \in {"JOB_START", "JOB_CANCEL", "JOB_RESULT_ACK"}, e \in Exec :
                 Send(type, e) =>
                    /\ Orders' = Orders \cup {[type |-> type, exec |-> e]}
                    /\ toRunner' \in Seq(Order)
           /\ \A type \in {"JOB_START", "JOB_CANCEL", "JOB_RESULT_ACK"}, e \in Exec :
                 Command(type, e) =>
                    /\ [type |-> type, exec |-> e] \in Orders /\ Orders' \subseteq Orders
                    /\ toRunner' \in Seq(Order)
           /\ \A m : Acks(m) =>
                 /\ Orders \subseteq Orders' /\ toRunner' \in Seq(Order)
                 /\ \A o \in Orders' : o \in Orders \/ \E e \in Over(m) :
                       o = [type |-> "JOB_RESULT_ACK", exec |-> e]
<1>1. toRunner \in Seq(Order)
  BY DEF TypeOK
<1>2. toRunner' = toRunner => Orders' = Orders /\ toRunner' \in Seq(Order)
  BY <1>1 DEF Orders
<1>3. toRunner' = <<>> => Orders' = {} /\ toRunner' \in Seq(Order)
  <2>1. <<>> \in Seq(Order)
    OBVIOUS
  <2>2. QED
    BY <2>1, EmptyQueue DEF Orders
<1>4. ASSUME NEW type \in {"JOB_START", "JOB_CANCEL", "JOB_RESULT_ACK"}, NEW e \in Exec,
             Send(type, e)
      PROVE  /\ Orders' = Orders \cup {[type |-> type, exec |-> e]}
             /\ toRunner' \in Seq(Order)
  <2>1. [type |-> type, exec |-> e] \in Order
    BY DEF Order
  <2>2. toRunner' = Append(toRunner, [type |-> type, exec |-> e])
    BY <1>4 DEF Send
  <2>3. QED
    BY <1>1, <2>1, <2>2, AppendQueue DEF Orders
<1>5. ASSUME NEW type \in {"JOB_START", "JOB_CANCEL", "JOB_RESULT_ACK"}, NEW e \in Exec,
             Command(type, e)
      PROVE  /\ [type |-> type, exec |-> e] \in Orders /\ Orders' \subseteq Orders
             /\ toRunner' \in Seq(Order)
  <2>1. toRunner # <<>> /\ Head(toRunner) = [type |-> type, exec |-> e] /\ toRunner' = Tail(toRunner)
    BY <1>5 DEF Command
  <2>2. QED
    BY <1>1, <2>1, TailQueue DEF Orders
<1>6. ASSUME NEW m, Acks(m)
      PROVE  /\ Orders \subseteq Orders' /\ toRunner' \in Seq(Order)
             /\ \A o \in Orders' : o \in Orders \/ \E e \in Over(m) :
                   o = [type |-> "JOB_RESULT_ACK", exec |-> e]
  <2>1. PICK s \in SetToSeqs(Over(m)) :
          toRunner' = toRunner \o [i \in DOMAIN s |-> [type |-> "JOB_RESULT_ACK", exec |-> s[i]]]
    BY <1>6 DEF Acks
  <2> DEFINE q == [i \in DOMAIN s |-> [type |-> "JOB_RESULT_ACK", exec |-> s[i]]]
  <2>2. Over(m) \in SUBSET Exec
    BY DEF Over, OpenRows
  <2>3. /\ q \in Seq(Order)
        /\ \A o \in ToSet(q) : \E e \in Over(m) : o = [type |-> "JOB_RESULT_ACK", exec |-> e]
    BY <2>2, AckQueue
  <2>4. toRunner' = toRunner \o q
    BY <2>1
  <2> HIDE DEF q
  <2>5. QED
    BY <1>1, <2>3, <2>4, JoinQueues DEF Orders
<1>7. QED
  BY <1>2, <1>3, <1>4, <1>5, <1>6

LEMMA MailSteps ==
    ASSUME TypeOK
    PROVE  /\ toController' = toController =>
                 Mail' = Mail /\ toController' \in Seq(Report \cup Answer)
           /\ toController' = <<>> =>
                 Mail' = {} /\ toController' \in Seq(Report \cup Answer)
           /\ toController # <<>> /\ toController' = Tail(toController) =>
                 /\ Head(toController) \in Mail /\ Head(toController) \in Report \cup Answer
                 /\ Mail' \subseteq Mail /\ toController' \in Seq(Report \cup Answer)
           /\ \A m \in Report \cup Answer : Tell(m) =>
                 /\ IF conn THEN Mail' = Mail \cup {m} ELSE Mail' = Mail
                 /\ toController' \in Seq(Report \cup Answer)
           /\ Flush =>
                 /\ \A m \in Mail' : \/ m = Snapshot(TRUE)
                                     \/ \E e \in Completed : m = Result(e, "result")
                 /\ toController' \in Seq(Report \cup Answer)
<1>1. toController \in Seq(Report \cup Answer) /\ run \in [Exec -> ExecState]
  BY DEF TypeOK
<1>2. toController' = toController => Mail' = Mail /\ toController' \in Seq(Report \cup Answer)
  BY <1>1 DEF Mail
<1>3. toController' = <<>> => Mail' = {} /\ toController' \in Seq(Report \cup Answer)
  <2>1. <<>> \in Seq(Report \cup Answer)
    OBVIOUS
  <2>2. QED
    BY <2>1, EmptyQueue DEF Mail
<1>4. ASSUME toController # <<>>, toController' = Tail(toController)
      PROVE  /\ Head(toController) \in Mail /\ Head(toController) \in Report \cup Answer
             /\ Mail' \subseteq Mail /\ toController' \in Seq(Report \cup Answer)
  BY <1>1, <1>4, TailQueue DEF Mail
<1>5. ASSUME NEW m \in Report \cup Answer, Tell(m)
      PROVE  /\ IF conn THEN Mail' = Mail \cup {m} ELSE Mail' = Mail
             /\ toController' \in Seq(Report \cup Answer)
  <2>1. CASE ~conn
    BY <1>1, <1>5, <2>1 DEF Tell, Mail
  <2>2. CASE conn
    <3>1. toController' = Append(toController, m)
      BY <1>5, <2>2 DEF Tell
    <3>2. QED
      BY <1>1, <2>2, <3>1, AppendQueue DEF Mail
  <2>3. QED
    BY <2>1, <2>2
<1>6. ASSUME Flush
      PROVE  /\ \A m \in Mail' : \/ m = Snapshot(TRUE)
                                 \/ \E e \in Completed : m = Result(e, "result")
             /\ toController' \in Seq(Report \cup Answer)
  <2>1. /\ toController' \in Seq(Report \cup Answer)
        /\ toController'[1] = Snapshot(TRUE)
        /\ \A i \in DOMAIN toController' :
              i = 1 \/ \E e \in Completed : toController'[i] = Result(e, "result")
    BY <1>1, <1>6, FlushQueue
  <2>2. ASSUME NEW m \in Mail'
        PROVE  m = Snapshot(TRUE) \/ \E e \in Completed : m = Result(e, "result")
    <3>1. PICK i \in DOMAIN toController' : m = toController'[i]
      BY <2>2 DEF Mail, ToSet
    <3>2. QED
      BY <2>1, <3>1
  <2>3. QED
    BY <2>1, <2>2
<1>7. QED
  BY <1>2, <1>3, <1>4, <1>5, <1>6

LEMMA Messages ==
    ASSUME TypeOK
    PROVE  /\ \A full \in BOOLEAN : Snapshot(full) \in Report
           /\ \A e \in Exec, kind \in {"result", "unconfirmed"} : Result(e, kind) \in Answer
           /\ Orders \subseteq Order /\ Mail \subseteq Report \cup Answer
           /\ \A e, kind : LET m == Result(e, kind) IN
                 m.type = "JOB_RESULT" /\ m.exec = e /\ m.kind = kind
           /\ \A full \in BOOLEAN : LET m == Snapshot(full) IN
                 /\ m.type = "RUNNING_JOBS" /\ m.full = full
                 /\ m.running = {e \in Exec : run[e] \in {"reserved", "alive"}}
                 /\ \A e \in m.completed : e \in Exec /\ run[e] = "done" /\ full
<1>1. \A full \in BOOLEAN : Snapshot(full) \in Report
  BY DEF Snapshot, Completed, Report
<1>2. \A e \in Exec, kind \in {"result", "unconfirmed"} : Result(e, kind) \in Answer
  BY DEF Result, Answer
<1>3. Orders \subseteq Order
  BY DEF TypeOK, Orders, ToSet
<1>4. Mail \subseteq Report \cup Answer
  <2> DEFINE S == Report \cup Answer
  <2>1. toController \in Seq(S)
    BY DEF TypeOK
  <2> HIDE DEF S
  <2>2. ToSet(toController) \subseteq S
    BY <2>1 DEF ToSet
  <2>3. QED
    BY <2>2 DEF S, Mail
<1>5. \A e, kind : LET m == Result(e, kind) IN
        m.type = "JOB_RESULT" /\ m.exec = e /\ m.kind = kind
  BY DEF Result
<1>6. \A full \in BOOLEAN : LET m == Snapshot(full) IN
        /\ m.type = "RUNNING_JOBS" /\ m.full = full
        /\ m.running = {e \in Exec : run[e] \in {"reserved", "alive"}}
        /\ \A e \in m.completed : e \in Exec /\ run[e] = "done" /\ full
  BY DEF Snapshot, Completed
<1>7. QED
  BY <1>1, <1>2, <1>3, <1>4, <1>5, <1>6

LEMMA LookedTypes ==
    ASSUME NEW m, Looked(m)
    PROVE  synced' \in BOOLEAN /\ state' = state /\ adopting' = adopting
<1>1. (synced \/ m.full) \in BOOLEAN
  OBVIOUS
<1>2. QED
  BY <1>1 DEF Looked

LEMMA AdopteeIn ==
    ASSUME TypeOK, NEW m \in Report
    PROVE  /\ Reported(m) \subseteq Exec /\ Reported(m) \subseteq m.running \cup m.completed
           /\ Known(m) \in Reported(m) \cup {NoExec}
           /\ Adoptee(m) \in Reported(m) \cup {NoExec}
<1>1. Reported(m) \in SUBSET Exec /\ Reported(m) \subseteq m.running \cup m.completed
  BY DEF Report, Reported
<1>2. ASSUME NEW R \in SUBSET Exec, NEW D
      PROVE  Latest(R \cap D) \in R \cup {NoExec} /\ Latest(R \ D) \in R \cup {NoExec}
  <2>1. ASSUME NEW T \in SUBSET R PROVE Latest(T) \in R \cup {NoExec}
    <3>1. CASE T = {}
      BY <3>1 DEF Latest
    <3>2. CASE T # {}
      BY <3>2, LatestIn
    <3>3. QED
      BY <3>1, <3>2
  <2>2. QED
    BY <2>1
<1>3. Found(m) \in Reported(m) \cup {NoExec}
  BY <1>1, <1>2 DEF Found, Matched
<1>4. Recorded(Reported(m)) \in Reported(m) \cup {NoExec}
  BY DEF Recorded
<1>5. QED
  BY <1>1, <1>3, <1>4 DEF Known, Adoptee, First

\* The command that starts an execution is sent.
Starts(e) == SendStart(e) /\ conn
MayNotRise == \A f \in Exec : MayRun(f)' => MayRun(f) \/ Starts(f)
RunsOn ==
    \A f \in Exec : /\ HasEnded(f) => HasEnded(f)'
                    /\ run[f] \in {"done", "gone"} => run'[f] \in {"done", "gone"}

HoldsKnown == \A e \in Exec : Held(e)' => Held(e) \/ Told(e) \/ Starts(e)
RowsFirst ==
    \A e \in Exec :
        /\ ledger'[e] = "none" \/ task'[e].at = "send" => ledger[e] = "none" \/ task[e].at = "send"
        /\ ledger'[e] = "none" => task'[e] = NoTask /\ ledger[e] = "none"

LEMMA NoExecIsNone == NoExec \notin Exec
  BY DEF NoExec, Exec

LEMMA StartsNew ==
    ASSUME TypeOK, FreshInv, NEW e \in Exec, Starts(e)
    PROVE  ledger[e] # "none" /\ ledger' = ledger /\ task'[e].at # "send"
<1>1. task \in [Exec -> Turn] /\ task[e].at = "send" /\ ledger' = ledger
  BY DEF TypeOK, Starts, SendStart
<1>2. ledger[e] # "none"
  BY <1>1 DEF FreshInv, NoTask
<1>3. task' = [task EXCEPT ![e].at = "bind"]
  BY DEF Starts, SendStart
<1>4. QED
  BY <1>1, <1>2, <1>3 DEF Turn

\* What is added to the messages under way.
NewMail(m) ==
    \/ \E e \in Exec : m = Result(e, "result") /\ run[e] # "none" /\ HasEnded(e)'
    \/ \E e \in Exec : m = Result(e, "unconfirmed") /\ RunnerCancels(e) /\ run[e] \notin {"alive", "done"}
    \/ m = Snapshot(FALSE) /\ Heartbeat
    \/ m = Snapshot(TRUE) /\ (Connect \/ Replace)
NewOrder(o) ==
    \E e \in Exec :
        \/ o = [type |-> "JOB_START", exec |-> e] /\ Starts(e)
        \/ o = [type |-> "JOB_CANCEL", exec |-> e] /\ Held(e)
        \/ /\ o = [type |-> "JOB_RESULT_ACK", exec |-> e] /\ e \in acked'
           /\ Held(e) \/ \E m \in Reports : e \in m.completed
MailGrows == \A m \in Mail' : m \in Mail \/ NewMail(m)
OrdersGrow == \A o \in Orders' : o \in Orders \/ NewOrder(o)

RunsNew == \A e \in Exec : run'[e] # "none" => run[e] # "none" \/ Ordered("JOB_START", e)
Knows(e, kind) == \E m \in Answers : m.exec = e /\ m.kind = kind
Learns ==
    \A e \in Exec, kind \in {"result", "unconfirmed"} :
        future'[e] = kind => future[e] = kind \/ Knows(e, kind)
Acknowledges ==
    \A e \in acked' : e \in acked \/ future[e] = "result" \/ \E m \in Reports : e \in m.completed

\* The bounds are kept.
LEMMA BoundTypes ==
    ASSUME TypeOK, [Next]_vars
    PROVE  BoundsOK'
<1> /\ faults \in 0..MaxFaults /\ early \in 0..MaxEarly
    /\ MaxFaults \in Nat /\ MaxEarly \in Nat
  BY BoundAssumption DEF TypeOK
<1>1. CASE Retry \/ StartTask \/ Reserve
  BY <1>1 DEF Retry, InTime, StartTask, Reserve, BoundsOK
<1>2. CASE RequestCancel \/ LookForHandle \/ JoinTask
  BY <1>2 DEF RequestCancel, LookForHandle, JoinTask, Cancelled, BoundsOK
<1>3. CASE Pause \/ Resume
  BY <1>3 DEF Pause, Resume, BoundsOK
<1>4. ASSUME NEW e \in Exec, TaskStep(e) PROVE BoundsOK'
  <2>1. CASE SendStart(e) \/ Bind(e) \/ StopTurn(e) \/ RecordHostWait(e) \/ AckResult(e)
     \/ CancelledMove(e)
    BY <2>1 DEF SendStart, InTime, EnterHostWait, Ended, Bind, StopTurn, RecordHostWait,
       AckResult, Acknowledge, CancelledMove, Taking, Cancelled, Received, BoundsOK
  <2>2. CASE PendingMove(e) \/ YieldMove(e) \/ LossMove(e) \/ EndMove(e) \/ TurnMove(e)
     \/ LeftMove(e)
    BY <2>2 DEF PendingMove, Taking, Ended, Received, YieldMove, LossMove, EndMove,
       TurnMove, LeftMove, BoundsOK
  <2>3. QED
    BY <1>4, ResultMoves, <2>1, <2>2 DEF TaskStep, ResultStep
<1>5. ASSUME NEW c \in Canceller, CancelStep(c) PROVE BoundsOK'
  BY <1>5 DEF CancelStep, SendCancel, CancelPending, ConfirmCancel, Cancelled,
     AckCancelled, Acknowledge, BoundsOK
<1>6. ASSUME NEW m \in Report, SnapshotStep(m) PROVE BoundsOK'
  BY <1>6 DEF SnapshotStep, AdoptMove, Handled, Adopt, AbsenceMove, ConfirmAbsence,
     TakeUpMove, AdoptCancel, PassMove, BoundsOK
<1>7. CASE AdoptBind \/ HandleResult
  BY <1>7 DEF AdoptBind, Detached, Lost, HandleResult, BoundsOK
<1>8. ASSUME NEW e \in Exec, RunnerStep(e) \/ CodexEnds(e) \/ LearnSession(e)
      PROVE  BoundsOK'
  BY <1>8 DEF RunnerStep, RunnerReserves, RunnerSpawns, RunnerCancels, RunnerForgets,
     CodexEnds, LearnSession, BoundsOK
<1>9. CASE Heartbeat \/ Connect \/ Drop \/ Replace
  <2>1. CASE Heartbeat
    BY <2>1 DEF Heartbeat, BoundsOK
  <2>2. CASE Connect
    BY <2>2 DEF Connect, InTime, BoundsOK
  <2>3. CASE Drop \/ Replace
    BY <2>3 DEF Drop, Detached, Lost, Replace, InTime, BoundsOK
  <2>4. QED
    BY <1>9, <2>1, <2>2, <2>3
<1>10. CASE Crash \/ Shutdown \/ Restart \/ UNCHANGED vars
  BY <1>10 DEF Crash, Halted, Shutdown, Restart, vars, BoundsOK
<1>11. QED
  BY <1>1, <1>2, <1>3, <1>4, <1>5, <1>6, <1>7, <1>8, <1>9, <1>10, SnapshotMoves DEF
     Next, ControllerStep, Receive

\* Types of the Job's state and of the flags.
LEMMA FlagTypes ==
    ASSUME TypeOK, [Next]_vars
    PROVE  FlagsOK'
<1> /\ state \in Active \cup Terminal \cup {"WAITING_HOST", "PAUSED", "CANCELLING"}
    /\ rec \in Recovery /\ ledger \in [Exec -> LedgerState] /\ handle \in Exec \cup {NoExec}
    /\ future \in [Exec -> Future] /\ task \in [Exec -> Turn]
    /\ canceller \in [Canceller -> Cancellation] /\ adopting \in Exec \cup {NoExec}
    /\ run \in [Exec -> ExecState] /\ acked \subseteq Exec /\ bound \subseteq Exec
  BY DEF TypeOK
<1>1. CASE Retry \/ StartTask \/ Reserve
  BY <1>1 DEF Retry, InTime, StartTask, Reserve, FlagsOK, TypeOK, Active, Terminal
<1>2. CASE RequestCancel \/ LookForHandle \/ JoinTask
  BY <1>2 DEF RequestCancel, LookForHandle, JoinTask, Cancelled, FlagsOK, TypeOK,
     Active, Terminal
<1>3. CASE Pause \/ Resume
  BY <1>3 DEF Pause, Resume, FlagsOK, TypeOK, Active, Terminal
<1>4. ASSUME NEW e \in Exec, TaskStep(e) PROVE FlagsOK'
  <2>1. CASE SendStart(e) \/ Bind(e) \/ StopTurn(e) \/ RecordHostWait(e) \/ AckResult(e)
     \/ CancelledMove(e)
    BY <2>1 DEF SendStart, InTime, EnterHostWait, Ended, Bind, StopTurn, RecordHostWait,
       AckResult, Acknowledge, CancelledMove, Taking, Cancelled, Received, FlagsOK,
       TypeOK, Active, Terminal
  <2>2. CASE PendingMove(e) \/ YieldMove(e) \/ LossMove(e)
    BY <2>2 DEF PendingMove, Taking, Ended, Received, YieldMove, LossMove, FlagsOK,
       TypeOK, Active, Terminal
  <2>3. CASE EndMove(e)
    BY <2>3 DEF EndMove, Taking, Received, FlagsOK, TypeOK, Active, Terminal
  <2>4. CASE TurnMove(e)
    BY <2>4 DEF TurnMove, Taking, Received, FlagsOK, TypeOK, Active, Terminal
  <2>5. CASE LeftMove(e)
    BY <2>5 DEF LeftMove, Taking, Received, FlagsOK, TypeOK, Active, Terminal
  <2>6. QED
    BY <1>4, ResultMoves, <2>1, <2>2, <2>3, <2>4, <2>5 DEF TaskStep, ResultStep
<1>5. ASSUME NEW c \in Canceller, CancelStep(c) PROVE FlagsOK'
  BY <1>5 DEF CancelStep, SendCancel, CancelPending, ConfirmCancel, Cancelled,
     AckCancelled, Acknowledge, FlagsOK, TypeOK, Active, Terminal
<1>6. ASSUME NEW m \in Report, SnapshotStep(m) PROVE FlagsOK'
  <2>1. CASE AdoptMove(m)
    BY <2>1 DEF AdoptMove, Handled, Adopt, FlagsOK, TypeOK, Active, Terminal
  <2>2. CASE AbsenceMove(m)
    BY <2>2, LookedTypes DEF AbsenceMove, Handled, FlagsOK, TypeOK, Active, Terminal
  <2>3. CASE TakeUpMove(m)
    BY <2>3, LookedTypes DEF TakeUpMove, Handled, FlagsOK, TypeOK, Active, Terminal
  <2>4. CASE PassMove(m)
    BY <2>4, LookedTypes DEF PassMove, Handled, FlagsOK, TypeOK, Active, Terminal
  <2>5. QED
    BY <1>6, <2>1, <2>2, <2>3, <2>4 DEF SnapshotStep
<1>7. CASE AdoptBind \/ HandleResult
  <2>1. CASE AdoptBind
    BY <2>1 DEF AdoptBind, Detached, Lost, FlagsOK, TypeOK, Active, Terminal
  <2>2. CASE HandleResult
    BY <2>2 DEF HandleResult, FlagsOK, TypeOK, Active, Terminal
  <2>3. QED
    BY <1>7, <2>1, <2>2
<1>8. ASSUME NEW e \in Exec, RunnerStep(e) \/ CodexEnds(e) \/ LearnSession(e)
      PROVE  FlagsOK'
  <2>1. CASE RunnerReserves(e) \/ RunnerSpawns(e) \/ RunnerCancels(e)
    BY <2>1 DEF RunnerReserves, RunnerSpawns, RunnerCancels, FlagsOK, TypeOK, Active,
       Terminal
  <2>2. CASE RunnerForgets(e) \/ CodexEnds(e)
    BY <2>2 DEF RunnerForgets, CodexEnds, FlagsOK, TypeOK, Active, Terminal
  <2>3. CASE LearnSession(e)
    BY <2>3 DEF LearnSession, FlagsOK, TypeOK, Active, Terminal
  <2>4. QED
    BY <1>8, <2>1, <2>2, <2>3 DEF RunnerStep
<1>9. CASE Heartbeat \/ Connect \/ Drop \/ Replace
  <2>1. CASE Heartbeat
    BY <2>1 DEF Heartbeat, FlagsOK, TypeOK, Active, Terminal
  <2>2. CASE Connect
    BY <2>2 DEF Connect, InTime, FlagsOK, TypeOK, Active, Terminal
  <2>3. CASE Drop
    BY <2>3 DEF Drop, Detached, Lost, FlagsOK, TypeOK, Active, Terminal
  <2>4. CASE Replace
    BY <2>4 DEF Replace, InTime, FlagsOK, TypeOK, Active, Terminal
  <2>5. QED
    BY <1>9, <2>1, <2>2, <2>3, <2>4
<1>10. CASE Crash \/ Shutdown \/ Restart \/ UNCHANGED vars
  <2>1. CASE Crash \/ Shutdown
    BY <2>1 DEF Crash, Halted, Shutdown, FlagsOK, TypeOK, Active, Terminal
  <2>2. CASE Restart
    BY <2>2 DEF Restart, FlagsOK, TypeOK, Active, Terminal
  <2>3. CASE UNCHANGED vars
    BY <2>3 DEF vars, FlagsOK, TypeOK, Active, Terminal
  <2>4. QED
    BY <1>10, <2>1, <2>2, <2>3
<1>11. QED
  BY <1>1, <1>2, <1>3, <1>4, <1>5, <1>6, <1>7, <1>8, <1>9, <1>10, SnapshotMoves DEF
     Next, ControllerStep, Receive

\* Types of what names executions.
LEMMA PlaceTypes ==
    ASSUME TypeOK, ControlInv, [Next]_vars
    PROVE  PlacesOK'
<1> /\ state \in Active \cup Terminal \cup {"WAITING_HOST", "PAUSED", "CANCELLING"}
    /\ rec \in Recovery /\ ledger \in [Exec -> LedgerState] /\ handle \in Exec \cup {NoExec}
    /\ future \in [Exec -> Future] /\ task \in [Exec -> Turn]
    /\ canceller \in [Canceller -> Cancellation] /\ adopting \in Exec \cup {NoExec}
    /\ run \in [Exec -> ExecState] /\ acked \subseteq Exec /\ bound \subseteq Exec
  BY DEF TypeOK
<1> \A c \in Canceller : canceller[c].at \in {"send", "sent", "ack"} => canceller[c].exec \in Exec
  BY DEF ControlInv, CancelInv
<1>1. CASE Retry \/ StartTask \/ Reserve
  BY <1>1 DEF Retry, InTime, StartTask, Reserve, PlacesOK
<1>2. CASE RequestCancel \/ LookForHandle \/ JoinTask
  BY <1>2 DEF RequestCancel, LookForHandle, JoinTask, Cancelled, PlacesOK
<1>3. CASE Pause \/ Resume
  BY <1>3 DEF Pause, Resume, PlacesOK
<1>4. ASSUME NEW e \in Exec, TaskStep(e) PROVE PlacesOK'
  BY <1>4, ResultMoves DEF TaskStep, ResultStep, SendStart, InTime, EnterHostWait,
     Ended, Bind, StopTurn, RecordHostWait, AckResult, Acknowledge, CancelledMove,
     Taking, Cancelled, Received, PendingMove, YieldMove, LossMove, EndMove, TurnMove,
     LeftMove, PlacesOK
<1>5. ASSUME NEW c \in Canceller, CancelStep(c) PROVE PlacesOK'
  BY <1>5 DEF CancelStep, SendCancel, CancelPending, ConfirmCancel, Cancelled,
     AckCancelled, Acknowledge, PlacesOK
<1>6. ASSUME NEW m \in Report, SnapshotStep(m) PROVE PlacesOK'
  <2>1. CASE AdoptMove(m)
    BY <2>1, AdopteeIn, LookedTypes DEF AdoptMove, Handled, Adopts, Adopt, PlacesOK, Over, OpenRows
  <2>2. CASE AbsenceMove(m)
    BY <2>2, LookedTypes DEF AbsenceMove, Handled, ConfirmAbsence, PlacesOK, Over, OpenRows
  <2>3. CASE TakeUpMove(m)
    BY <2>3, AdopteeIn, LookedTypes DEF TakeUpMove, Handled, TakesUp, AdoptCancel, PlacesOK, Over, OpenRows
  <2>4. CASE PassMove(m)
    BY <2>4, LookedTypes DEF PassMove, Handled, Looked, PlacesOK, Over, OpenRows
  <2>5. QED
    BY <1>6, <2>1, <2>2, <2>3, <2>4 DEF SnapshotStep
<1>7. CASE AdoptBind \/ HandleResult
  BY <1>7 DEF AdoptBind, Detached, Lost, HandleResult, PlacesOK
<1>8. ASSUME NEW e \in Exec, RunnerStep(e) \/ CodexEnds(e) \/ LearnSession(e)
      PROVE  PlacesOK'
  BY <1>8 DEF RunnerStep, RunnerReserves, RunnerSpawns, RunnerCancels, RunnerForgets,
     CodexEnds, LearnSession, PlacesOK
<1>9. CASE Heartbeat \/ Connect \/ Drop \/ Replace
  BY <1>9 DEF Heartbeat, Connect, InTime, Drop, Detached, Lost, Replace, PlacesOK
<1>10. CASE Crash \/ Shutdown \/ Restart \/ UNCHANGED vars
  BY <1>10 DEF Crash, Halted, Shutdown, Restart, vars, PlacesOK
<1>11. QED
  BY <1>1, <1>2, <1>3, <1>4, <1>5, <1>6, <1>7, <1>8, <1>9, <1>10, SnapshotMoves DEF
     Next, ControllerStep, Receive

\* Types of the recovery record.
LEMMA RecordTypes ==
    ASSUME TypeOK, ControlInv, [Next]_vars
    PROVE  rec' \in Recovery
<1> /\ state \in Active \cup Terminal \cup {"WAITING_HOST", "PAUSED", "CANCELLING"}
    /\ rec \in Recovery /\ ledger \in [Exec -> LedgerState] /\ handle \in Exec \cup {NoExec}
    /\ future \in [Exec -> Future] /\ task \in [Exec -> Turn]
    /\ canceller \in [Canceller -> Cancellation] /\ adopting \in Exec \cup {NoExec}
    /\ run \in [Exec -> ExecState] /\ acked \subseteq Exec /\ bound \subseteq Exec
  BY DEF TypeOK
<1> \A c \in Canceller : canceller[c].at \in {"send", "sent", "ack"} => canceller[c].exec \in Exec
  BY DEF ControlInv, CancelInv
<1>1. CASE Retry \/ StartTask \/ Reserve
  BY <1>1 DEF Retry, InTime, StartTask, Reserve, Recovery, NoRec
<1>2. CASE RequestCancel \/ LookForHandle \/ JoinTask
  BY <1>2 DEF RequestCancel, LookForHandle, JoinTask, Cancelled, Recovery, NoRec
<1>3. CASE Pause \/ Resume
  BY <1>3 DEF Pause, Resume, Recovery, NoRec
<1>4. ASSUME NEW e \in Exec, TaskStep(e) PROVE rec' \in Recovery
  <2>1. CASE SendStart(e) \/ Bind(e) \/ StopTurn(e) \/ RecordHostWait(e) \/ AckResult(e)
     \/ CancelledMove(e)
    BY <2>1 DEF SendStart, InTime, EnterHostWait, Ended, Bind, StopTurn, RecordHostWait,
       AckResult, Acknowledge, CancelledMove, Taking, Cancelled, Received, Recovery,
       NoRec
  <2>2. CASE PendingMove(e) \/ YieldMove(e) \/ LossMove(e)
    BY <2>2 DEF PendingMove, Taking, Ended, Received, YieldMove, LossMove, Recovery,
       NoRec
  <2>3. CASE EndMove(e) \/ TurnMove(e) \/ LeftMove(e)
    BY <2>3 DEF EndMove, Taking, Received, TurnMove, LeftMove, Recovery, NoRec
  <2>4. QED
    BY <1>4, ResultMoves, <2>1, <2>2, <2>3 DEF TaskStep, ResultStep
<1>5. ASSUME NEW c \in Canceller, CancelStep(c) PROVE rec' \in Recovery
  BY <1>5 DEF CancelStep, SendCancel, CancelPending, ConfirmCancel, Cancelled,
     AckCancelled, Acknowledge, Recovery, NoRec
<1>6. ASSUME NEW m \in Report, SnapshotStep(m) PROVE rec' \in Recovery
  <2>1. CASE AdoptMove(m)
    BY <2>1, AdopteeIn DEF AdoptMove, Adopts, Adopt, Recovery, Recovery
  <2>2. CASE AbsenceMove(m)
    BY <2>2 DEF AbsenceMove, ConfirmAbsence, Recovery
  <2>3. CASE TakeUpMove(m)
    BY <2>3, AdopteeIn DEF TakeUpMove, TakesUp, AdoptCancel, Recovery
  <2>4. CASE PassMove(m)
    BY <2>4 DEF PassMove, Looked, Recovery
  <2>5. QED
    BY <1>6, <2>1, <2>2, <2>3, <2>4 DEF SnapshotStep
<1>7. CASE AdoptBind \/ HandleResult
  BY <1>7 DEF AdoptBind, Detached, Lost, HandleResult, Recovery, NoRec
<1>8. ASSUME NEW e \in Exec, RunnerStep(e) \/ CodexEnds(e) \/ LearnSession(e)
      PROVE  rec' \in Recovery
  BY <1>8 DEF RunnerStep, RunnerReserves, RunnerSpawns, RunnerCancels, RunnerForgets,
     CodexEnds, LearnSession, Recovery, NoRec
<1>9. CASE Heartbeat \/ Connect \/ Drop \/ Replace
  BY <1>9 DEF Heartbeat, Connect, InTime, Drop, Detached, Lost, Replace, Recovery, NoRec
<1>10. CASE Crash \/ Shutdown \/ Restart \/ UNCHANGED vars
  BY <1>10 DEF Crash, Halted, Shutdown, Restart, vars, Recovery, NoRec
<1>11. QED
  BY <1>1, <1>2, <1>3, <1>4, <1>5, <1>6, <1>7, <1>8, <1>9, <1>10, SnapshotMoves DEF
     Next, ControllerStep, Receive

\* Types of the ledger, of the futures and of the Runner's executions.
LEMMA MapTypes ==
    ASSUME TypeOK, ControlInv, [Next]_vars
    PROVE  MapsOK'
<1> /\ state \in Active \cup Terminal \cup {"WAITING_HOST", "PAUSED", "CANCELLING"}
    /\ rec \in Recovery /\ ledger \in [Exec -> LedgerState] /\ handle \in Exec \cup {NoExec}
    /\ future \in [Exec -> Future] /\ task \in [Exec -> Turn]
    /\ canceller \in [Canceller -> Cancellation] /\ adopting \in Exec \cup {NoExec}
    /\ run \in [Exec -> ExecState] /\ acked \subseteq Exec /\ bound \subseteq Exec
  BY DEF TypeOK
<1> \A c \in Canceller : canceller[c].at \in {"send", "sent", "ack"} => canceller[c].exec \in Exec
  BY DEF ControlInv, CancelInv
<1>1. CASE Retry \/ StartTask \/ Reserve
  BY <1>1 DEF Retry, InTime, StartTask, Reserve, MapsOK, LedgerState, Future, ExecState
<1>2. CASE RequestCancel \/ LookForHandle \/ JoinTask
  BY <1>2 DEF RequestCancel, LookForHandle, JoinTask, Cancelled, MapsOK, LedgerState,
     Future, ExecState
<1>3. CASE Pause \/ Resume
  BY <1>3 DEF Pause, Resume, MapsOK, LedgerState, Future, ExecState
<1>4. ASSUME NEW e \in Exec, TaskStep(e) PROVE MapsOK'
  BY <1>4, ResultMoves DEF TaskStep, ResultStep, SendStart, InTime, EnterHostWait,
     Ended, CanSend, Bind, StopTurn, RecordHostWait, AckResult, Acknowledge,
     CancelledMove, Taking, Cancelled, Received, PendingMove, YieldMove, LossMove,
     EndMove, TurnMove, LeftMove, MapsOK, LedgerState, Future, ExecState
<1>5. ASSUME NEW c \in Canceller, CancelStep(c) PROVE MapsOK'
  BY <1>5 DEF CancelStep, SendCancel, CancelPending, ConfirmCancel, Cancelled,
     AckCancelled, Acknowledge, MapsOK, LedgerState, Future, ExecState
<1>6. ASSUME NEW m \in Report, SnapshotStep(m) PROVE MapsOK'
  BY <1>6 DEF SnapshotStep, AdoptMove, Handled, Adopt, AbsenceMove, ConfirmAbsence,
     TakeUpMove, AdoptCancel, PassMove, MapsOK, LedgerState, Future, ExecState
<1>7. CASE AdoptBind \/ HandleResult
  <2>1. CASE AdoptBind
    BY <2>1 DEF AdoptBind, Detached, Lost, MapsOK, LedgerState, Future, ExecState
  <2>2. CASE HandleResult
    <3> DEFINE m == Head(toController)
    <3>1. /\ ledger' = ledger /\ run' = run
          /\ toController # <<>> /\ toController' = Tail(toController) /\ m.type = "JOB_RESULT"
          /\ future' = [future EXCEPT ![m.exec] = IF @ = "open" THEN m.kind ELSE @]
      BY <2>2 DEF HandleResult
    <3>2. m \in Report \cup Answer
      BY <3>1, MailSteps
    <3>3. m.exec \in Exec /\ m.kind \in Future
      BY <3>1, <3>2 DEF Report, Answer, Future
    <3> HIDE DEF m
    <3>4. QED
      BY <3>1, <3>3 DEF MapsOK
  <2>3. QED
    BY <1>7, <2>1, <2>2
<1>8. ASSUME NEW e \in Exec, RunnerStep(e) \/ CodexEnds(e) \/ LearnSession(e)
      PROVE  MapsOK'
  BY <1>8 DEF RunnerStep, RunnerReserves, RunnerSpawns, RunnerCancels, RunnerForgets,
     CodexEnds, LearnSession, MapsOK, LedgerState, Future, ExecState
<1>9. CASE Heartbeat \/ Connect \/ Drop \/ Replace
  <2>1. CASE Heartbeat \/ Connect
    BY <2>1 DEF Heartbeat, Connect, InTime, MapsOK, LedgerState, Future, ExecState
  <2>2. CASE Drop \/ Replace
    BY <2>2 DEF Drop, Detached, Lost, Replace, InTime, MapsOK, LedgerState, Future,
       ExecState
  <2>3. QED
    BY <1>9, <2>1, <2>2
<1>10. CASE Crash \/ Shutdown \/ Restart \/ UNCHANGED vars
  BY <1>10 DEF Crash, Halted, Shutdown, Restart, vars, MapsOK, LedgerState, Future,
     ExecState
<1>11. QED
  BY <1>1, <1>2, <1>3, <1>4, <1>5, <1>6, <1>7, <1>8, <1>9, <1>10, SnapshotMoves DEF
     Next, ControllerStep, Receive

\* Types of the tasks.
LEMMA TaskTypes ==
    ASSUME TypeOK, ControlInv, [Next]_vars
    PROVE  task' \in [Exec -> Turn]
<1> /\ state \in Active \cup Terminal \cup {"WAITING_HOST", "PAUSED", "CANCELLING"}
    /\ rec \in Recovery /\ ledger \in [Exec -> LedgerState] /\ handle \in Exec \cup {NoExec}
    /\ future \in [Exec -> Future] /\ task \in [Exec -> Turn]
    /\ canceller \in [Canceller -> Cancellation] /\ adopting \in Exec \cup {NoExec}
    /\ run \in [Exec -> ExecState] /\ acked \subseteq Exec /\ bound \subseteq Exec
  BY DEF TypeOK
<1> \A c \in Canceller : canceller[c].at \in {"send", "sent", "ack"} => canceller[c].exec \in Exec
  BY DEF ControlInv, CancelInv
<1>1. CASE Retry \/ StartTask \/ Reserve
  BY <1>1 DEF Retry, InTime, StartTask, Reserve, Turn, NoTask
<1>2. CASE RequestCancel \/ LookForHandle \/ JoinTask
  BY <1>2 DEF RequestCancel, LookForHandle, JoinTask, Cancelled, Turn, NoTask
<1>3. CASE Pause \/ Resume
  BY <1>3 DEF Pause, Resume, Turn, NoTask
<1>4. ASSUME NEW e \in Exec, TaskStep(e) PROVE task' \in [Exec -> Turn]
  <2>1. CASE SendStart(e) \/ Bind(e) \/ StopTurn(e) \/ RecordHostWait(e) \/ AckResult(e)
     \/ CancelledMove(e)
    BY <2>1 DEF SendStart, InTime, EnterHostWait, Ended, Bind, StopTurn, RecordHostWait,
       AckResult, Acknowledge, CancelledMove, Taking, Cancelled, Received, Turn, NoTask
  <2>2. CASE PendingMove(e) \/ YieldMove(e) \/ LossMove(e)
    BY <2>2 DEF PendingMove, Taking, Ended, Received, YieldMove, LossMove, Turn, NoTask
  <2>3. CASE EndMove(e)
    BY <2>3 DEF EndMove, Taking, Received, Turn, NoTask
  <2>4. CASE TurnMove(e)
    BY <2>4 DEF TurnMove, Taking, Received, Turn, NoTask
  <2>5. CASE LeftMove(e)
    BY <2>5 DEF LeftMove, Taking, Received, Turn, NoTask
  <2>6. QED
    BY <1>4, ResultMoves, <2>1, <2>2, <2>3, <2>4, <2>5 DEF TaskStep, ResultStep
<1>5. ASSUME NEW c \in Canceller, CancelStep(c) PROVE task' \in [Exec -> Turn]
  BY <1>5 DEF CancelStep, SendCancel, CancelPending, ConfirmCancel, Cancelled,
     AckCancelled, Acknowledge, Turn, NoTask
<1>6. ASSUME NEW m \in Report, SnapshotStep(m) PROVE task' \in [Exec -> Turn]
  BY <1>6 DEF SnapshotStep, AdoptMove, Handled, Adopt, AbsenceMove, ConfirmAbsence,
     TakeUpMove, AdoptCancel, PassMove, Turn, NoTask
<1>7. CASE AdoptBind \/ HandleResult
  BY <1>7 DEF AdoptBind, Detached, Lost, HandleResult, Turn, NoTask
<1>8. ASSUME NEW e \in Exec, RunnerStep(e) \/ CodexEnds(e) \/ LearnSession(e)
      PROVE  task' \in [Exec -> Turn]
  BY <1>8 DEF RunnerStep, RunnerReserves, RunnerSpawns, RunnerCancels, RunnerForgets,
     CodexEnds, LearnSession, Turn, NoTask
<1>9. CASE Heartbeat \/ Connect \/ Drop \/ Replace
  BY <1>9 DEF Heartbeat, Connect, InTime, Drop, Detached, Lost, Replace, Turn, NoTask
<1>10. CASE Crash \/ Shutdown \/ Restart \/ UNCHANGED vars
  BY <1>10 DEF Crash, Halted, Shutdown, Restart, vars, Turn, NoTask
<1>11. QED
  BY <1>1, <1>2, <1>3, <1>4, <1>5, <1>6, <1>7, <1>8, <1>9, <1>10, SnapshotMoves DEF
     Next, ControllerStep, Receive

\* Types of the cancellations.
LEMMA CancelTypes ==
    ASSUME TypeOK, ControlInv, [Next]_vars
    PROVE  canceller' \in [Canceller -> Cancellation]
<1> /\ state \in Active \cup Terminal \cup {"WAITING_HOST", "PAUSED", "CANCELLING"}
    /\ rec \in Recovery /\ ledger \in [Exec -> LedgerState] /\ handle \in Exec \cup {NoExec}
    /\ future \in [Exec -> Future] /\ task \in [Exec -> Turn]
    /\ canceller \in [Canceller -> Cancellation] /\ adopting \in Exec \cup {NoExec}
    /\ run \in [Exec -> ExecState] /\ acked \subseteq Exec /\ bound \subseteq Exec
  BY DEF TypeOK
<1> \A c \in Canceller : canceller[c].at \in {"send", "sent", "ack"} => canceller[c].exec \in Exec
  BY DEF ControlInv, CancelInv
<1>1. CASE Retry \/ StartTask \/ Reserve
  BY <1>1 DEF Retry, InTime, StartTask, Reserve, Cancellation, Idle, Canceller
<1>2. CASE RequestCancel \/ LookForHandle \/ JoinTask
  BY <1>2 DEF RequestCancel, LookForHandle, JoinTask, Cancelled, Cancellation, Idle,
     Canceller
<1>3. CASE Pause \/ Resume
  BY <1>3 DEF Pause, Resume, Cancellation, Idle, Canceller
<1>4. ASSUME NEW e \in Exec, TaskStep(e)
      PROVE  canceller' \in [Canceller -> Cancellation]
  BY <1>4, ResultMoves DEF TaskStep, ResultStep, SendStart, InTime, EnterHostWait,
     Ended, Bind, StopTurn, RecordHostWait, AckResult, Acknowledge, CancelledMove,
     Taking, Cancelled, Received, PendingMove, YieldMove, LossMove, EndMove, TurnMove,
     LeftMove, Cancellation, Idle, Canceller
<1>5. ASSUME NEW c \in Canceller, CancelStep(c)
      PROVE  canceller' \in [Canceller -> Cancellation]
  BY <1>5 DEF CancelStep, SendCancel, CancelPending, ConfirmCancel, Cancelled,
     AckCancelled, Acknowledge, Cancellation, Idle, Canceller
<1>6. ASSUME NEW m \in Report, SnapshotStep(m)
      PROVE  canceller' \in [Canceller -> Cancellation]
  BY <1>6, AdopteeIn DEF SnapshotStep, AdoptMove, Handled, Adopt, AbsenceMove,
     ConfirmAbsence, TakeUpMove, AdoptCancel, PassMove, Cancellation, Idle, Canceller
<1>7. CASE AdoptBind \/ HandleResult
  BY <1>7 DEF AdoptBind, Detached, Lost, HandleResult, Cancellation, Idle, Canceller
<1>8. ASSUME NEW e \in Exec, RunnerStep(e) \/ CodexEnds(e) \/ LearnSession(e)
      PROVE  canceller' \in [Canceller -> Cancellation]
  BY <1>8 DEF RunnerStep, RunnerReserves, RunnerSpawns, RunnerCancels, RunnerForgets,
     CodexEnds, LearnSession, Cancellation, Idle, Canceller
<1>9. CASE Heartbeat \/ Connect \/ Drop \/ Replace
  BY <1>9 DEF Heartbeat, Connect, InTime, Drop, Detached, Lost, Replace, Cancellation,
     Idle, Canceller
<1>10. CASE Crash \/ Shutdown \/ Restart \/ UNCHANGED vars
  BY <1>10 DEF Crash, Halted, Shutdown, Restart, vars, Cancellation, Idle, Canceller
<1>11. QED
  BY <1>1, <1>2, <1>3, <1>4, <1>5, <1>6, <1>7, <1>8, <1>9, <1>10, SnapshotMoves DEF
     Next, ControllerStep, Receive

\* Types of the commands under way.
LEMMA RunnerQueueTypes ==
    ASSUME TypeOK, ControlInv, [Next]_vars
    PROVE  toRunner' \in Seq(Order)
<1> /\ state \in Active \cup Terminal \cup {"WAITING_HOST", "PAUSED", "CANCELLING"}
    /\ rec \in Recovery /\ ledger \in [Exec -> LedgerState] /\ handle \in Exec \cup {NoExec}
    /\ future \in [Exec -> Future] /\ task \in [Exec -> Turn]
    /\ canceller \in [Canceller -> Cancellation] /\ adopting \in Exec \cup {NoExec}
    /\ run \in [Exec -> ExecState] /\ acked \subseteq Exec /\ bound \subseteq Exec
  BY DEF TypeOK
<1> \A c \in Canceller : canceller[c].at \in {"send", "sent", "ack"} => canceller[c].exec \in Exec
  BY DEF ControlInv, CancelInv
<1> \A e \in Exec : RunnerStep(e) \/ CodexEnds(e) => TRUE
  OBVIOUS
<1>1. CASE Retry \/ StartTask \/ Reserve
  BY <1>1, OrderSteps DEF Retry, InTime, StartTask, Reserve
<1>2. CASE RequestCancel \/ LookForHandle \/ JoinTask
  BY <1>2, OrderSteps DEF RequestCancel, LookForHandle, JoinTask, Cancelled
<1>3. CASE Pause \/ Resume
  BY <1>3, OrderSteps DEF Pause, Resume
<1>4. ASSUME NEW e \in Exec, TaskStep(e) PROVE toRunner' \in Seq(Order)
  BY <1>4, ResultMoves, OrderSteps DEF TaskStep, ResultStep, SendStart, InTime,
     EnterHostWait, Ended, Bind, StopTurn, RecordHostWait, AckResult, Acknowledge,
     CancelledMove, Taking, Cancelled, Received, PendingMove, YieldMove, LossMove,
     EndMove, TurnMove, LeftMove
<1>5. ASSUME NEW c \in Canceller, CancelStep(c) PROVE toRunner' \in Seq(Order)
  BY <1>5, OrderSteps DEF CancelStep, SendCancel, CancelPending, ConfirmCancel,
     Cancelled, AckCancelled, Acknowledge
<1>6. ASSUME NEW m \in Report, SnapshotStep(m) PROVE toRunner' \in Seq(Order)
  BY <1>6, OrderSteps DEF SnapshotStep, AdoptMove, Handled, Adopt, AbsenceMove,
     ConfirmAbsence, TakeUpMove, AdoptCancel, PassMove
<1>7. CASE AdoptBind \/ HandleResult
  BY <1>7, OrderSteps DEF AdoptBind, Detached, Lost, HandleResult
<1>8. ASSUME NEW e \in Exec, RunnerStep(e) \/ CodexEnds(e) \/ LearnSession(e)
      PROVE  toRunner' \in Seq(Order)
  BY <1>8, OrderSteps DEF RunnerStep, RunnerReserves, RunnerSpawns, RunnerCancels,
     RunnerForgets, CodexEnds, LearnSession
<1>9. CASE Heartbeat \/ Connect \/ Drop \/ Replace
  BY <1>9, OrderSteps DEF Heartbeat, Connect, InTime, Drop, Detached, Lost, Replace
<1>10. CASE Crash \/ Shutdown \/ Restart \/ UNCHANGED vars
  BY <1>10, OrderSteps DEF Crash, Halted, Shutdown, Restart, vars
<1>11. QED
  BY <1>1, <1>2, <1>3, <1>4, <1>5, <1>6, <1>7, <1>8, <1>9, <1>10, SnapshotMoves DEF
     Next, ControllerStep, Receive

\* Types of the answers under way.
LEMMA MailTypes ==
    ASSUME TypeOK, ControlInv, [Next]_vars
    PROVE  toController' \in Seq(Report \cup Answer)
<1> /\ state \in Active \cup Terminal \cup {"WAITING_HOST", "PAUSED", "CANCELLING"}
    /\ rec \in Recovery /\ ledger \in [Exec -> LedgerState] /\ handle \in Exec \cup {NoExec}
    /\ future \in [Exec -> Future] /\ task \in [Exec -> Turn]
    /\ canceller \in [Canceller -> Cancellation] /\ adopting \in Exec \cup {NoExec}
    /\ run \in [Exec -> ExecState] /\ acked \subseteq Exec /\ bound \subseteq Exec
  BY DEF TypeOK
<1> \A c \in Canceller : canceller[c].at \in {"send", "sent", "ack"} => canceller[c].exec \in Exec
  BY DEF ControlInv, CancelInv
<1>1. CASE Retry \/ StartTask \/ Reserve
  BY <1>1, MailSteps, Messages DEF Retry, InTime, StartTask, Reserve
<1>2. CASE RequestCancel \/ LookForHandle \/ JoinTask
  BY <1>2, MailSteps, Messages DEF RequestCancel, LookForHandle, JoinTask, Cancelled
<1>3. CASE Pause \/ Resume
  BY <1>3, MailSteps, Messages DEF Pause, Resume
<1>4. ASSUME NEW e \in Exec, TaskStep(e)
      PROVE  toController' \in Seq(Report \cup Answer)
  BY <1>4, ResultMoves, MailSteps, Messages DEF TaskStep, ResultStep, SendStart, InTime,
     EnterHostWait, Ended, Bind, StopTurn, RecordHostWait, AckResult, Acknowledge,
     CancelledMove, Taking, Cancelled, Received, PendingMove, YieldMove, LossMove,
     EndMove, TurnMove, LeftMove
<1>5. ASSUME NEW c \in Canceller, CancelStep(c)
      PROVE  toController' \in Seq(Report \cup Answer)
  BY <1>5, MailSteps, Messages DEF CancelStep, SendCancel, CancelPending, ConfirmCancel,
     Cancelled, AckCancelled, Acknowledge
<1>6. ASSUME NEW m \in Report, SnapshotStep(m)
      PROVE  toController' \in Seq(Report \cup Answer)
  BY <1>6, MailSteps, Messages DEF SnapshotStep, AdoptMove, Handled, Adopt, AbsenceMove,
     ConfirmAbsence, TakeUpMove, AdoptCancel, PassMove
<1>7. CASE AdoptBind \/ HandleResult
  BY <1>7, MailSteps, Messages DEF AdoptBind, Detached, Lost, HandleResult
<1>8. ASSUME NEW e \in Exec, RunnerStep(e) \/ CodexEnds(e) \/ LearnSession(e)
      PROVE  toController' \in Seq(Report \cup Answer)
  BY <1>8, MailSteps, Messages DEF RunnerStep, RunnerReserves, RunnerSpawns,
     RunnerCancels, RunnerForgets, CodexEnds, LearnSession
<1>9. CASE Heartbeat \/ Connect \/ Drop \/ Replace
  BY <1>9, MailSteps, Messages DEF Heartbeat, Connect, InTime, Drop, Detached, Lost,
     Replace
<1>10. CASE Crash \/ Shutdown \/ Restart \/ UNCHANGED vars
  BY <1>10, MailSteps, Messages DEF Crash, Halted, Shutdown, Restart, vars
<1>11. QED
  BY <1>1, <1>2, <1>3, <1>4, <1>5, <1>6, <1>7, <1>8, <1>9, <1>10, SnapshotMoves DEF
     Next, ControllerStep, Receive

\* Without the Controller there is no task, without a connection no message.
LEMMA DownStep ==
    ASSUME TypeOK, ControlInv, [Next]_vars
    PROVE  DownInv'
<1> /\ state \in Active \cup Terminal \cup {"WAITING_HOST", "PAUSED", "CANCELLING"}
    /\ rec \in Recovery /\ ledger \in [Exec -> LedgerState] /\ handle \in Exec \cup {NoExec}
    /\ future \in [Exec -> Future] /\ task \in [Exec -> Turn]
    /\ canceller \in [Canceller -> Cancellation] /\ adopting \in Exec \cup {NoExec}
    /\ run \in [Exec -> ExecState] /\ acked \subseteq Exec /\ bound \subseteq Exec
  BY DEF TypeOK
<1> DownInv /\ CancelInv /\ RowsInv /\ FutureInv /\ TasksInv /\ UsedInv
  BY DEF ControlInv
<1>1. CASE Retry \/ StartTask \/ Reserve
  BY <1>1 DEF Retry, InTime, StartTask, Reserve, DownInv, Idle, Canceller, NoTasks
<1>2. CASE RequestCancel \/ LookForHandle \/ JoinTask
  BY <1>2 DEF RequestCancel, LookForHandle, JoinTask, Cancelled, DownInv, Idle,
     Canceller, NoTasks
<1>3. CASE Pause \/ Resume
  BY <1>3 DEF Pause, CanSend, Send, Resume, DownInv, Idle, Canceller, NoTasks
<1>4. ASSUME NEW e \in Exec, TaskStep(e) PROVE DownInv'
  <2>1. CASE SendStart(e) \/ Bind(e) \/ StopTurn(e) \/ RecordHostWait(e) \/ AckResult(e)
     \/ CancelledMove(e)
    BY <2>1 DEF SendStart, InTime, EnterHostWait, Ended, CanSend, Send, Bind, StopTurn,
       RecordHostWait, AckResult, Acknowledge, CancelledMove, Taking, Cancelled,
       Received, DownInv, Idle, Canceller, NoTasks
  <2>2. CASE PendingMove(e) \/ YieldMove(e) \/ LossMove(e)
    BY <2>2 DEF PendingMove, Taking, Ended, Received, YieldMove, LossMove, DownInv,
       Idle, Canceller, NoTasks
  <2>3. CASE EndMove(e)
    BY <2>3 DEF EndMove, Taking, Received, DownInv, Idle, Canceller, NoTasks
  <2>4. CASE TurnMove(e)
    BY <2>4 DEF TurnMove, Taking, Received, DownInv, Idle, Canceller, NoTasks
  <2>5. CASE LeftMove(e)
    BY <2>5 DEF LeftMove, Taking, Received, DownInv, Idle, Canceller, NoTasks
  <2>6. QED
    BY <1>4, ResultMoves, <2>1, <2>2, <2>3, <2>4, <2>5 DEF TaskStep, ResultStep
<1>5. ASSUME NEW c \in Canceller, CancelStep(c) PROVE DownInv'
  BY <1>5 DEF CancelStep, SendCancel, CanSend, Send, CancelPending, ConfirmCancel,
     Cancelled, AckCancelled, Acknowledge, DownInv, Idle, Canceller, NoTasks
<1>6. ASSUME NEW m \in Report, SnapshotStep(m) PROVE DownInv'
  BY <1>6 DEF SnapshotStep, AdoptMove, Handled, Adopt, AbsenceMove, ConfirmAbsence,
     Looked, TakeUpMove, AdoptCancel, PassMove, DownInv, Idle, Canceller, NoTasks
<1>7. CASE AdoptBind \/ HandleResult
  BY <1>7 DEF AdoptBind, Detached, Lost, HandleResult, DownInv, Idle, Canceller, NoTasks
<1>8. ASSUME NEW e \in Exec, RunnerStep(e) \/ CodexEnds(e) \/ LearnSession(e)
      PROVE  DownInv'
  BY <1>8 DEF RunnerStep, RunnerReserves, Command, RunnerSpawns, Tell, RunnerCancels,
     RunnerForgets, CodexEnds, LearnSession, DownInv, Idle, Canceller, NoTasks
<1>9. CASE Heartbeat \/ Connect \/ Drop \/ Replace
  <2>1. CASE Heartbeat
    BY <2>1 DEF Heartbeat, Tell, DownInv, Idle, Canceller, NoTasks
  <2>2. CASE Connect
    BY <2>2 DEF Connect, InTime, DownInv, Idle, Canceller, NoTasks
  <2>3. CASE Drop \/ Replace
    BY <2>3 DEF Drop, Detached, Lost, Replace, InTime, DownInv, Idle, Canceller, NoTasks
  <2>4. QED
    BY <1>9, <2>1, <2>2, <2>3
<1>10. CASE Crash \/ Shutdown \/ Restart \/ UNCHANGED vars
  BY <1>10 DEF Crash, Halted, Shutdown, Restart, vars, DownInv, Idle, Canceller, NoTasks
<1>11. QED
  BY <1>1, <1>2, <1>3, <1>4, <1>5, <1>6, <1>7, <1>8, <1>9, <1>10, SnapshotMoves DEF
     Next, ControllerStep, Receive

\* Cancellations belong to a Job that is cancelled.
LEMMA CancelInvStep ==
    ASSUME TypeOK, ControlInv, [Next]_vars
    PROVE  CancelInv'
<1> /\ state \in Active \cup Terminal \cup {"WAITING_HOST", "PAUSED", "CANCELLING"}
    /\ rec \in Recovery /\ ledger \in [Exec -> LedgerState] /\ handle \in Exec \cup {NoExec}
    /\ future \in [Exec -> Future] /\ task \in [Exec -> Turn]
    /\ canceller \in [Canceller -> Cancellation] /\ adopting \in Exec \cup {NoExec}
    /\ run \in [Exec -> ExecState] /\ acked \subseteq Exec /\ bound \subseteq Exec
  BY DEF TypeOK
<1> DownInv /\ CancelInv /\ RowsInv /\ FutureInv /\ TasksInv /\ UsedInv
  BY DEF ControlInv
<1>1. CASE Retry \/ StartTask \/ Reserve
  BY <1>1 DEF Retry, InTime, StartTask, Reserve, CancelInv, Cancelling, Idle, Canceller,
     Terminal, Active
<1>2. CASE RequestCancel \/ LookForHandle \/ JoinTask
  BY <1>2 DEF RequestCancel, LookForHandle, JoinTask, Cancelled, CancelInv, Cancelling,
     Idle, Canceller, Terminal, Active
<1>3. CASE Pause \/ Resume
  BY <1>3 DEF Pause, Resume, CancelInv, Cancelling, Idle, Canceller, Terminal, Active
<1>4. ASSUME NEW e \in Exec, TaskStep(e) PROVE CancelInv'
  <2>1. CASE SendStart(e) \/ Bind(e) \/ StopTurn(e) \/ RecordHostWait(e) \/ AckResult(e)
     \/ CancelledMove(e)
    BY <2>1 DEF SendStart, InTime, EnterHostWait, Ended, Bind, StopTurn, RecordHostWait,
       AckResult, Acknowledge, CancelledMove, Taking, Cancelled, Received, CancelInv,
       Cancelling, Idle, Canceller, Terminal, Active
  <2>2. CASE PendingMove(e) \/ YieldMove(e) \/ LossMove(e) \/ EndMove(e) \/ TurnMove(e)
     \/ LeftMove(e)
    BY <2>2 DEF PendingMove, Taking, Ended, Received, YieldMove, LossMove, EndMove,
       TurnMove, LeftMove, CancelInv, Cancelling, Idle, Canceller, Terminal, Active
  <2>3. QED
    BY <1>4, ResultMoves, <2>1, <2>2 DEF TaskStep, ResultStep
<1>5. ASSUME NEW c \in Canceller, CancelStep(c) PROVE CancelInv'
  BY <1>5 DEF CancelStep, SendCancel, CancelPending, ConfirmCancel, Cancelled,
     AckCancelled, Acknowledge, CancelInv, Cancelling, Idle, Canceller, Terminal, Active
<1>6. ASSUME NEW m \in Report, SnapshotStep(m) PROVE CancelInv'
  BY <1>6, AdopteeIn DEF SnapshotStep, AdoptMove, Handled, Adopt, Adopts, AbsenceMove,
     ConfirmAbsence, Looked, TakeUpMove, AdoptCancel, TakesUp, PassMove, CancelInv,
     Cancelling, Idle, Canceller, Terminal, Active
<1>7. CASE AdoptBind \/ HandleResult
  BY <1>7 DEF AdoptBind, Detached, Lost, HandleResult, CancelInv, Cancelling, Idle,
     Canceller, Terminal, Active
<1>8. ASSUME NEW e \in Exec, RunnerStep(e) \/ CodexEnds(e) \/ LearnSession(e)
      PROVE  CancelInv'
  BY <1>8 DEF RunnerStep, RunnerReserves, RunnerSpawns, RunnerCancels, RunnerForgets,
     CodexEnds, LearnSession, CancelInv, Cancelling, Idle, Canceller, Terminal, Active
<1>9. CASE Heartbeat \/ Connect \/ Drop \/ Replace
  BY <1>9 DEF Heartbeat, Connect, InTime, Drop, Detached, Lost, Replace, CancelInv,
     Cancelling, Idle, Canceller, Terminal, Active
<1>10. CASE Crash \/ Shutdown \/ Restart \/ UNCHANGED vars
  BY <1>10 DEF Crash, Halted, Shutdown, Restart, vars, CancelInv, Cancelling, Idle,
     Canceller, Terminal, Active
<1>11. QED
  BY <1>1, <1>2, <1>3, <1>4, <1>5, <1>6, <1>7, <1>8, <1>9, <1>10, SnapshotMoves DEF
     Next, ControllerStep, Receive

\* A Job that is not over has a recovery record.
LEMMA RowsStep ==
    ASSUME TypeOK, ControlInv, [Next]_vars
    PROVE  RowsInv'
<1> /\ state \in Active \cup Terminal \cup {"WAITING_HOST", "PAUSED", "CANCELLING"}
    /\ rec \in Recovery /\ ledger \in [Exec -> LedgerState] /\ handle \in Exec \cup {NoExec}
    /\ future \in [Exec -> Future] /\ task \in [Exec -> Turn]
    /\ canceller \in [Canceller -> Cancellation] /\ adopting \in Exec \cup {NoExec}
    /\ run \in [Exec -> ExecState] /\ acked \subseteq Exec /\ bound \subseteq Exec
  BY DEF TypeOK
<1> DownInv /\ CancelInv /\ RowsInv /\ FutureInv /\ TasksInv /\ UsedInv
  BY DEF ControlInv
<1>1. CASE Retry \/ StartTask \/ Reserve
  BY <1>1 DEF Retry, InTime, StartTask, Reserve, RowsInv, CancelInv, Cancelling,
     Terminal, Active, NoRec, Idle, Canceller
<1>2. CASE RequestCancel \/ LookForHandle \/ JoinTask
  BY <1>2 DEF RequestCancel, LookForHandle, JoinTask, Cancelled, RowsInv, CancelInv,
     Cancelling, Terminal, Active, NoRec, Idle, Canceller
<1>3. CASE Pause \/ Resume
  BY <1>3 DEF Pause, Resume, RowsInv, CancelInv, Cancelling, Terminal, Active, NoRec,
     Idle, Canceller
<1>4. ASSUME NEW e \in Exec, TaskStep(e) PROVE RowsInv'
  <2>1. CASE SendStart(e) \/ StopTurn(e) \/ RecordHostWait(e) \/ AckResult(e) \/
     CancelledMove(e) \/ PendingMove(e)
    BY <2>1 DEF SendStart, InTime, EnterHostWait, Ended, StopTurn, RecordHostWait,
       AckResult, Acknowledge, CancelledMove, Taking, Cancelled, Received, PendingMove,
       RowsInv, CancelInv, Cancelling, Terminal, Active, NoRec, Idle, Canceller
  <2>2. CASE YieldMove(e) \/ LossMove(e)
    BY <2>2 DEF YieldMove, Taking, Ended, Received, LossMove, RowsInv, CancelInv,
       Cancelling, Terminal, Active, NoRec, Idle, Canceller
  <2>3. CASE EndMove(e)
    BY <2>3 DEF EndMove, Taking, Received, RowsInv, CancelInv, Cancelling, Terminal,
       Active, NoRec, Idle, Canceller
  <2>4. CASE TurnMove(e) \/ LeftMove(e)
    BY <2>4 DEF TurnMove, Taking, Received, LeftMove, RowsInv, CancelInv, Cancelling,
       Terminal, Active, NoRec, Idle, Canceller
  <2>5. CASE Bind(e)
    <3>1. /\ rec' # NoRec /\ (rec'.mode = "CANCEL" => rec.mode = "CANCEL")
          /\ state' = state \/ (state' = "RUNNING" /\ state \in {"STARTING", "RUNNING"})
      BY <2>5 DEF Bind, NoRec, Recovery
    <3>2. QED
      BY <3>1 DEF RowsInv, Cancelling
  <2>6. QED
    BY <1>4, ResultMoves, <2>1, <2>2, <2>3, <2>4, <2>5 DEF TaskStep, ResultStep
<1>5. ASSUME NEW c \in Canceller, CancelStep(c) PROVE RowsInv'
  BY <1>5 DEF CancelStep, SendCancel, CancelPending, ConfirmCancel, Cancelled,
     AckCancelled, Acknowledge, RowsInv, CancelInv, Cancelling, Terminal, Active, NoRec,
     Idle, Canceller
<1>6. ASSUME NEW m \in Report, SnapshotStep(m) PROVE RowsInv'
  BY <1>6 DEF SnapshotStep, AdoptMove, Handled, Adopt, Adopts, AbsenceMove,
     ConfirmAbsence, Looked, TakeUpMove, AdoptCancel, TakesUp, PassMove, RowsInv,
     CancelInv, Cancelling, Terminal, Active, NoRec, Idle, Canceller
<1>7. CASE AdoptBind \/ HandleResult
  BY <1>7 DEF AdoptBind, Detached, Lost, HandleResult, RowsInv, CancelInv, Cancelling,
     Terminal, Active, NoRec, Idle, Canceller
<1>8. ASSUME NEW e \in Exec, RunnerStep(e) \/ CodexEnds(e) \/ LearnSession(e)
      PROVE  RowsInv'
  BY <1>8 DEF RunnerStep, RunnerReserves, RunnerSpawns, RunnerCancels, RunnerForgets,
     CodexEnds, LearnSession, RowsInv, CancelInv, Cancelling, Terminal, Active, NoRec,
     Idle, Canceller
<1>9. CASE Heartbeat \/ Connect \/ Drop \/ Replace
  BY <1>9 DEF Heartbeat, Connect, InTime, Drop, Detached, Lost, Replace, RowsInv,
     CancelInv, Cancelling, Terminal, Active, NoRec, Idle, Canceller
<1>10. CASE Crash \/ Shutdown \/ Restart \/ UNCHANGED vars
  BY <1>10 DEF Crash, Halted, Shutdown, Restart, vars, RowsInv, CancelInv, Cancelling,
     Terminal, Active, NoRec, Idle, Canceller
<1>11. QED
  BY <1>1, <1>2, <1>3, <1>4, <1>5, <1>6, <1>7, <1>8, <1>9, <1>10, SnapshotMoves DEF
     Next, ControllerStep, Receive

\* A task that awaits an execution has its future.
LEMMA FutureStep ==
    ASSUME TypeOK, ControlInv, [Next]_vars
    PROVE  FutureInv'
<1> /\ state \in Active \cup Terminal \cup {"WAITING_HOST", "PAUSED", "CANCELLING"}
    /\ rec \in Recovery /\ ledger \in [Exec -> LedgerState] /\ handle \in Exec \cup {NoExec}
    /\ future \in [Exec -> Future] /\ task \in [Exec -> Turn]
    /\ canceller \in [Canceller -> Cancellation] /\ adopting \in Exec \cup {NoExec}
    /\ run \in [Exec -> ExecState] /\ acked \subseteq Exec /\ bound \subseteq Exec
  BY DEF TypeOK
<1> DownInv /\ CancelInv /\ RowsInv /\ FutureInv /\ TasksInv /\ UsedInv
  BY DEF ControlInv
<1>1. CASE Retry \/ StartTask \/ Reserve
  BY <1>1 DEF Retry, InTime, StartTask, Reserve, FutureInv, NoTask
<1>2. CASE RequestCancel \/ LookForHandle \/ JoinTask
  BY <1>2 DEF RequestCancel, LookForHandle, JoinTask, Cancelled, FutureInv, NoTask
<1>3. CASE Pause \/ Resume
  BY <1>3 DEF Pause, Resume, FutureInv, NoTask
<1>4. ASSUME NEW e \in Exec, TaskStep(e) PROVE FutureInv'
  <2>1. CASE Bind(e) \/ StopTurn(e) \/ RecordHostWait(e) \/ AckResult(e) \/
     CancelledMove(e) \/ PendingMove(e)
    BY <2>1 DEF Bind, StopTurn, EnterHostWait, Ended, RecordHostWait, AckResult,
       Acknowledge, CancelledMove, Taking, Cancelled, Received, PendingMove, FutureInv,
       NoTask
  <2>2. CASE YieldMove(e) \/ LossMove(e) \/ EndMove(e) \/ TurnMove(e) \/ LeftMove(e)
    BY <2>2 DEF YieldMove, Taking, Ended, Received, LossMove, EndMove, TurnMove,
       LeftMove, FutureInv, NoTask
  <2>3. CASE SendStart(e)
    <3>1. /\ adopting' = adopting
          /\ \A f \in Exec : f # e => task'[f] = task[f] /\ future'[f] = future[f]
          /\ future'[e] # future[e] => future'[e] = "open"
      BY <2>3 DEF SendStart, EnterHostWait, Ended
    <3>2. \/ task'[e].at = "bind" /\ future'[e] = "open"
          \/ task'[e].at \in {"record", "none"}
      BY <2>3 DEF SendStart, EnterHostWait, Ended, NoTask, Turn
    <3>3. QED
      BY <3>1, <3>2 DEF FutureInv
  <2>4. QED
    BY <1>4, ResultMoves, <2>1, <2>2, <2>3 DEF TaskStep, ResultStep
<1>5. ASSUME NEW c \in Canceller, CancelStep(c) PROVE FutureInv'
  BY <1>5 DEF CancelStep, SendCancel, CancelPending, ConfirmCancel, Cancelled,
     AckCancelled, Acknowledge, FutureInv, NoTask
<1>6. ASSUME NEW m \in Report, SnapshotStep(m) PROVE FutureInv'
  BY <1>6, AdopteeIn DEF SnapshotStep, AdoptMove, Handled, Adopt, Adopts, AbsenceMove,
     ConfirmAbsence, Looked, TakeUpMove, AdoptCancel, TakesUp, PassMove, FutureInv,
     NoTask
<1>7. CASE AdoptBind \/ HandleResult
  <2>1. CASE AdoptBind
    BY <2>1 DEF AdoptBind, Detached, Lost, FutureInv, NoTask
  <2>2. CASE HandleResult
    <3> DEFINE m == Head(toController)
    <3>1. /\ task' = task /\ adopting' = adopting
          /\ toController # <<>> /\ toController' = Tail(toController) /\ m.type = "JOB_RESULT"
          /\ future' = [future EXCEPT ![m.exec] = IF @ = "open" THEN m.kind ELSE @]
      BY <2>2 DEF HandleResult
    <3>2. m \in Report \cup Answer
      BY <3>1, MailSteps
    <3>3. m.exec \in Exec /\ m.kind # "none"
      BY <3>1, <3>2 DEF Report, Answer
    <3> HIDE DEF m
    <3>4. QED
      BY <3>1, <3>3 DEF FutureInv
  <2>3. QED
    BY <1>7, <2>1, <2>2
<1>8. ASSUME NEW e \in Exec, RunnerStep(e) \/ CodexEnds(e) \/ LearnSession(e)
      PROVE  FutureInv'
  BY <1>8 DEF RunnerStep, RunnerReserves, RunnerSpawns, RunnerCancels, RunnerForgets,
     CodexEnds, LearnSession, FutureInv, NoTask
<1>9. CASE Heartbeat \/ Connect \/ Drop \/ Replace
  BY <1>9 DEF Heartbeat, Connect, InTime, Drop, Detached, Lost, Replace, FutureInv,
     NoTask
<1>10. CASE Crash \/ Shutdown \/ Restart \/ UNCHANGED vars
  BY <1>10 DEF Crash, Halted, Shutdown, Restart, vars, FutureInv, NoTask
<1>11. QED
  BY <1>1, <1>2, <1>3, <1>4, <1>5, <1>6, <1>7, <1>8, <1>9, <1>10, SnapshotMoves DEF
     Next, ControllerStep, Receive

\* A task that awaits an execution has recorded its id.
LEMMA TasksStep ==
    ASSUME TypeOK, ControlInv, [Next]_vars
    PROVE  TasksInv'
<1> /\ state \in Active \cup Terminal \cup {"WAITING_HOST", "PAUSED", "CANCELLING"}
    /\ rec \in Recovery /\ ledger \in [Exec -> LedgerState] /\ handle \in Exec \cup {NoExec}
    /\ future \in [Exec -> Future] /\ task \in [Exec -> Turn]
    /\ canceller \in [Canceller -> Cancellation] /\ adopting \in Exec \cup {NoExec}
    /\ run \in [Exec -> ExecState] /\ acked \subseteq Exec /\ bound \subseteq Exec
  BY DEF TypeOK
<1> DownInv /\ CancelInv /\ RowsInv /\ FutureInv /\ TasksInv /\ UsedInv
  BY DEF ControlInv
<1>1. CASE Retry \/ StartTask \/ Reserve
  BY <1>1 DEF Retry, InTime, StartTask, Reserve, TasksInv, NoTask
<1>2. CASE RequestCancel \/ LookForHandle \/ JoinTask
  BY <1>2 DEF RequestCancel, LookForHandle, JoinTask, Cancelled, TasksInv, NoTask
<1>3. CASE Pause \/ Resume
  BY <1>3 DEF Pause, Resume, TasksInv, NoTask
<1>4. ASSUME NEW e \in Exec, TaskStep(e) PROVE TasksInv'
  <2>1. CASE Bind(e) \/ StopTurn(e) \/ RecordHostWait(e) \/ AckResult(e) \/
     CancelledMove(e) \/ PendingMove(e)
    BY <2>1 DEF Bind, StopTurn, EnterHostWait, Ended, RecordHostWait, AckResult,
       Acknowledge, CancelledMove, Taking, Cancelled, Received, PendingMove, TasksInv,
       NoTask
  <2>2. CASE YieldMove(e) \/ LossMove(e) \/ EndMove(e) \/ TurnMove(e) \/ LeftMove(e)
    BY <2>2 DEF YieldMove, Taking, Ended, Received, LossMove, EndMove, TurnMove,
       LeftMove, TasksInv, NoTask
  <2>3. CASE SendStart(e)
    <3>1. bound' = bound /\ \A f \in Exec : f # e => task'[f] = task[f]
      BY <2>3 DEF SendStart, EnterHostWait, Ended
    <3>2. task'[e].at \in {"bind", "record", "none"}
      BY <2>3 DEF SendStart, EnterHostWait, Ended, NoTask, Turn
    <3>3. QED
      BY <3>1, <3>2 DEF TasksInv
  <2>4. QED
    BY <1>4, ResultMoves, <2>1, <2>2, <2>3 DEF TaskStep, ResultStep
<1>5. ASSUME NEW c \in Canceller, CancelStep(c) PROVE TasksInv'
  BY <1>5 DEF CancelStep, SendCancel, CancelPending, ConfirmCancel, Cancelled,
     AckCancelled, Acknowledge, TasksInv, NoTask
<1>6. ASSUME NEW m \in Report, SnapshotStep(m) PROVE TasksInv'
  BY <1>6 DEF SnapshotStep, AdoptMove, Handled, Adopt, AbsenceMove, ConfirmAbsence,
     TakeUpMove, AdoptCancel, PassMove, TasksInv, NoTask
<1>7. CASE AdoptBind \/ HandleResult
  BY <1>7 DEF AdoptBind, Detached, Lost, HandleResult, TasksInv, NoTask
<1>8. ASSUME NEW e \in Exec, RunnerStep(e) \/ CodexEnds(e) \/ LearnSession(e)
      PROVE  TasksInv'
  BY <1>8 DEF RunnerStep, RunnerReserves, RunnerSpawns, RunnerCancels, RunnerForgets,
     CodexEnds, LearnSession, TasksInv, NoTask
<1>9. CASE Heartbeat \/ Connect \/ Drop \/ Replace
  BY <1>9 DEF Heartbeat, Connect, InTime, Drop, Detached, Lost, Replace, TasksInv,
     NoTask
<1>10. CASE Crash \/ Shutdown \/ Restart \/ UNCHANGED vars
  BY <1>10 DEF Crash, Halted, Shutdown, Restart, vars, TasksInv, NoTask
<1>11. QED
  BY <1>1, <1>2, <1>3, <1>4, <1>5, <1>6, <1>7, <1>8, <1>9, <1>10, SnapshotMoves DEF
     Next, ControllerStep, Receive

\* Executions are numbered as they start.
LEMMA UsedStep ==
    ASSUME TypeOK, ControlInv, FreshInv, [Next]_vars
    PROVE  UsedInv'
<1> /\ state \in Active \cup Terminal \cup {"WAITING_HOST", "PAUSED", "CANCELLING"}
    /\ rec \in Recovery /\ ledger \in [Exec -> LedgerState] /\ handle \in Exec \cup {NoExec}
    /\ future \in [Exec -> Future] /\ task \in [Exec -> Turn]
    /\ canceller \in [Canceller -> Cancellation] /\ adopting \in Exec \cup {NoExec}
    /\ run \in [Exec -> ExecState] /\ acked \subseteq Exec /\ bound \subseteq Exec
  BY DEF TypeOK
<1> DownInv /\ CancelInv /\ RowsInv /\ FutureInv /\ TasksInv /\ UsedInv
  BY DEF ControlInv
<1> \A e \in Exec : ledger[e] = "none" =>
        task[e] = NoTask /\ \A c \in Canceller : canceller[c].exec # e
  BY DEF FreshInv, Held
<1>1. CASE Retry \/ StartTask \/ Reserve
  <2>1. CASE Retry \/ StartTask
    BY <2>1 DEF Retry, InTime, StartTask, UsedInv, Used
  <2>2. CASE Reserve
    <3>1. CASE ledger' = ledger
      BY <3>1 DEF UsedInv, Used
    <3>2. ASSUME NEW e \in Exec \ Used, \A f \in Exec \ Used : e <= f,
                 ledger' = [ledger EXCEPT ![e] = "ACTIVE"]
          PROVE  UsedInv'
      <4>1. Used' = Used \cup {e}
        BY <3>2 DEF Used
      <4>2. ASSUME NEW d \in Exec, d < e PROVE d \in Used
        <5>1. d \in Nat /\ e \in Nat
          BY DEF Exec
        <5>2. ~(e <= d)
          BY <4>2, <5>1
        <5>3. QED
          BY <3>2, <5>2
      <4>3. QED
        BY <4>1, <4>2 DEF UsedInv
    <3>3. QED
      BY <2>2, <3>1, <3>2 DEF Reserve
  <2>3. QED
    BY <1>1, <2>1, <2>2
<1>2. CASE RequestCancel \/ LookForHandle \/ JoinTask
  BY <1>2 DEF RequestCancel, LookForHandle, JoinTask, Cancelled, UsedInv, Used
<1>3. CASE Pause \/ Resume
  BY <1>3 DEF Pause, Resume, UsedInv, Used
<1>4. ASSUME NEW e \in Exec, TaskStep(e) PROVE UsedInv'
  <2>1. CASE SendStart(e) \/ Bind(e) \/ StopTurn(e) \/ RecordHostWait(e) \/ AckResult(e)
     \/ CancelledMove(e)
    BY <2>1 DEF SendStart, InTime, EnterHostWait, Ended, Bind, StopTurn, RecordHostWait,
       AckResult, Acknowledge, NoTask, CancelInv, CancelledMove, Taking, Cancelled,
       Received, UsedInv, Used
  <2>2. CASE PendingMove(e) \/ YieldMove(e) \/ LossMove(e)
    BY <2>2 DEF PendingMove, Taking, Ended, Received, NoTask, YieldMove, LossMove,
       UsedInv, Used
  <2>3. CASE EndMove(e)
    BY <2>3 DEF EndMove, Taking, Received, NoTask, UsedInv, Used
  <2>4. CASE TurnMove(e)
    BY <2>4 DEF TurnMove, Taking, Received, NoTask, UsedInv, Used
  <2>5. CASE LeftMove(e)
    BY <2>5 DEF LeftMove, Taking, Received, NoTask, UsedInv, Used
  <2>6. QED
    BY <1>4, ResultMoves, <2>1, <2>2, <2>3, <2>4, <2>5 DEF TaskStep, ResultStep
<1>5. ASSUME NEW c \in Canceller, CancelStep(c) PROVE UsedInv'
  BY <1>5 DEF CancelStep, SendCancel, CancelPending, ConfirmCancel, Cancelled,
     AckCancelled, Acknowledge, NoTask, CancelInv, UsedInv, Used
<1>6. ASSUME NEW m \in Report, SnapshotStep(m) PROVE UsedInv'
  BY <1>6 DEF SnapshotStep, AdoptMove, Handled, Adopt, Closed, Over, Absent, OpenRows,
     AbsenceMove, ConfirmAbsence, TakeUpMove, AdoptCancel, PassMove, UsedInv, Used
<1>7. CASE AdoptBind \/ HandleResult
  BY <1>7 DEF AdoptBind, Detached, Lost, HandleResult, UsedInv, Used
<1>8. ASSUME NEW e \in Exec, RunnerStep(e) \/ CodexEnds(e) \/ LearnSession(e)
      PROVE  UsedInv'
  BY <1>8 DEF RunnerStep, RunnerReserves, RunnerSpawns, RunnerCancels, RunnerForgets,
     CodexEnds, LearnSession, UsedInv, Used
<1>9. CASE Heartbeat \/ Connect \/ Drop \/ Replace
  BY <1>9 DEF Heartbeat, Connect, InTime, Drop, Detached, Lost, Replace, UsedInv, Used
<1>10. CASE Crash \/ Shutdown \/ Restart \/ UNCHANGED vars
  BY <1>10 DEF Crash, Halted, Shutdown, Restart, vars, UsedInv, Used
<1>11. QED
  BY <1>1, <1>2, <1>3, <1>4, <1>5, <1>6, <1>7, <1>8, <1>9, <1>10, SnapshotMoves DEF
     Next, ControllerStep, Receive

\* Only its command lets an execution run.
LEMMA MayRunStep ==
    ASSUME TypeOK, ControlInv, [Next]_vars
    PROVE  MayNotRise
<1> /\ state \in Active \cup Terminal \cup {"WAITING_HOST", "PAUSED", "CANCELLING"}
    /\ rec \in Recovery /\ ledger \in [Exec -> LedgerState] /\ handle \in Exec \cup {NoExec}
    /\ future \in [Exec -> Future] /\ task \in [Exec -> Turn]
    /\ canceller \in [Canceller -> Cancellation] /\ adopting \in Exec \cup {NoExec}
    /\ run \in [Exec -> ExecState] /\ acked \subseteq Exec /\ bound \subseteq Exec
  BY DEF TypeOK
<1> \A c \in Canceller : canceller[c].at \in {"send", "sent", "ack"} => canceller[c].exec \in Exec
  BY DEF ControlInv, CancelInv
<1>1. CASE Retry \/ StartTask \/ Reserve
  BY <1>1, OrderSteps DEF Retry, InTime, StartTask, Reserve, MayNotRise, MayRun, Ordered
<1>2. CASE RequestCancel \/ LookForHandle \/ JoinTask
  BY <1>2, OrderSteps DEF RequestCancel, LookForHandle, JoinTask, Cancelled, MayNotRise,
     MayRun, Ordered
<1>3. CASE Pause \/ Resume
  BY <1>3, OrderSteps DEF Pause, Resume, MayNotRise, MayRun, Ordered
<1>4. ASSUME NEW e \in Exec, TaskStep(e) PROVE MayNotRise
  <2>1. CASE Bind(e) \/ StopTurn(e) \/ RecordHostWait(e) \/ AckResult(e) \/
     CancelledMove(e) \/ PendingMove(e)
    BY <2>1, OrderSteps DEF Bind, StopTurn, EnterHostWait, Ended, RecordHostWait,
       AckResult, Acknowledge, CancelledMove, Taking, Cancelled, Received, PendingMove,
       MayNotRise, MayRun, Ordered
  <2>2. CASE YieldMove(e) \/ LossMove(e) \/ EndMove(e) \/ TurnMove(e) \/ LeftMove(e)
    BY <2>2, OrderSteps DEF YieldMove, Taking, Ended, Received, LossMove, EndMove,
       TurnMove, LeftMove, MayNotRise, MayRun, Ordered
  <2>3. CASE SendStart(e)
    <3>1. \A f \in Exec : MayRun(f)' => MayRun(f) \/ (f = e /\ conn)
      BY <2>3, OrderSteps DEF SendStart, CanSend, MayRun, Ordered
    <3>2. QED
      BY <2>3, <3>1 DEF MayNotRise, Starts
  <2>4. QED
    BY <1>4, ResultMoves, <2>1, <2>2, <2>3 DEF TaskStep, ResultStep
<1>5. ASSUME NEW c \in Canceller, CancelStep(c) PROVE MayNotRise
  BY <1>5, OrderSteps DEF CancelStep, SendCancel, CancelPending, ConfirmCancel,
     Cancelled, AckCancelled, Acknowledge, MayNotRise, MayRun, Ordered
<1>6. ASSUME NEW m \in Report, SnapshotStep(m) PROVE MayNotRise
  BY <1>6, OrderSteps DEF SnapshotStep, AdoptMove, Handled, Adopt, AbsenceMove,
     ConfirmAbsence, TakeUpMove, AdoptCancel, PassMove, MayNotRise, MayRun, Ordered
<1>7. CASE AdoptBind \/ HandleResult
  BY <1>7, OrderSteps DEF AdoptBind, Detached, Lost, HandleResult, MayNotRise, MayRun,
     Ordered
<1>8. ASSUME NEW e \in Exec, RunnerStep(e) \/ CodexEnds(e) \/ LearnSession(e)
      PROVE  MayNotRise
  <2>1. CASE RunnerReserves(e)
    BY <2>1, OrderSteps DEF RunnerReserves, MayNotRise, MayRun, Ordered
  <2>2. CASE RunnerSpawns(e)
    BY <2>2, OrderSteps DEF RunnerSpawns, MayNotRise, MayRun, Ordered
  <2>3. CASE RunnerCancels(e)
    BY <2>3, OrderSteps DEF RunnerCancels, MayNotRise, MayRun, Ordered
  <2>4. CASE RunnerForgets(e)
    BY <2>4, OrderSteps DEF RunnerForgets, MayNotRise, MayRun, Ordered
  <2>5. CASE CodexEnds(e)
    BY <2>5, OrderSteps DEF CodexEnds, MayNotRise, MayRun, Ordered
  <2>6. CASE LearnSession(e)
    BY <2>6, OrderSteps DEF LearnSession, MayNotRise, MayRun, Ordered
  <2>7. QED
    BY <1>8, <2>1, <2>2, <2>3, <2>4, <2>5, <2>6 DEF RunnerStep
<1>9. CASE Heartbeat \/ Connect \/ Drop \/ Replace
  <2>1. CASE Heartbeat \/ Connect
    BY <2>1, OrderSteps DEF Heartbeat, Connect, InTime, MayNotRise, MayRun, Ordered
  <2>2. CASE Drop \/ Replace
    BY <2>2, OrderSteps DEF Drop, Detached, Lost, Replace, InTime, MayNotRise, MayRun,
       Ordered
  <2>3. QED
    BY <1>9, <2>1, <2>2
<1>10. CASE Crash \/ Shutdown \/ Restart \/ UNCHANGED vars
  BY <1>10, OrderSteps DEF Crash, Halted, Shutdown, Restart, vars, MayNotRise, MayRun,
     Ordered
<1>11. QED
  BY <1>1, <1>2, <1>3, <1>4, <1>5, <1>6, <1>7, <1>8, <1>9, <1>10, SnapshotMoves DEF
     Next, ControllerStep, Receive

\* What has ended has ended for good.
LEMMA RunsOnStep ==
    ASSUME TypeOK, [Next]_vars
    PROVE  RunsOn
<1> /\ state \in Active \cup Terminal \cup {"WAITING_HOST", "PAUSED", "CANCELLING"}
    /\ rec \in Recovery /\ ledger \in [Exec -> LedgerState] /\ handle \in Exec \cup {NoExec}
    /\ future \in [Exec -> Future] /\ task \in [Exec -> Turn]
    /\ canceller \in [Canceller -> Cancellation] /\ adopting \in Exec \cup {NoExec}
    /\ run \in [Exec -> ExecState] /\ acked \subseteq Exec /\ bound \subseteq Exec
  BY DEF TypeOK
<1>1. CASE Retry \/ StartTask \/ Reserve
  BY <1>1 DEF Retry, InTime, StartTask, Reserve, RunsOn, HasEnded
<1>2. CASE RequestCancel \/ LookForHandle \/ JoinTask
  BY <1>2 DEF RequestCancel, LookForHandle, JoinTask, Cancelled, RunsOn, HasEnded
<1>3. CASE Pause \/ Resume
  BY <1>3 DEF Pause, Resume, RunsOn, HasEnded
<1>4. ASSUME NEW e \in Exec, TaskStep(e) PROVE RunsOn
  BY <1>4, ResultMoves DEF TaskStep, ResultStep, SendStart, InTime, EnterHostWait,
     Ended, Bind, StopTurn, RecordHostWait, AckResult, Acknowledge, CancelledMove,
     Taking, Cancelled, Received, PendingMove, YieldMove, LossMove, EndMove, TurnMove,
     LeftMove, RunsOn, HasEnded
<1>5. ASSUME NEW c \in Canceller, CancelStep(c) PROVE RunsOn
  BY <1>5 DEF CancelStep, SendCancel, CancelPending, ConfirmCancel, Cancelled,
     AckCancelled, Acknowledge, RunsOn, HasEnded
<1>6. ASSUME NEW m \in Report, SnapshotStep(m) PROVE RunsOn
  BY <1>6 DEF SnapshotStep, AdoptMove, Handled, Adopt, AbsenceMove, ConfirmAbsence,
     TakeUpMove, AdoptCancel, PassMove, RunsOn, HasEnded
<1>7. CASE AdoptBind \/ HandleResult
  BY <1>7 DEF AdoptBind, Detached, Lost, HandleResult, RunsOn, HasEnded
<1>8. ASSUME NEW e \in Exec, RunnerStep(e) \/ CodexEnds(e) \/ LearnSession(e)
      PROVE  RunsOn
  BY <1>8 DEF RunnerStep, RunnerReserves, RunnerSpawns, RunnerCancels, RunnerForgets,
     CodexEnds, LearnSession, RunsOn, HasEnded
<1>9. CASE Heartbeat \/ Connect \/ Drop \/ Replace
  BY <1>9 DEF Heartbeat, Connect, InTime, Drop, Detached, Lost, Replace, RunsOn,
     HasEnded
<1>10. CASE Crash \/ Shutdown \/ Restart \/ UNCHANGED vars
  BY <1>10 DEF Crash, Halted, Shutdown, Restart, vars, RunsOn, HasEnded
<1>11. QED
  BY <1>1, <1>2, <1>3, <1>4, <1>5, <1>6, <1>7, <1>8, <1>9, <1>10, SnapshotMoves DEF
     Next, ControllerStep, Receive

\* An execution is reserved by its command.
LEMMA RunsNewStep ==
    ASSUME TypeOK, [Next]_vars
    PROVE  RunsNew
<1> /\ state \in Active \cup Terminal \cup {"WAITING_HOST", "PAUSED", "CANCELLING"}
    /\ rec \in Recovery /\ ledger \in [Exec -> LedgerState] /\ handle \in Exec \cup {NoExec}
    /\ future \in [Exec -> Future] /\ task \in [Exec -> Turn]
    /\ canceller \in [Canceller -> Cancellation] /\ adopting \in Exec \cup {NoExec}
    /\ run \in [Exec -> ExecState] /\ acked \subseteq Exec /\ bound \subseteq Exec
  BY DEF TypeOK
<1>1. CASE Retry \/ StartTask \/ Reserve
  BY <1>1, OrderSteps DEF Retry, InTime, StartTask, Reserve, RunsNew, Ordered
<1>2. CASE RequestCancel \/ LookForHandle \/ JoinTask
  BY <1>2, OrderSteps DEF RequestCancel, LookForHandle, JoinTask, Cancelled, RunsNew,
     Ordered
<1>3. CASE Pause \/ Resume
  BY <1>3, OrderSteps DEF Pause, Resume, RunsNew, Ordered
<1>4. ASSUME NEW e \in Exec, TaskStep(e) PROVE RunsNew
  BY <1>4, ResultMoves, OrderSteps DEF TaskStep, ResultStep, SendStart, InTime,
     EnterHostWait, Ended, Bind, StopTurn, RecordHostWait, AckResult, Acknowledge,
     CancelledMove, Taking, Cancelled, Received, PendingMove, YieldMove, LossMove,
     EndMove, TurnMove, LeftMove, RunsNew, Ordered
<1>5. ASSUME NEW c \in Canceller, CancelStep(c) PROVE RunsNew
  BY <1>5, OrderSteps DEF CancelStep, SendCancel, CancelPending, ConfirmCancel,
     Cancelled, AckCancelled, Acknowledge, RunsNew, Ordered
<1>6. ASSUME NEW m \in Report, SnapshotStep(m) PROVE RunsNew
  BY <1>6, OrderSteps DEF SnapshotStep, AdoptMove, Handled, Adopt, AbsenceMove,
     ConfirmAbsence, TakeUpMove, AdoptCancel, PassMove, RunsNew, Ordered
<1>7. CASE AdoptBind \/ HandleResult
  BY <1>7, OrderSteps DEF AdoptBind, Detached, Lost, HandleResult, RunsNew, Ordered
<1>8. ASSUME NEW e \in Exec, RunnerStep(e) \/ CodexEnds(e) \/ LearnSession(e)
      PROVE  RunsNew
  BY <1>8, OrderSteps DEF RunnerStep, RunnerReserves, RunnerSpawns, RunnerCancels,
     RunnerForgets, CodexEnds, LearnSession, RunsNew, Ordered
<1>9. CASE Heartbeat \/ Connect \/ Drop \/ Replace
  <2>1. CASE Heartbeat \/ Connect
    BY <2>1, OrderSteps DEF Heartbeat, Connect, InTime, RunsNew, Ordered
  <2>2. CASE Drop \/ Replace
    BY <2>2, OrderSteps DEF Drop, Detached, Lost, Replace, InTime, RunsNew, Ordered
  <2>3. QED
    BY <1>9, <2>1, <2>2
<1>10. CASE Crash \/ Shutdown \/ Restart \/ UNCHANGED vars
  BY <1>10, OrderSteps DEF Crash, Halted, Shutdown, Restart, vars, RunsNew, Ordered
<1>11. QED
  BY <1>1, <1>2, <1>3, <1>4, <1>5, <1>6, <1>7, <1>8, <1>9, <1>10, SnapshotMoves DEF
     Next, ControllerStep, Receive

\* What a message says of an execution is so, and a report is a snapshot.
LEMMA MailStep ==
    ASSUME TypeOK, ControlInv, [Next]_vars
    PROVE  MailGrows
<1> /\ state \in Active \cup Terminal \cup {"WAITING_HOST", "PAUSED", "CANCELLING"}
    /\ rec \in Recovery /\ ledger \in [Exec -> LedgerState] /\ handle \in Exec \cup {NoExec}
    /\ future \in [Exec -> Future] /\ task \in [Exec -> Turn]
    /\ canceller \in [Canceller -> Cancellation] /\ adopting \in Exec \cup {NoExec}
    /\ run \in [Exec -> ExecState] /\ acked \subseteq Exec /\ bound \subseteq Exec
  BY DEF TypeOK
<1> \A c \in Canceller : canceller[c].at \in {"send", "sent", "ack"} => canceller[c].exec \in Exec
  BY DEF ControlInv, CancelInv
<1>1. CASE Retry \/ StartTask \/ Reserve
  BY <1>1, MailSteps, Messages DEF Retry, InTime, StartTask, Reserve, MailGrows,
     NewMail, HasEnded
<1>2. CASE RequestCancel \/ LookForHandle \/ JoinTask
  BY <1>2, MailSteps, Messages DEF RequestCancel, LookForHandle, JoinTask, Cancelled,
     MailGrows, NewMail, HasEnded
<1>3. CASE Pause \/ Resume
  BY <1>3, MailSteps, Messages DEF Pause, Resume, MailGrows, NewMail, HasEnded
<1>4. ASSUME NEW e \in Exec, TaskStep(e) PROVE MailGrows
  BY <1>4, ResultMoves, MailSteps, Messages DEF TaskStep, ResultStep, SendStart, InTime,
     EnterHostWait, Ended, Bind, StopTurn, RecordHostWait, AckResult, Acknowledge,
     CancelledMove, Taking, Cancelled, Received, PendingMove, YieldMove, LossMove,
     EndMove, TurnMove, LeftMove, MailGrows, NewMail, HasEnded
<1>5. ASSUME NEW c \in Canceller, CancelStep(c) PROVE MailGrows
  BY <1>5, MailSteps, Messages DEF CancelStep, SendCancel, CancelPending, ConfirmCancel,
     Cancelled, AckCancelled, Acknowledge, MailGrows, NewMail, HasEnded
<1>6. ASSUME NEW m \in Report, SnapshotStep(m) PROVE MailGrows
  BY <1>6, MailSteps, Messages DEF SnapshotStep, AdoptMove, Handled, Adopt, AbsenceMove,
     ConfirmAbsence, TakeUpMove, AdoptCancel, PassMove, MailGrows, NewMail, HasEnded
<1>7. CASE AdoptBind \/ HandleResult
  BY <1>7, MailSteps, Messages DEF AdoptBind, Detached, Lost, HandleResult, MailGrows,
     NewMail, HasEnded
<1>8. ASSUME NEW e \in Exec, RunnerStep(e) \/ CodexEnds(e) \/ LearnSession(e)
      PROVE  MailGrows
  <2>1. CASE RunnerReserves(e)
    <3>1. Mail' = Mail
      BY <2>1, MailSteps DEF RunnerReserves
    <3>2. QED
      BY <3>1 DEF MailGrows
  <2>2. CASE RunnerSpawns(e)
    <3>1. Mail' = Mail \/ (Tell(Result(e, "result")) /\ run[e] # "none" /\ HasEnded(e)')
      BY <2>2, MailSteps DEF RunnerSpawns, HasEnded
    <3>2. Mail' \subseteq Mail \cup {Result(e, "result")}
      BY <3>1, MailSteps, Messages
    <3>3. QED
      BY <2>2, <3>1, <3>2 DEF MailGrows, NewMail
  <2>3. CASE RunnerForgets(e)
    <3>1. Mail' = Mail
      BY <2>3, MailSteps DEF RunnerForgets
    <3>2. QED
      BY <3>1 DEF MailGrows
  <2>4. CASE CodexEnds(e)
    <3>1. Mail' = Mail \/ (Tell(Result(e, "result")) /\ run[e] # "none" /\ HasEnded(e)')
      BY <2>4, MailSteps DEF CodexEnds, HasEnded
    <3>2. Mail' \subseteq Mail \cup {Result(e, "result")}
      BY <3>1, MailSteps, Messages
    <3>3. QED
      BY <2>4, <3>1, <3>2 DEF MailGrows, NewMail
  <2>5. CASE LearnSession(e)
    BY <2>5, MailSteps, Messages DEF LearnSession, MailGrows, NewMail, HasEnded
  <2>6. CASE RunnerCancels(e)
    <3> DEFINE kind == IF run[e] \in {"alive", "done"} THEN "result" ELSE "unconfirmed"
    <3>1. Tell(Result(e, kind)) /\ (kind = "result" => run[e] # "none" /\ HasEnded(e)')
          /\ (kind # "result" => kind = "unconfirmed" /\ run[e] \notin {"alive", "done"})
          /\ kind \in {"result", "unconfirmed"}
      BY <2>6 DEF RunnerCancels, HasEnded
    <3> HIDE DEF kind
    <3>2. Mail' \subseteq Mail \cup {Result(e, kind)}
      BY <3>1, MailSteps, Messages
    <3>3. QED
      BY <2>6, <3>1, <3>2 DEF MailGrows, NewMail
  <2>7. QED
    BY <1>8, <2>1, <2>2, <2>3, <2>4, <2>5, <2>6 DEF RunnerStep
<1>9. CASE Heartbeat \/ Connect \/ Drop \/ Replace
  <2>1. CASE Drop
    BY <2>1, MailSteps, Messages DEF Drop, Detached, Lost, MailGrows, NewMail, HasEnded
  <2>2. CASE Heartbeat
    <3>1. Mail' \subseteq Mail \cup {Snapshot(FALSE)}
      BY <2>2, MailSteps, Messages DEF Heartbeat
    <3>2. QED
      BY <2>2, <3>1 DEF MailGrows, NewMail
  <2>3. CASE Connect
    <3>1. \A m \in Mail' : m = Snapshot(TRUE) \/ \E e \in Completed : m = Result(e, "result")
      BY <2>3, MailSteps DEF Connect
    <3>2. run' = run
      BY <2>3 DEF Connect
    <3>3. QED
      BY <2>3, <3>1, <3>2 DEF MailGrows, NewMail, Completed, HasEnded
  <2>4. CASE Replace
    <3>1. \A m \in Mail' : m = Snapshot(TRUE) \/ \E e \in Completed : m = Result(e, "result")
      BY <2>4, MailSteps DEF Replace
    <3>2. run' = run
      BY <2>4 DEF Replace
    <3>3. QED
      BY <2>4, <3>1, <3>2 DEF MailGrows, NewMail, Completed, HasEnded
  <2>5. QED
    BY <1>9, <2>1, <2>2, <2>3, <2>4
<1>10. CASE Crash \/ Shutdown \/ Restart \/ UNCHANGED vars
  BY <1>10, MailSteps, Messages DEF Crash, Halted, Shutdown, Restart, vars, MailGrows,
     NewMail, HasEnded
<1>11. QED
  BY <1>1, <1>2, <1>3, <1>4, <1>5, <1>6, <1>7, <1>8, <1>9, <1>10, SnapshotMoves DEF
     Next, ControllerStep, Receive

\* What is commanded is a start, or concerns an execution that is known.
LEMMA OrderStep ==
    ASSUME TypeOK, ControlInv, [Next]_vars
    PROVE  OrdersGrow
<1> /\ state \in Active \cup Terminal \cup {"WAITING_HOST", "PAUSED", "CANCELLING"}
    /\ rec \in Recovery /\ ledger \in [Exec -> LedgerState] /\ handle \in Exec \cup {NoExec}
    /\ future \in [Exec -> Future] /\ task \in [Exec -> Turn]
    /\ canceller \in [Canceller -> Cancellation] /\ adopting \in Exec \cup {NoExec}
    /\ run \in [Exec -> ExecState] /\ acked \subseteq Exec /\ bound \subseteq Exec
  BY DEF TypeOK
<1> \A c \in Canceller : canceller[c].at \in {"send", "sent", "ack"} => canceller[c].exec \in Exec
  BY DEF ControlInv, CancelInv
<1> \A e \in Exec : task[e].at \in {"stop", "ack"} => future[e] # "none"
  BY DEF ControlInv, FutureInv
<1>1. CASE Retry \/ StartTask \/ Reserve
  BY <1>1, OrderSteps DEF Retry, InTime, StartTask, Reserve, OrdersGrow, NewOrder, Held
<1>2. CASE RequestCancel \/ LookForHandle \/ JoinTask
  BY <1>2, OrderSteps DEF RequestCancel, LookForHandle, JoinTask, Cancelled, OrdersGrow,
     NewOrder, Held
<1>3. CASE Pause \/ Resume
  BY <1>3, OrderSteps DEF Pause, Resume, OrdersGrow, NewOrder, Held
<1>4. ASSUME NEW e \in Exec, TaskStep(e) PROVE OrdersGrow
  <2>1. CASE Bind(e) \/ StopTurn(e) \/ RecordHostWait(e) \/ AckResult(e) \/
     CancelledMove(e) \/ PendingMove(e)
    BY <2>1, OrderSteps DEF Bind, StopTurn, EnterHostWait, Ended, RecordHostWait,
       AckResult, Acknowledge, CancelledMove, Taking, Cancelled, Received, PendingMove,
       OrdersGrow, NewOrder, Held
  <2>2. CASE YieldMove(e) \/ LossMove(e) \/ EndMove(e) \/ TurnMove(e) \/ LeftMove(e)
    BY <2>2, OrderSteps DEF YieldMove, Taking, Ended, Received, LossMove, EndMove,
       TurnMove, LeftMove, OrdersGrow, NewOrder, Held
  <2>3. CASE SendStart(e)
    <3>1. CASE conn
      <4>1. Send("JOB_START", e) /\ Starts(e)
        BY <2>3, <3>1 DEF SendStart, Starts
      <4>2. QED
        BY <4>1, OrderSteps DEF OrdersGrow, NewOrder
    <3>2. CASE ~conn
      BY <2>3, <3>2, OrderSteps DEF SendStart, CanSend, OrdersGrow
    <3>3. QED
      BY <3>1, <3>2
  <2>4. QED
    BY <1>4, ResultMoves, <2>1, <2>2, <2>3 DEF TaskStep, ResultStep
<1>5. ASSUME NEW c \in Canceller, CancelStep(c) PROVE OrdersGrow
  BY <1>5, OrderSteps DEF CancelStep, SendCancel, CancelPending, ConfirmCancel,
     Cancelled, AckCancelled, Acknowledge, OrdersGrow, NewOrder, Held
<1>6. ASSUME NEW m \in Report, SnapshotStep(m) PROVE OrdersGrow
  <2>1. CASE AdoptMove(m)
    <3>1. /\ \A o \in Orders' : o \in Orders \/ \E f \in Over(m) :
                o = [type |-> "JOB_RESULT_ACK", exec |-> f]
          /\ acked' = acked \cup Over(m)
      BY <2>1, OrderSteps DEF AdoptMove, Handled
    <3>2. m \in Reports
      BY <2>1, MailSteps DEF AdoptMove, Handled, Reports
    <3>3. Over(m) \subseteq Exec /\ Over(m) \subseteq m.completed
      BY DEF Over, OpenRows
    <3>4. QED
      BY <3>1, <3>2, <3>3 DEF OrdersGrow, NewOrder
  <2>2. CASE AbsenceMove(m)
    <3>1. /\ \A o \in Orders' : o \in Orders \/ \E f \in Over(m) :
                o = [type |-> "JOB_RESULT_ACK", exec |-> f]
          /\ acked' = acked \cup Over(m)
      BY <2>2, OrderSteps DEF AbsenceMove, Handled
    <3>2. m \in Reports
      BY <2>2, MailSteps DEF AbsenceMove, Handled, Reports
    <3>3. Over(m) \subseteq Exec /\ Over(m) \subseteq m.completed
      BY DEF Over, OpenRows
    <3>4. QED
      BY <3>1, <3>2, <3>3 DEF OrdersGrow, NewOrder
  <2>3. CASE TakeUpMove(m)
    <3>1. /\ \A o \in Orders' : o \in Orders \/ \E f \in Over(m) :
                o = [type |-> "JOB_RESULT_ACK", exec |-> f]
          /\ acked' = acked \cup Over(m)
      BY <2>3, OrderSteps DEF TakeUpMove, Handled
    <3>2. m \in Reports
      BY <2>3, MailSteps DEF TakeUpMove, Handled, Reports
    <3>3. Over(m) \subseteq Exec /\ Over(m) \subseteq m.completed
      BY DEF Over, OpenRows
    <3>4. QED
      BY <3>1, <3>2, <3>3 DEF OrdersGrow, NewOrder
  <2>4. CASE PassMove(m)
    <3>1. /\ \A o \in Orders' : o \in Orders \/ \E f \in Over(m) :
                o = [type |-> "JOB_RESULT_ACK", exec |-> f]
          /\ acked' = acked \cup Over(m)
      BY <2>4, OrderSteps DEF PassMove, Handled
    <3>2. m \in Reports
      BY <2>4, MailSteps DEF PassMove, Handled, Reports
    <3>3. Over(m) \subseteq Exec /\ Over(m) \subseteq m.completed
      BY DEF Over, OpenRows
    <3>4. QED
      BY <3>1, <3>2, <3>3 DEF OrdersGrow, NewOrder
  <2>5. QED
    BY <1>6, <2>1, <2>2, <2>3, <2>4 DEF SnapshotStep
<1>7. CASE AdoptBind \/ HandleResult
  BY <1>7, OrderSteps DEF AdoptBind, Detached, Lost, HandleResult, OrdersGrow, NewOrder,
     Held
<1>8. ASSUME NEW e \in Exec, RunnerStep(e) \/ CodexEnds(e) \/ LearnSession(e)
      PROVE  OrdersGrow
  BY <1>8, OrderSteps DEF RunnerStep, RunnerReserves, RunnerSpawns, RunnerCancels,
     RunnerForgets, CodexEnds, LearnSession, OrdersGrow, NewOrder, Held
<1>9. CASE Heartbeat \/ Connect \/ Drop \/ Replace
  BY <1>9, OrderSteps DEF Heartbeat, Connect, InTime, Drop, Detached, Lost, Replace,
     OrdersGrow, NewOrder, Held
<1>10. CASE Crash \/ Shutdown \/ Restart \/ UNCHANGED vars
  BY <1>10, OrderSteps DEF Crash, Halted, Shutdown, Restart, vars, OrdersGrow, NewOrder,
     Held
<1>11. QED
  BY <1>1, <1>2, <1>3, <1>4, <1>5, <1>6, <1>7, <1>8, <1>9, <1>10, SnapshotMoves DEF
     Next, ControllerStep, Receive

\* Futures end with what the Runner answers.
LEMMA LearnStep ==
    ASSUME TypeOK, ControlInv, [Next]_vars
    PROVE  Learns
<1> /\ state \in Active \cup Terminal \cup {"WAITING_HOST", "PAUSED", "CANCELLING"}
    /\ rec \in Recovery /\ ledger \in [Exec -> LedgerState] /\ handle \in Exec \cup {NoExec}
    /\ future \in [Exec -> Future] /\ task \in [Exec -> Turn]
    /\ canceller \in [Canceller -> Cancellation] /\ adopting \in Exec \cup {NoExec}
    /\ run \in [Exec -> ExecState] /\ acked \subseteq Exec /\ bound \subseteq Exec
  BY DEF TypeOK
<1> \A c \in Canceller : canceller[c].at \in {"send", "sent", "ack"} => canceller[c].exec \in Exec
  BY DEF ControlInv, CancelInv
<1>1. CASE Retry \/ StartTask \/ Reserve
  BY <1>1 DEF Retry, InTime, StartTask, Reserve, Learns
<1>2. CASE RequestCancel \/ LookForHandle \/ JoinTask
  BY <1>2 DEF RequestCancel, LookForHandle, JoinTask, Cancelled, Learns
<1>3. CASE Pause \/ Resume
  BY <1>3 DEF Pause, Resume, Learns
<1>4. ASSUME NEW e \in Exec, TaskStep(e) PROVE Learns
  BY <1>4, ResultMoves DEF TaskStep, ResultStep, SendStart, InTime, EnterHostWait,
     Ended, Bind, StopTurn, RecordHostWait, AckResult, Acknowledge, CancelledMove,
     Taking, Cancelled, Received, PendingMove, YieldMove, LossMove, EndMove, TurnMove,
     LeftMove, Learns
<1>5. ASSUME NEW c \in Canceller, CancelStep(c) PROVE Learns
  BY <1>5 DEF CancelStep, SendCancel, CancelPending, ConfirmCancel, Cancelled,
     AckCancelled, Acknowledge, Learns
<1>6. ASSUME NEW m \in Report, SnapshotStep(m) PROVE Learns
  BY <1>6 DEF SnapshotStep, AdoptMove, Handled, Adopt, AbsenceMove, ConfirmAbsence,
     TakeUpMove, AdoptCancel, PassMove, Learns
<1>7. CASE AdoptBind \/ HandleResult
  <2>1. CASE AdoptBind
    BY <2>1 DEF AdoptBind, Detached, Lost, Learns
  <2>2. CASE HandleResult
    <3> DEFINE m == Head(toController)
    <3>1. /\ m \in Answers
          /\ future' = [future EXCEPT ![m.exec] = IF @ = "open" THEN m.kind ELSE @]
      BY <2>2, MailSteps DEF HandleResult, Answers
    <3> HIDE DEF m
    <3>2. QED
      BY <3>1 DEF Learns, Knows
  <2>3. QED
    BY <1>7, <2>1, <2>2
<1>8. ASSUME NEW e \in Exec, RunnerStep(e) \/ CodexEnds(e) \/ LearnSession(e)
      PROVE  Learns
  BY <1>8 DEF RunnerStep, RunnerReserves, RunnerSpawns, RunnerCancels, RunnerForgets,
     CodexEnds, LearnSession, Learns
<1>9. CASE Heartbeat \/ Connect \/ Drop \/ Replace
  BY <1>9 DEF Heartbeat, Connect, InTime, Drop, Detached, Lost, Replace, Learns
<1>10. CASE Crash \/ Shutdown \/ Restart \/ UNCHANGED vars
  BY <1>10 DEF Crash, Halted, Shutdown, Restart, vars, Learns
<1>11. QED
  BY <1>1, <1>2, <1>3, <1>4, <1>5, <1>6, <1>7, <1>8, <1>9, <1>10, SnapshotMoves DEF
     Next, ControllerStep, Receive

\* Only results are acknowledged.
LEMMA AcknowledgeStep ==
    ASSUME TypeOK, ControlInv, [Next]_vars
    PROVE  Acknowledges
<1> /\ state \in Active \cup Terminal \cup {"WAITING_HOST", "PAUSED", "CANCELLING"}
    /\ rec \in Recovery /\ ledger \in [Exec -> LedgerState] /\ handle \in Exec \cup {NoExec}
    /\ future \in [Exec -> Future] /\ task \in [Exec -> Turn]
    /\ canceller \in [Canceller -> Cancellation] /\ adopting \in Exec \cup {NoExec}
    /\ run \in [Exec -> ExecState] /\ acked \subseteq Exec /\ bound \subseteq Exec
  BY DEF TypeOK
<1> \A c \in Canceller : canceller[c].at \in {"send", "sent", "ack"} => canceller[c].exec \in Exec
  BY DEF ControlInv, CancelInv
<1>1. CASE Retry \/ StartTask \/ Reserve
  BY <1>1 DEF Retry, InTime, StartTask, Reserve, Acknowledges
<1>2. CASE RequestCancel \/ LookForHandle \/ JoinTask
  BY <1>2 DEF RequestCancel, LookForHandle, JoinTask, Cancelled, Acknowledges
<1>3. CASE Pause \/ Resume
  BY <1>3 DEF Pause, Resume, Acknowledges
<1>4. ASSUME NEW e \in Exec, TaskStep(e) PROVE Acknowledges
  BY <1>4, ResultMoves DEF TaskStep, ResultStep, SendStart, InTime, EnterHostWait,
     Ended, Bind, StopTurn, RecordHostWait, AckResult, Acknowledge, CancelledMove,
     Taking, Cancelled, Received, PendingMove, YieldMove, LossMove, EndMove, TurnMove,
     LeftMove, Acknowledges
<1>5. ASSUME NEW c \in Canceller, CancelStep(c) PROVE Acknowledges
  BY <1>5 DEF CancelStep, SendCancel, CancelPending, ConfirmCancel, Cancelled,
     AckCancelled, Acknowledge, Acknowledges
<1>6. ASSUME NEW m \in Report, SnapshotStep(m) PROVE Acknowledges
  <2>1. CASE AdoptMove(m)
    <3>1. acked' = acked \cup Over(m) /\ m \in Reports
      BY <2>1, MailSteps DEF AdoptMove, Handled, Reports
    <3>2. Over(m) \subseteq m.completed
      BY DEF Over
    <3>3. QED
      BY <3>1, <3>2 DEF Acknowledges
  <2>2. CASE AbsenceMove(m)
    <3>1. acked' = acked \cup Over(m) /\ m \in Reports
      BY <2>2, MailSteps DEF AbsenceMove, Handled, Reports
    <3>2. Over(m) \subseteq m.completed
      BY DEF Over
    <3>3. QED
      BY <3>1, <3>2 DEF Acknowledges
  <2>3. CASE TakeUpMove(m)
    <3>1. acked' = acked \cup Over(m) /\ m \in Reports
      BY <2>3, MailSteps DEF TakeUpMove, Handled, Reports
    <3>2. Over(m) \subseteq m.completed
      BY DEF Over
    <3>3. QED
      BY <3>1, <3>2 DEF Acknowledges
  <2>4. CASE PassMove(m)
    <3>1. acked' = acked \cup Over(m) /\ m \in Reports
      BY <2>4, MailSteps DEF PassMove, Handled, Reports
    <3>2. Over(m) \subseteq m.completed
      BY DEF Over
    <3>3. QED
      BY <3>1, <3>2 DEF Acknowledges
  <2>5. QED
    BY <1>6, <2>1, <2>2, <2>3, <2>4 DEF SnapshotStep
<1>7. CASE AdoptBind \/ HandleResult
  BY <1>7 DEF AdoptBind, Detached, Lost, HandleResult, Acknowledges
<1>8. ASSUME NEW e \in Exec, RunnerStep(e) \/ CodexEnds(e) \/ LearnSession(e)
      PROVE  Acknowledges
  BY <1>8 DEF RunnerStep, RunnerReserves, RunnerSpawns, RunnerCancels, RunnerForgets,
     CodexEnds, LearnSession, Acknowledges
<1>9. CASE Heartbeat \/ Connect \/ Drop \/ Replace
  BY <1>9 DEF Heartbeat, Connect, InTime, Drop, Detached, Lost, Replace, Acknowledges
<1>10. CASE Crash \/ Shutdown \/ Restart \/ UNCHANGED vars
  BY <1>10 DEF Crash, Halted, Shutdown, Restart, vars, Acknowledges
<1>11. QED
  BY <1>1, <1>2, <1>3, <1>4, <1>5, <1>6, <1>7, <1>8, <1>9, <1>10, SnapshotMoves DEF
     Next, ControllerStep, Receive

\* An acknowledgement is not taken back.
LEMMA AckedStep ==
    ASSUME TypeOK, [Next]_vars
    PROVE  acked \subseteq acked'
<1> /\ state \in Active \cup Terminal \cup {"WAITING_HOST", "PAUSED", "CANCELLING"}
    /\ rec \in Recovery /\ ledger \in [Exec -> LedgerState] /\ handle \in Exec \cup {NoExec}
    /\ future \in [Exec -> Future] /\ task \in [Exec -> Turn]
    /\ canceller \in [Canceller -> Cancellation] /\ adopting \in Exec \cup {NoExec}
    /\ run \in [Exec -> ExecState] /\ acked \subseteq Exec /\ bound \subseteq Exec
  BY DEF TypeOK
<1>1. CASE Retry \/ StartTask \/ Reserve
  BY <1>1 DEF Retry, InTime, StartTask, Reserve
<1>2. CASE RequestCancel \/ LookForHandle \/ JoinTask
  BY <1>2 DEF RequestCancel, LookForHandle, JoinTask, Cancelled
<1>3. CASE Pause \/ Resume
  BY <1>3 DEF Pause, Resume
<1>4. ASSUME NEW e \in Exec, TaskStep(e) PROVE acked \subseteq acked'
  BY <1>4, ResultMoves DEF TaskStep, ResultStep, SendStart, InTime, EnterHostWait,
     Ended, Bind, StopTurn, RecordHostWait, AckResult, Acknowledge, CancelledMove,
     Taking, Cancelled, Received, PendingMove, YieldMove, LossMove, EndMove, TurnMove,
     LeftMove
<1>5. ASSUME NEW c \in Canceller, CancelStep(c) PROVE acked \subseteq acked'
  BY <1>5 DEF CancelStep, SendCancel, CancelPending, ConfirmCancel, Cancelled,
     AckCancelled, Acknowledge
<1>6. ASSUME NEW m \in Report, SnapshotStep(m) PROVE acked \subseteq acked'
  BY <1>6 DEF SnapshotStep, AdoptMove, Handled, Adopt, AbsenceMove, ConfirmAbsence,
     TakeUpMove, AdoptCancel, PassMove
<1>7. CASE AdoptBind \/ HandleResult
  BY <1>7 DEF AdoptBind, Detached, Lost, HandleResult
<1>8. ASSUME NEW e \in Exec, RunnerStep(e) \/ CodexEnds(e) \/ LearnSession(e)
      PROVE  acked \subseteq acked'
  BY <1>8 DEF RunnerStep, RunnerReserves, RunnerSpawns, RunnerCancels, RunnerForgets,
     CodexEnds, LearnSession
<1>9. CASE Heartbeat \/ Connect \/ Drop \/ Replace
  BY <1>9 DEF Heartbeat, Connect, InTime, Drop, Detached, Lost, Replace
<1>10. CASE Crash \/ Shutdown \/ Restart \/ UNCHANGED vars
  BY <1>10 DEF Crash, Halted, Shutdown, Restart, vars
<1>11. QED
  BY <1>1, <1>2, <1>3, <1>4, <1>5, <1>6, <1>7, <1>8, <1>9, <1>10, SnapshotMoves DEF
     Next, ControllerStep, Receive

\* Nothing but its command makes an execution known to the Controller.
LEMMA HeldStep ==
    ASSUME TypeOK, ControlInv, [Next]_vars
    PROVE  HoldsKnown
<1> /\ state \in Active \cup Terminal \cup {"WAITING_HOST", "PAUSED", "CANCELLING"}
    /\ rec \in Recovery /\ ledger \in [Exec -> LedgerState] /\ handle \in Exec \cup {NoExec}
    /\ future \in [Exec -> Future] /\ task \in [Exec -> Turn]
    /\ canceller \in [Canceller -> Cancellation] /\ adopting \in Exec \cup {NoExec}
    /\ run \in [Exec -> ExecState] /\ acked \subseteq Exec /\ bound \subseteq Exec
  BY DEF TypeOK
<1> \A c \in Canceller : canceller[c].at \in {"send", "sent", "ack"} => canceller[c].exec \in Exec
  BY DEF ControlInv, CancelInv
<1> \A e \in Exec : task[e].at = "bind" => future[e] # "none"
  BY DEF ControlInv, FutureInv
<1> \A e \in Exec : task[e].at = "await" => e \in bound
  BY DEF ControlInv, TasksInv
<1> NoExec \notin Exec
  BY NoExecIsNone
<1>1. CASE Retry \/ StartTask \/ Reserve
  BY <1>1 DEF Retry, InTime, StartTask, Reserve, HoldsKnown, Held, Idle, NoRec,
     Canceller
<1>2. CASE RequestCancel \/ LookForHandle \/ JoinTask
  BY <1>2 DEF RequestCancel, LookForHandle, JoinTask, Cancelled, HoldsKnown, Held, Idle,
     NoRec, Canceller
<1>3. CASE Pause \/ Resume
  BY <1>3 DEF Pause, Resume, HoldsKnown, Held, Idle, NoRec, Canceller
<1>4. ASSUME NEW e \in Exec, TaskStep(e) PROVE HoldsKnown
  <2>1. CASE Bind(e) \/ StopTurn(e) \/ RecordHostWait(e)
    BY <2>1 DEF Bind, StopTurn, EnterHostWait, Ended, RecordHostWait, HoldsKnown, Held,
       Idle, NoRec, Canceller
  <2>2. CASE AckResult(e) \/ CancelledMove(e)
    BY <2>2 DEF AckResult, Acknowledge, Ended, CancelledMove, Taking, Cancelled,
       Received, HoldsKnown, Held, Idle, NoRec, Canceller
  <2>3. CASE PendingMove(e)
    BY <2>3 DEF PendingMove, Taking, Ended, Received, HoldsKnown, Held, Idle, NoRec,
       Canceller
  <2>4. CASE YieldMove(e) \/ LossMove(e)
    BY <2>4 DEF YieldMove, Taking, Ended, Received, LossMove, HoldsKnown, Held, Idle,
       NoRec, Canceller
  <2>5. CASE EndMove(e)
    BY <2>5 DEF EndMove, Taking, Received, HoldsKnown, Held, Idle, NoRec, Canceller
  <2>6. CASE TurnMove(e) \/ LeftMove(e)
    BY <2>6 DEF TurnMove, Taking, Received, LeftMove, HoldsKnown, Held, Idle, NoRec,
       Canceller
  <2>7. CASE SendStart(e)
    <3>1. /\ bound' = bound /\ rec' = rec /\ adopting' = adopting /\ canceller' = canceller
          /\ handle' \in {handle, NoExec} \/ (handle' = e /\ conn)
          /\ \A f \in Exec : future'[f] # "none" => future[f] # "none" \/ (f = e /\ conn)
      BY <2>7 DEF SendStart, CanSend, EnterHostWait, Ended
    <3>2. QED
      BY <2>7, <3>1 DEF HoldsKnown, Held, Starts
  <2>8. QED
    BY <1>4, ResultMoves, <2>1, <2>2, <2>3, <2>4, <2>5, <2>6, <2>7 DEF TaskStep,
       ResultStep
<1>5. ASSUME NEW c \in Canceller, CancelStep(c) PROVE HoldsKnown
  BY <1>5 DEF CancelStep, SendCancel, CancelPending, ConfirmCancel, Cancelled,
     AckCancelled, Acknowledge, HoldsKnown, Held, Idle, NoRec, Canceller
<1>6. ASSUME NEW m \in Report, SnapshotStep(m) PROVE HoldsKnown
  BY <1>6, AdopteeIn, MailSteps DEF SnapshotStep, AdoptMove, Handled, Adopt, TakesUp,
     Looked, Told, Reports, Adopts, AbsenceMove, ConfirmAbsence, TakeUpMove,
     AdoptCancel, PassMove, HoldsKnown, Held, Idle, NoRec, Canceller
<1>7. CASE AdoptBind \/ HandleResult
  BY <1>7 DEF AdoptBind, Detached, Lost, HandleResult, HoldsKnown, Held, Idle, NoRec,
     Canceller
<1>8. ASSUME NEW e \in Exec, RunnerStep(e) \/ CodexEnds(e) \/ LearnSession(e)
      PROVE  HoldsKnown
  BY <1>8 DEF RunnerStep, RunnerReserves, RunnerSpawns, RunnerCancels, RunnerForgets,
     CodexEnds, LearnSession, HoldsKnown, Held, Idle, NoRec, Canceller
<1>9. CASE Heartbeat \/ Connect \/ Drop \/ Replace
  BY <1>9 DEF Heartbeat, Connect, InTime, Drop, Detached, Lost, Replace, HoldsKnown,
     Held, Idle, NoRec, Canceller
<1>10. CASE Crash \/ Shutdown \/ Restart \/ UNCHANGED vars
  BY <1>10 DEF Crash, Halted, Shutdown, Restart, vars, HoldsKnown, Held, Idle, NoRec,
     Canceller
<1>11. QED
  BY <1>1, <1>2, <1>3, <1>4, <1>5, <1>6, <1>7, <1>8, <1>9, <1>10, SnapshotMoves DEF
     Next, ControllerStep, Receive

\* An execution has its row before its command is sent.
LEMMA RowStep ==
    ASSUME TypeOK, ControlInv, FreshInv, [Next]_vars
    PROVE  RowsFirst
<1> /\ state \in Active \cup Terminal \cup {"WAITING_HOST", "PAUSED", "CANCELLING"}
    /\ rec \in Recovery /\ ledger \in [Exec -> LedgerState] /\ handle \in Exec \cup {NoExec}
    /\ future \in [Exec -> Future] /\ task \in [Exec -> Turn]
    /\ canceller \in [Canceller -> Cancellation] /\ adopting \in Exec \cup {NoExec}
    /\ run \in [Exec -> ExecState] /\ acked \subseteq Exec /\ bound \subseteq Exec
  BY DEF TypeOK
<1> \A c \in Canceller : canceller[c].at \in {"send", "sent", "ack"} => canceller[c].exec \in Exec
  BY DEF ControlInv, CancelInv
<1> \A e \in Exec : ledger[e] = "none" => task[e] = NoTask /\ e # adopting
  BY DEF FreshInv, Held
<1>1. CASE Retry \/ StartTask \/ Reserve
  BY <1>1 DEF Retry, InTime, StartTask, Reserve, RowsFirst, NoTask, Used, Turn
<1>2. CASE RequestCancel \/ LookForHandle \/ JoinTask
  BY <1>2 DEF RequestCancel, LookForHandle, JoinTask, Cancelled, RowsFirst, NoTask,
     Used, Turn
<1>3. CASE Pause \/ Resume
  BY <1>3 DEF Pause, Resume, RowsFirst, NoTask, Used, Turn
<1>4. ASSUME NEW e \in Exec, TaskStep(e) PROVE RowsFirst
  <2>1. CASE SendStart(e) \/ Bind(e) \/ StopTurn(e) \/ RecordHostWait(e) \/ AckResult(e)
     \/ CancelledMove(e)
    BY <2>1 DEF SendStart, InTime, EnterHostWait, Ended, Bind, StopTurn, RecordHostWait,
       AckResult, Acknowledge, CancelledMove, Taking, Cancelled, Received, RowsFirst,
       NoTask, Used, Turn
  <2>2. CASE PendingMove(e) \/ YieldMove(e) \/ LossMove(e)
    BY <2>2 DEF PendingMove, Taking, Ended, Received, YieldMove, LossMove, RowsFirst,
       NoTask, Used, Turn
  <2>3. CASE EndMove(e)
    BY <2>3 DEF EndMove, Taking, Received, RowsFirst, NoTask, Used, Turn
  <2>4. CASE TurnMove(e)
    BY <2>4 DEF TurnMove, Taking, Received, RowsFirst, NoTask, Used, Turn
  <2>5. CASE LeftMove(e)
    BY <2>5 DEF LeftMove, Taking, Received, RowsFirst, NoTask, Used, Turn
  <2>6. QED
    BY <1>4, ResultMoves, <2>1, <2>2, <2>3, <2>4, <2>5 DEF TaskStep, ResultStep
<1>5. ASSUME NEW c \in Canceller, CancelStep(c) PROVE RowsFirst
  BY <1>5 DEF CancelStep, SendCancel, CancelPending, ConfirmCancel, Cancelled,
     AckCancelled, Acknowledge, RowsFirst, NoTask, Used, Turn
<1>6. ASSUME NEW m \in Report, SnapshotStep(m) PROVE RowsFirst
  BY <1>6 DEF SnapshotStep, AdoptMove, Handled, Adopt, Closed, Over, Absent, OpenRows,
     AbsenceMove, ConfirmAbsence, TakeUpMove, AdoptCancel, PassMove, RowsFirst, NoTask,
     Used, Turn
<1>7. CASE AdoptBind \/ HandleResult
  BY <1>7 DEF AdoptBind, Detached, Lost, HandleResult, RowsFirst, NoTask, Used, Turn
<1>8. ASSUME NEW e \in Exec, RunnerStep(e) \/ CodexEnds(e) \/ LearnSession(e)
      PROVE  RowsFirst
  BY <1>8 DEF RunnerStep, RunnerReserves, RunnerSpawns, RunnerCancels, RunnerForgets,
     CodexEnds, LearnSession, RowsFirst, NoTask, Used, Turn
<1>9. CASE Heartbeat \/ Connect \/ Drop \/ Replace
  BY <1>9 DEF Heartbeat, Connect, InTime, Drop, Detached, Lost, Replace, RowsFirst,
     NoTask, Used, Turn
<1>10. CASE Crash \/ Shutdown \/ Restart \/ UNCHANGED vars
  BY <1>10 DEF Crash, Halted, Shutdown, Restart, vars, RowsFirst, NoTask, Used, Turn
<1>11. QED
  BY <1>1, <1>2, <1>3, <1>4, <1>5, <1>6, <1>7, <1>8, <1>9, <1>10, SnapshotMoves DEF
     Next, ControllerStep, Receive

LEMMA TypeStep ==
    ASSUME TypeOK, ControlInv, [Next]_vars
    PROVE  TypeOK'
<1>1. FlagsOK' /\ BoundsOK' /\ PlacesOK' /\ MapsOK' /\ rec' \in Recovery
  BY FlagTypes, BoundTypes, PlaceTypes, MapTypes, RecordTypes
<1>2. task' \in [Exec -> Turn] /\ canceller' \in [Canceller -> Cancellation]
  BY TaskTypes, CancelTypes
<1>3. toRunner' \in Seq(Order) /\ toController' \in Seq(Report \cup Answer)
  BY RunnerQueueTypes, MailTypes
<1>4. QED
  BY <1>1, <1>2, <1>3 DEF TypeOK, FlagsOK, BoundsOK, PlacesOK, MapsOK

LEMMA ControlStep ==
    ASSUME TypeOK, ControlInv, FreshInv, [Next]_vars
    PROVE  ControlInv'
  BY DownStep, CancelInvStep, RowsStep, FutureStep, TasksStep, UsedStep DEF ControlInv

\* What is new to the messages or to the Runner was known, or is being started.
LEMMA ToldStep ==
    ASSUME TypeOK, ControlInv, [Next]_vars, NEW e \in Exec, Told(e)'
    PROVE  Held(e) \/ Told(e) \/ Starts(e)
<1>1. CASE run'[e] # "none"
  <2>1. run[e] # "none" \/ Ordered("JOB_START", e)
    BY <1>1, RunsNewStep DEF RunsNew
  <2>2. QED
    BY <2>1 DEF Told, Ordered
<1>2. CASE \E o \in Orders' : o.exec = e
  <2>1. PICK o \in Orders' : o.exec = e
    BY <1>2
  <2>2. o \in Orders \/ NewOrder(o)
    BY <2>1, OrderStep DEF OrdersGrow
  <2>3. CASE NewOrder(o)
    BY <2>1, <2>3 DEF NewOrder, Told
  <2>4. QED
    BY <2>1, <2>2, <2>3 DEF Told
<1>3. CASE \E m \in Mail' : \/ m.type = "RUNNING_JOBS" /\ e \in m.running \cup m.completed
                            \/ m.type = "JOB_RESULT" /\ m.exec = e
  <2>1. PICK m \in Mail' : \/ m.type = "RUNNING_JOBS" /\ e \in m.running \cup m.completed
                           \/ m.type = "JOB_RESULT" /\ m.exec = e
    BY <1>3
  <2>2. m \in Mail \/ NewMail(m)
    BY <2>1, MailStep DEF MailGrows
  <2>3. CASE m \in Mail
    BY <2>1, <2>3 DEF Told, Reports, Answers
  <2>4. CASE m = Snapshot(FALSE) \/ m = Snapshot(TRUE)
    BY <2>1, <2>4, Messages DEF Told
  <2>5. CASE \E f \in Exec : m = Result(f, "result") /\ run[f] # "none"
    BY <2>1, <2>5, Messages DEF Told
  <2>6. CASE \E f \in Exec : m = Result(f, "unconfirmed") /\ RunnerCancels(f)
    <3>1. PICK f \in Exec : m = Result(f, "unconfirmed") /\ RunnerCancels(f)
      BY <2>6
    <3>2. f = e
      BY <2>1, <3>1, Messages
    <3>3. [type |-> "JOB_CANCEL", exec |-> e] \in Orders
      BY <3>1, <3>2, OrderSteps DEF RunnerCancels
    <3>4. QED
      BY <3>3 DEF Told
  <2>7. QED
    BY <2>2, <2>3, <2>4, <2>5, <2>6 DEF NewMail
<1>4. QED
  BY <1>1, <1>2, <1>3 DEF Told, Reports, Answers

LEMMA FreshStep ==
    ASSUME TypeOK, ControlInv, FreshInv, [Next]_vars
    PROVE  FreshInv'
<1>1. SUFFICES ASSUME NEW e \in Exec, ledger'[e] = "none" \/ task'[e].at = "send"
               PROVE  /\ ledger'[e] = "none" => task'[e] = NoTask
                      /\ ~Held(e)' /\ ~Told(e)'
  <2>1. \A e \in Exec : ledger'[e] = "none" => task'[e] = NoTask
    BY RowStep DEF RowsFirst
  <2>2. QED
    BY <1>1, <2>1 DEF FreshInv
<1>2. /\ ledger'[e] = "none" => task'[e] = NoTask /\ ledger[e] = "none"
      /\ ledger[e] = "none" \/ task[e].at = "send"
  BY <1>1, RowStep DEF RowsFirst
<1>3. ~Held(e) /\ ~Told(e)
  BY <1>2 DEF FreshInv
<1>4. ~Starts(e)
  BY <1>1, <1>2, StartsNew
<1>5. ~Held(e)' /\ ~Told(e)'
  BY <1>3, <1>4, HeldStep, ToldStep DEF HoldsKnown
<1>6. QED
  BY <1>2, <1>5

LEMMA EndStep ==
    ASSUME TypeOK, ControlInv, EndInv, [Next]_vars
    PROVE  EndInv'
<1>1. \A e \in Exec : /\ HasEnded(e) => HasEnded(e)'
                      /\ run[e] \in {"done", "gone"} => run'[e] \in {"done", "gone"}
  BY RunsOnStep DEF RunsOn
<1>2. ASSUME NEW e \in Exec, future'[e] = "result"
      PROVE  HasEnded(e)'
  BY <1>1, <1>2, LearnStep DEF Learns, Knows, EndInv
<1>3. ASSUME NEW m \in Answers', m.kind = "result"
      PROVE  m.exec \in Exec /\ HasEnded(m.exec)'
  <2>1. m \in Mail' /\ m.type = "JOB_RESULT"
    BY <1>3 DEF Answers
  <2>2. m \in Mail \/ NewMail(m)
    BY <2>1, MailStep DEF MailGrows
  <2>3. CASE m \in Mail
    <3>1. m \in Answers /\ m \in Answer
      BY <2>1, <2>3, Messages DEF Answers, Report
    <3>2. m.exec \in Exec /\ HasEnded(m.exec)
      BY <1>3, <3>1 DEF EndInv, Answer
    <3>3. QED
      BY <1>1, <3>2
  <2>4. CASE NewMail(m)
    <3>1. m # Snapshot(FALSE) /\ m # Snapshot(TRUE)
      BY <2>1, Messages
    <3>2. \A f \in Exec : m # Result(f, "unconfirmed")
      BY <1>3, Messages
    <3>3. \E f \in Exec : m = Result(f, "result") /\ HasEnded(f)'
      BY <2>4, <3>1, <3>2 DEF NewMail
    <3>4. QED
      BY <3>3, Messages
  <2>5. QED
    BY <2>2, <2>3, <2>4
<1>4. ASSUME NEW m \in Reports', NEW e \in m.completed
      PROVE  run'[e] \in {"done", "gone"}
  <2>1. m \in Mail' /\ m.type = "RUNNING_JOBS"
    BY <1>4 DEF Reports
  <2>2. m \in Mail \/ NewMail(m)
    BY <2>1, MailStep DEF MailGrows
  <2>3. e \in Exec /\ run[e] \in {"done", "gone"}
    <3>1. CASE m \in Mail
      <4>1. m \in Reports /\ m \in Report
        BY <2>1, <3>1, Messages DEF Reports, Answer
      <4>2. QED
        BY <4>1 DEF EndInv, Report
    <3>2. CASE m = Snapshot(FALSE) \/ m = Snapshot(TRUE)
      BY <3>2, Messages
    <3>3. \A f \in Exec : m # Result(f, "result") /\ m # Result(f, "unconfirmed")
      BY <2>1, Messages
    <3>4. QED
      BY <2>2, <3>1, <3>2, <3>3 DEF NewMail
  <2>4. QED
    BY <1>1, <2>3
<1>5. ASSUME NEW e \in acked'
      PROVE  e \in Exec /\ HasEnded(e)'
  <2>1. e \in acked \/ future[e] = "result" \/ \E m \in Reports : e \in m.completed
    BY AcknowledgeStep DEF Acknowledges
  <2>2. e \in Exec
    BY PlaceTypes DEF PlacesOK
  <2>3. HasEnded(e)
    BY <2>1, <2>2 DEF EndInv, HasEnded
  <2>4. QED
    BY <1>1, <2>2, <2>3
<1>6. ASSUME NEW e \in Exec, Ordered("JOB_RESULT_ACK", e)'
      PROVE  e \in acked'
  <2> DEFINE o == [type |-> "JOB_RESULT_ACK", exec |-> e]
  <2>1. o \in Orders \/ NewOrder(o)
    BY <1>6, OrderStep DEF OrdersGrow, Ordered
  <2>2. CASE o \in Orders
    <3>1. e \in acked
      BY <2>2 DEF EndInv, Ordered
    <3>2. QED
      BY <3>1, AckedStep
  <2>3. CASE NewOrder(o)
    BY <2>3 DEF NewOrder
  <2>4. QED
    BY <2>1, <2>2, <2>3
<1>7. QED
  BY <1>2, <1>3, <1>4, <1>5, <1>6 DEF EndInv

-----------------------------------------------------------------------------
(* The command that starts an execution comes first.                       *)

LEMMA FirstSteps ==
    ASSUME TypeOK, StartsFirst
    PROVE  /\ toRunner' = toRunner \/ toRunner' = <<>> => StartsFirst'
           /\ \A type \in {"JOB_START", "JOB_CANCEL", "JOB_RESULT_ACK"}, e \in Exec :
                 Command(type, e) => StartsFirst' /\ ~Ordered("JOB_START", e)'
           /\ \A type \in {"JOB_CANCEL", "JOB_RESULT_ACK"}, e \in Exec :
                 Send(type, e) => StartsFirst'
           /\ \A e \in Exec :
                 Send("JOB_START", e) /\ (\A o \in Orders : o.exec # e) => StartsFirst'
           /\ \A m : Acks(m) => StartsFirst'
<1>1. /\ toRunner \in Seq(Order) /\ Len(toRunner) \in Nat
      /\ DOMAIN toRunner = 1..Len(toRunner)
      /\ \A i \in DOMAIN toRunner : toRunner[i] \in Orders
  BY DEF TypeOK, Orders, ToSet
<1>2. ASSUME toRunner' = toRunner \/ toRunner' = <<>>
      PROVE  StartsFirst'
  <2>1. DOMAIN <<>> = {}
    OBVIOUS
  <2>2. QED
    BY <1>2, <2>1 DEF StartsFirst
<1>3. ASSUME NEW type \in {"JOB_START", "JOB_CANCEL", "JOB_RESULT_ACK"}, NEW e \in Exec,
             Command(type, e)
      PROVE  StartsFirst' /\ ~Ordered("JOB_START", e)'
  <2>1. toRunner # <<>> /\ Head(toRunner) = [type |-> type, exec |-> e] /\ toRunner' = Tail(toRunner)
    BY <1>3 DEF Command
  <2>2. /\ Tail(toRunner) \in Seq(Order) /\ Head(toRunner) = toRunner[1]
        /\ \A i \in DOMAIN Tail(toRunner) :
              i + 1 \in DOMAIN toRunner /\ Tail(toRunner)[i] = toRunner[i + 1]
    BY <1>1, <2>1, TailQueue
  <2>3. DOMAIN Tail(toRunner) \subseteq Nat \ {0} /\ 1 \in DOMAIN toRunner
    BY <1>1, <2>1
  <2>4. \A i, j \in Nat \ {0} : (i + 1 <= j + 1 => i <= j) /\ ~(i + 1 <= 1)
    OBVIOUS
  <2>5. StartsFirst'
    BY <2>1, <2>2, <2>3, <2>4 DEF StartsFirst
  <2>6. ASSUME NEW i \in DOMAIN Tail(toRunner),
               Tail(toRunner)[i] = [type |-> "JOB_START", exec |-> e]
        PROVE  FALSE
    <3>1. toRunner[i + 1].type = "JOB_START" /\ toRunner[1].exec = toRunner[i + 1].exec
      BY <2>1, <2>2, <2>6
    <3>2. i + 1 <= 1
      BY <2>2, <2>3, <3>1 DEF StartsFirst
    <3>3. QED
      BY <2>3, <2>4, <3>2
  <2>7. QED
    BY <2>1, <2>5, <2>6 DEF Ordered, Orders, ToSet
<1>4. ASSUME NEW type \in {"JOB_START", "JOB_CANCEL", "JOB_RESULT_ACK"}, NEW e \in Exec,
             Send(type, e), type # "JOB_START" \/ \A o \in Orders : o.exec # e
      PROVE  StartsFirst'
  <2> DEFINE o == [type |-> type, exec |-> e]
  <2>1. o \in Order /\ toRunner' = Append(toRunner, o) /\ o.type = type /\ o.exec = e
    BY <1>4 DEF Order, Send
  <2> HIDE DEF o
  <2>2. /\ DOMAIN toRunner' = 1..(Len(toRunner) + 1)
        /\ toRunner'[Len(toRunner) + 1] = o
        /\ \A i \in 1..Len(toRunner) : toRunner'[i] = toRunner[i]
    BY <1>1, <2>1
  <2>3. \A i \in 1..(Len(toRunner) + 1) :
          i \in 1..Len(toRunner) \/ i = Len(toRunner) + 1
    BY <1>1
  <2>4. \A i \in 1..(Len(toRunner) + 1) : i <= Len(toRunner) + 1
    BY <1>1
  <2>5. SUFFICES ASSUME NEW i \in DOMAIN toRunner', NEW j \in DOMAIN toRunner',
                        toRunner'[i].type = "JOB_START", toRunner'[j].exec = toRunner'[i].exec
                 PROVE  i <= j
    BY DEF StartsFirst
  <2>6. CASE i \in 1..Len(toRunner) /\ j \in 1..Len(toRunner)
    BY <1>1, <2>2, <2>5, <2>6 DEF StartsFirst
  <2>7. CASE j = Len(toRunner) + 1
    BY <2>2, <2>4, <2>7
  <2>8. CASE i = Len(toRunner) + 1 /\ j \in 1..Len(toRunner)
    <3>1. type = "JOB_START" /\ toRunner[j].exec = e /\ toRunner[j] \in Orders
      BY <1>1, <2>1, <2>2, <2>5, <2>8
    <3>2. QED
      BY <1>4, <3>1
  <2>9. QED
    BY <2>2, <2>3, <2>6, <2>7, <2>8
<1>5. ASSUME NEW m, Acks(m)
      PROVE  StartsFirst'
  <2>1. PICK s \in SetToSeqs(Over(m)) :
          toRunner' = toRunner \o [i \in DOMAIN s |-> [type |-> "JOB_RESULT_ACK", exec |-> s[i]]]
    BY <1>5 DEF Acks
  <2> DEFINE q == [i \in DOMAIN s |-> [type |-> "JOB_RESULT_ACK", exec |-> s[i]]]
  <2>2. Over(m) \in SUBSET Exec
    BY DEF Over, OpenRows
  <2>3. q \in Seq(Order) /\ \A o \in ToSet(q) : o.type = "JOB_RESULT_ACK"
    BY <2>2, AckQueue
  <2>4. toRunner' = toRunner \o q
    BY <2>1
  <2> HIDE DEF q
  <2>5. /\ DOMAIN toRunner' \subseteq Nat
        /\ \A i \in DOMAIN toRunner' :
              \/ i \in DOMAIN toRunner /\ toRunner'[i] = toRunner[i]
              \/ i > Len(toRunner) /\ toRunner'[i] \in ToSet(q)
    <3>1. toRunner' \in Seq(Order)
      BY <1>1, <2>3, <2>4, JoinQueues
    <3>2. QED
      BY <1>1, <2>3, <2>4, <3>1, JoinQueues
  <2>6. SUFFICES ASSUME NEW i \in DOMAIN toRunner', NEW j \in DOMAIN toRunner',
                        toRunner'[i].type = "JOB_START", toRunner'[j].exec = toRunner'[i].exec
                 PROVE  i <= j
    BY DEF StartsFirst
  <2>7. i \in DOMAIN toRunner /\ toRunner'[i] = toRunner[i]
    BY <2>3, <2>5, <2>6
  <2>8. CASE j \in DOMAIN toRunner /\ toRunner'[j] = toRunner[j]
    BY <2>6, <2>7, <2>8 DEF StartsFirst
  <2>9. CASE j > Len(toRunner)
    BY <1>1, <2>5, <2>7, <2>9
  <2>10. QED
    BY <2>5, <2>8, <2>9
<1>6. QED
  BY <1>2, <1>3, <1>4, <1>5

Reserves == \A e \in Exec : run[e] = "none" /\ run'[e] # "none" => ~Ordered("JOB_START", e)'

\* The command that starts an execution stays first.
LEMMA StartsFirstStep ==
    ASSUME TypeOK, ControlInv, FreshInv, StartsFirst, [Next]_vars
    PROVE  StartsFirst'
<1> /\ state \in Active \cup Terminal \cup {"WAITING_HOST", "PAUSED", "CANCELLING"}
    /\ rec \in Recovery /\ ledger \in [Exec -> LedgerState] /\ handle \in Exec \cup {NoExec}
    /\ future \in [Exec -> Future] /\ task \in [Exec -> Turn]
    /\ canceller \in [Canceller -> Cancellation] /\ adopting \in Exec \cup {NoExec}
    /\ run \in [Exec -> ExecState] /\ acked \subseteq Exec /\ bound \subseteq Exec
  BY DEF TypeOK
<1> \A c \in Canceller : canceller[c].at \in {"send", "sent", "ack"} => canceller[c].exec \in Exec
  BY DEF ControlInv, CancelInv
<1> \A e \in Exec : task[e].at = "send" => \A o \in Orders : o.exec # e
  BY DEF FreshInv, Told
<1>1. CASE Retry \/ StartTask \/ Reserve
  BY <1>1, FirstSteps DEF Retry, InTime, StartTask, Reserve
<1>2. CASE RequestCancel \/ LookForHandle \/ JoinTask
  BY <1>2, FirstSteps DEF RequestCancel, LookForHandle, JoinTask, Cancelled
<1>3. CASE Pause \/ Resume
  BY <1>3, FirstSteps DEF Pause, Resume
<1>4. ASSUME NEW e \in Exec, TaskStep(e) PROVE StartsFirst'
  <2>1. CASE Bind(e) \/ StopTurn(e) \/ RecordHostWait(e) \/ AckResult(e) \/
     CancelledMove(e) \/ PendingMove(e) \/ YieldMove(e) \/ LossMove(e) \/ EndMove(e) \/
     TurnMove(e) \/ LeftMove(e)
    BY <2>1, FirstSteps DEF Bind, StopTurn, EnterHostWait, Ended, RecordHostWait,
       AckResult, Acknowledge, CancelledMove, Taking, Cancelled, Received, PendingMove,
       YieldMove, LossMove, EndMove, TurnMove, LeftMove
  <2>2. CASE SendStart(e)
    <3>1. CASE conn
      <4>1. Send("JOB_START", e) /\ \A o \in Orders : o.exec # e
        BY <2>2, <3>1 DEF SendStart
      <4>2. QED
        BY <4>1, FirstSteps
    <3>2. CASE ~conn
      BY <2>2, <3>2, FirstSteps DEF SendStart, CanSend
    <3>3. QED
      BY <3>1, <3>2
  <2>3. QED
    BY <1>4, ResultMoves, <2>1, <2>2 DEF TaskStep, ResultStep
<1>5. ASSUME NEW c \in Canceller, CancelStep(c) PROVE StartsFirst'
  BY <1>5, FirstSteps DEF CancelStep, SendCancel, CancelPending, ConfirmCancel,
     Cancelled, AckCancelled, Acknowledge
<1>6. ASSUME NEW m \in Report, SnapshotStep(m) PROVE StartsFirst'
  BY <1>6, FirstSteps DEF SnapshotStep, AdoptMove, Handled, Adopt, AbsenceMove,
     ConfirmAbsence, TakeUpMove, AdoptCancel, PassMove
<1>7. CASE AdoptBind \/ HandleResult
  BY <1>7, FirstSteps DEF AdoptBind, Detached, Lost, HandleResult
<1>8. ASSUME NEW e \in Exec, RunnerStep(e) \/ CodexEnds(e) \/ LearnSession(e)
      PROVE  StartsFirst'
  BY <1>8, FirstSteps DEF RunnerStep, RunnerReserves, RunnerSpawns, RunnerCancels,
     RunnerForgets, CodexEnds, LearnSession
<1>9. CASE Heartbeat \/ Connect \/ Drop \/ Replace
  BY <1>9, FirstSteps DEF Heartbeat, Connect, InTime, Drop, Detached, Lost, Replace
<1>10. CASE Crash \/ Shutdown \/ Restart \/ UNCHANGED vars
  BY <1>10, FirstSteps DEF Crash, Halted, Shutdown, Restart, vars
<1>11. QED
  BY <1>1, <1>2, <1>3, <1>4, <1>5, <1>6, <1>7, <1>8, <1>9, <1>10, SnapshotMoves DEF
     Next, ControllerStep, Receive

\* An execution is reserved by its command.
LEMMA ReserveStep ==
    ASSUME TypeOK, StartsFirst, [Next]_vars
    PROVE  Reserves
<1> /\ state \in Active \cup Terminal \cup {"WAITING_HOST", "PAUSED", "CANCELLING"}
    /\ rec \in Recovery /\ ledger \in [Exec -> LedgerState] /\ handle \in Exec \cup {NoExec}
    /\ future \in [Exec -> Future] /\ task \in [Exec -> Turn]
    /\ canceller \in [Canceller -> Cancellation] /\ adopting \in Exec \cup {NoExec}
    /\ run \in [Exec -> ExecState] /\ acked \subseteq Exec /\ bound \subseteq Exec
  BY DEF TypeOK
<1>1. CASE Retry \/ StartTask \/ Reserve
  BY <1>1, OrderSteps DEF Retry, InTime, StartTask, Reserve, Reserves
<1>2. CASE RequestCancel \/ LookForHandle \/ JoinTask
  BY <1>2, OrderSteps DEF RequestCancel, LookForHandle, JoinTask, Cancelled, Reserves
<1>3. CASE Pause \/ Resume
  BY <1>3, OrderSteps DEF Pause, Resume, Reserves
<1>4. ASSUME NEW e \in Exec, TaskStep(e) PROVE Reserves
  BY <1>4, ResultMoves, OrderSteps DEF TaskStep, ResultStep, SendStart, InTime,
     EnterHostWait, Ended, Bind, StopTurn, RecordHostWait, AckResult, Acknowledge,
     CancelledMove, Taking, Cancelled, Received, PendingMove, YieldMove, LossMove,
     EndMove, TurnMove, LeftMove, Reserves
<1>5. ASSUME NEW c \in Canceller, CancelStep(c) PROVE Reserves
  BY <1>5, OrderSteps DEF CancelStep, SendCancel, CancelPending, ConfirmCancel,
     Cancelled, AckCancelled, Acknowledge, Reserves
<1>6. ASSUME NEW m \in Report, SnapshotStep(m) PROVE Reserves
  BY <1>6, OrderSteps DEF SnapshotStep, AdoptMove, Handled, Adopt, AbsenceMove,
     ConfirmAbsence, TakeUpMove, AdoptCancel, PassMove, Reserves
<1>7. CASE AdoptBind \/ HandleResult
  BY <1>7, OrderSteps DEF AdoptBind, Detached, Lost, HandleResult, Reserves
<1>8. ASSUME NEW e \in Exec, RunnerStep(e) \/ CodexEnds(e) \/ LearnSession(e)
      PROVE  Reserves
  <2>1. CASE RunnerSpawns(e) \/ RunnerCancels(e) \/ RunnerForgets(e) \/ CodexEnds(e) \/
     LearnSession(e)
    BY <2>1, OrderSteps DEF RunnerSpawns, RunnerCancels, RunnerForgets, CodexEnds,
       LearnSession, Reserves
  <2>2. CASE RunnerReserves(e)
    <3>1. ~Ordered("JOB_START", e)' /\ \A f \in Exec : f # e => run'[f] = run[f]
      BY <2>2, FirstSteps DEF RunnerReserves
    <3>2. QED
      BY <3>1 DEF Reserves
  <2>3. QED
    BY <1>8, <2>1, <2>2 DEF RunnerStep
<1>9. CASE Heartbeat \/ Connect \/ Drop \/ Replace
  BY <1>9, OrderSteps DEF Heartbeat, Connect, InTime, Drop, Detached, Lost, Replace,
     Reserves
<1>10. CASE Crash \/ Shutdown \/ Restart \/ UNCHANGED vars
  BY <1>10, OrderSteps DEF Crash, Halted, Shutdown, Restart, vars, Reserves
<1>11. QED
  BY <1>1, <1>2, <1>3, <1>4, <1>5, <1>6, <1>7, <1>8, <1>9, <1>10, SnapshotMoves DEF
     Next, ControllerStep, Receive

LEMMA OrderInvStep ==
    ASSUME TypeOK, ControlInv, FreshInv, OrderInv, [Next]_vars
    PROVE  OrderInv'
<1>1. StartsFirst'
  BY StartsFirstStep DEF OrderInv
<1>2. ASSUME NEW e \in Exec, Ordered("JOB_START", e)'
      PROVE  run'[e] = "none"
  <2> DEFINE o == [type |-> "JOB_START", exec |-> e]
  <2>1. o \in Orders \/ NewOrder(o)
    BY <1>2, OrderStep DEF OrdersGrow, Ordered
  <2>2. CASE o \in Orders
    <3>1. run[e] = "none"
      BY <2>2 DEF OrderInv, Ordered
    <3>2. QED
      BY <1>2, <3>1, ReserveStep DEF Reserves, OrderInv
  <2>3. CASE NewOrder(o)
    <3>1. Starts(e)
      BY <2>3 DEF NewOrder
    <3>2. run' = run /\ task[e].at = "send"
      BY <3>1 DEF Starts, SendStart
    <3>3. QED
      BY <3>2 DEF FreshInv, Told
  <2>4. QED
    BY <2>1, <2>2, <2>3
<1>3. QED
  BY <1>1, <1>2 DEF OrderInv

LEMMA UnconfirmedStep ==
    ASSUME TypeOK, ControlInv, FreshInv, OrderInv, UnconfirmedInv, [Next]_vars
    PROVE  UnconfirmedInv'
<1>1. ASSUME NEW e \in Exec, ~MayRun(e), Told(e) \/ Held(e)
      PROVE  ~MayRun(e)'
  <2>1. ~Starts(e)
    <3>1. Starts(e) => task[e].at = "send"
      BY DEF Starts, SendStart
    <3>2. QED
      BY <1>1, <3>1 DEF FreshInv
  <2>2. QED
    BY <1>1, <2>1, MayRunStep DEF MayNotRise
<1>2. ASSUME NEW e \in Exec, future'[e] = "unconfirmed"
      PROVE  ~MayRun(e)'
  <2>1. future[e] = "unconfirmed" \/ Knows(e, "unconfirmed")
    BY <1>2, LearnStep DEF Learns
  <2>2. ~MayRun(e) /\ (Told(e) \/ Held(e))
    BY <2>1 DEF UnconfirmedInv, Knows, Held, Told
  <2>3. QED
    BY <1>1, <2>2
<1>3. ASSUME NEW m \in Answers', m.kind = "unconfirmed"
      PROVE  m.exec \in Exec /\ ~MayRun(m.exec)'
  <2>1. m \in Mail' /\ m.type = "JOB_RESULT"
    BY <1>3 DEF Answers
  <2>2. m \in Mail \/ NewMail(m)
    BY <2>1, MailStep DEF MailGrows
  <2>3. CASE m \in Mail
    <3>1. m \in Answers /\ m.exec \in Exec
      BY <2>1, <2>3, Messages DEF Answers, Report, Answer
    <3>2. ~MayRun(m.exec) /\ Told(m.exec)
      BY <1>3, <3>1 DEF UnconfirmedInv, Told
    <3>3. QED
      BY <1>1, <3>1, <3>2
  <2>4. CASE NewMail(m)
    <3>1. m # Snapshot(FALSE) /\ m # Snapshot(TRUE)
      BY <2>1, Messages
    <3>2. \A f \in Exec : m # Result(f, "result")
      BY <1>3, Messages
    <3>3. PICK f \in Exec : /\ m = Result(f, "unconfirmed") /\ RunnerCancels(f)
                            /\ run[f] \notin {"alive", "done"}
      BY <2>4, <3>1, <3>2 DEF NewMail
    <3>4. ~Ordered("JOB_START", f)'
      BY <3>3, FirstSteps DEF RunnerCancels, OrderInv
    <3>5. run' = run /\ run[f] # "reserved"
      BY <3>3 DEF RunnerCancels, Command
    <3>6. QED
      BY <3>3, <3>4, <3>5, Messages DEF MayRun
  <2>5. QED
    BY <2>2, <2>3, <2>4
<1>4. QED
  BY <1>2, <1>3 DEF UnconfirmedInv

LEMMA BasicStep ==
    ASSUME BasicInv, [Next]_vars
    PROVE  BasicInv'
  BY TypeStep, ControlStep, FreshStep, EndStep, OrderInvStep, UnconfirmedStep DEF BasicInv

LEMMA BasicInit ==
    ASSUME Init
    PROVE  BasicInv
<1>1. TypeOK
  <2>1. <<>> \in Seq(Order) /\ <<>> \in Seq(Report \cup Answer)
    OBVIOUS
  <2>2. 0 \in 0..MaxFaults /\ 0 \in 0..MaxEarly
    BY BoundAssumption
  <2>3. rec \in Recovery /\ canceller \in [Canceller -> Cancellation] /\ task \in [Exec -> Turn]
    BY DEF Init, Recovery, Cancellation, Turn, Idle, NoTask
  <2>4. ledger \in [Exec -> LedgerState] /\ future \in [Exec -> Future] /\ run \in [Exec -> ExecState]
    BY DEF Init, LedgerState, Future, ExecState
  <2>5. QED
    BY <2>1, <2>2, <2>3, <2>4 DEF Init, TypeOK
<1>2. Orders = {} /\ Mail = {} /\ Reports = {} /\ Answers = {}
  BY EmptyQueue DEF Init, Orders, Mail, Reports, Answers
<1>3. ControlInv
  <2>1. DownInv /\ CancelInv
    BY DEF Init, DownInv, CancelInv, NoTasks, Idle
  <2>2. RowsInv /\ FutureInv /\ TasksInv
    BY DEF Init, RowsInv, FutureInv, TasksInv, NoTask, NoRec
  <2>3. UsedInv
    BY DEF Init, UsedInv, Used
  <2>4. QED
    BY <2>1, <2>2, <2>3 DEF ControlInv
<1>4. FreshInv
  BY <1>2, NoExecIsNone DEF Init, FreshInv, Held, Told, Idle
<1>5. EndInv /\ UnconfirmedInv
  BY <1>2 DEF Init, EndInv, UnconfirmedInv, Ordered
<1>6. OrderInv
  <2>1. DOMAIN toRunner = {}
    BY DEF Init
  <2>2. QED
    BY <1>2, <2>1 DEF Init, OrderInv, StartsFirst, Ordered
<1>7. QED
  BY <1>1, <1>3, <1>4, <1>5, <1>6 DEF BasicInv

THEOREM TypeCorrect == Spec => []TypeOK
<1>1. BasicInv => TypeOK
  BY DEF BasicInv
<1>2. Spec => []BasicInv
  <2>1. Init => BasicInv
    BY BasicInit
  <2>2. BasicInv /\ [Next]_vars => BasicInv'
    BY BasicStep
  <2>3. QED
    BY <2>1, <2>2, PTL DEF Spec
<1>3. QED
  BY <1>1, <1>2, PTL

-----------------------------------------------------------------------------
(* The Runner that this module takes for granted keeps its contract.       *)

RunMoves ==
    \A e \in Exec :
        \/ run'[e] = run[e]
        \/ run[e] = "none" /\ run'[e] = "reserved"
        \/ run[e] = "reserved" /\ run'[e] \in {"alive", "refused"}
        \/ run[e] = "alive" /\ run'[e] = "done"
        \/ run[e] = "done" /\ run'[e] = "gone" /\ e \in acked

\* The life of an execution, step by step.
LEMMA RunMoveStep ==
    ASSUME TypeOK, EndInv, [Next]_vars
    PROVE  RunMoves
<1> /\ state \in Active \cup Terminal \cup {"WAITING_HOST", "PAUSED", "CANCELLING"}
    /\ rec \in Recovery /\ ledger \in [Exec -> LedgerState] /\ handle \in Exec \cup {NoExec}
    /\ future \in [Exec -> Future] /\ task \in [Exec -> Turn]
    /\ canceller \in [Canceller -> Cancellation] /\ adopting \in Exec \cup {NoExec}
    /\ run \in [Exec -> ExecState] /\ acked \subseteq Exec /\ bound \subseteq Exec
  BY DEF TypeOK
<1>1. CASE Retry \/ StartTask \/ Reserve
  BY <1>1, OrderSteps DEF Retry, InTime, StartTask, Reserve, RunMoves
<1>2. CASE RequestCancel \/ LookForHandle \/ JoinTask
  BY <1>2, OrderSteps DEF RequestCancel, LookForHandle, JoinTask, Cancelled, RunMoves
<1>3. CASE Pause \/ Resume
  BY <1>3, OrderSteps DEF Pause, Resume, RunMoves
<1>4. ASSUME NEW e \in Exec, TaskStep(e) PROVE RunMoves
  BY <1>4, ResultMoves, OrderSteps DEF TaskStep, ResultStep, SendStart, InTime,
     EnterHostWait, Ended, Bind, StopTurn, RecordHostWait, AckResult, Acknowledge,
     CancelledMove, Taking, Cancelled, Received, PendingMove, YieldMove, LossMove,
     EndMove, TurnMove, LeftMove, RunMoves
<1>5. ASSUME NEW c \in Canceller, CancelStep(c) PROVE RunMoves
  BY <1>5, OrderSteps DEF CancelStep, SendCancel, CancelPending, ConfirmCancel,
     Cancelled, AckCancelled, Acknowledge, RunMoves
<1>6. ASSUME NEW m \in Report, SnapshotStep(m) PROVE RunMoves
  BY <1>6, OrderSteps DEF SnapshotStep, AdoptMove, Handled, Adopt, AbsenceMove,
     ConfirmAbsence, TakeUpMove, AdoptCancel, PassMove, RunMoves
<1>7. CASE AdoptBind \/ HandleResult
  BY <1>7, OrderSteps DEF AdoptBind, Detached, Lost, HandleResult, RunMoves
<1>8. ASSUME NEW e \in Exec, RunnerStep(e) \/ CodexEnds(e) \/ LearnSession(e)
      PROVE  RunMoves
  <2>1. CASE RunnerReserves(e) \/ RunnerSpawns(e) \/ RunnerCancels(e) \/ CodexEnds(e) \/
     LearnSession(e)
    BY <2>1, OrderSteps DEF RunnerReserves, RunnerSpawns, RunnerCancels, CodexEnds,
       LearnSession, RunMoves
  <2>2. CASE RunnerForgets(e)
    <3>1. Ordered("JOB_RESULT_ACK", e)
      BY <2>2, OrderSteps DEF RunnerForgets, Ordered
    <3>2. e \in acked
      BY <3>1 DEF EndInv
    <3>3. QED
      BY <2>2, <3>2 DEF RunnerForgets, RunMoves
  <2>3. QED
    BY <1>8, <2>1, <2>2 DEF RunnerStep
<1>9. CASE Heartbeat \/ Connect \/ Drop \/ Replace
  BY <1>9, OrderSteps DEF Heartbeat, Connect, InTime, Drop, Detached, Lost, Replace,
     RunMoves
<1>10. CASE Crash \/ Shutdown \/ Restart \/ UNCHANGED vars
  BY <1>10, OrderSteps DEF Crash, Halted, Shutdown, Restart, vars, RunMoves
<1>11. QED
  BY <1>1, <1>2, <1>3, <1>4, <1>5, <1>6, <1>7, <1>8, <1>9, <1>10, SnapshotMoves DEF
     Next, ControllerStep, Receive

\* What a Runner may do to the record and to the process of an execution, and what the
\* Controller may acknowledge.
LEMMA ContractStep ==
    ASSUME BasicInv, [Next]_vars
    PROVE  Contract!Next
<1> DEFINE P(x) == CASE x = "alive" -> "alive" [] x \in {"done", "gone"} -> "exited"
                     [] OTHER -> "none"
           R(x) == CASE x \in {"reserved", "alive"} -> "active" [] x = "done" -> "finished"
                     [] OTHER -> "absent"
<1>1. /\ TypeOK /\ TypeOK' /\ EndInv /\ EndInv'
      /\ run \in [Exec -> ExecState] /\ run' \in [Exec -> ExecState]
  BY BasicStep DEF BasicInv, TypeOK
<1>2. RunMoves /\ Acknowledges /\ acked \subseteq acked'
  BY <1>1, RunMoveStep, AcknowledgeStep, AckedStep DEF BasicInv
<1>3. ASSUME NEW e \in Exec PROVE Contract!ProcessStep(e)
  BY <1>1, <1>2 DEF RunMoves, Contract!ProcessStep
<1>4. ASSUME NEW e \in Exec PROVE Contract!RecordStep(e)
  BY <1>1, <1>2 DEF RunMoves, Contract!RecordStep
<1>5. ASSUME NEW e \in Exec PROVE Contract!AckStep(e)
  <2>1. e \in acked => HasEnded(e) /\ e \in acked'
    BY <1>1, <1>2 DEF EndInv
  <2>2. e \in acked' \ acked => run[e] \in {"refused", "done", "gone"}
    BY <1>1, <1>2 DEF EndInv, Acknowledges, HasEnded
  <2>3. run[e] \in {"refused", "done", "gone"} => (run'[e] = "refused" <=> run[e] = "refused")
    BY <1>2 DEF RunMoves
  <2>4. QED
    BY <2>1, <2>2, <2>3 DEF HasEnded, Contract!AckStep
<1>6. /\ [e \in Exec |-> P(run'[e])] \in [Exec -> {"none", "alive", "exited"}]
      /\ [e \in Exec |-> R(run'[e])] \in [Exec -> {"absent", "active", "finished"}]
      /\ {e \in acked' : run'[e] # "refused"} \in SUBSET Exec
  BY <1>1 DEF TypeOK
<1>7. QED
  BY <1>3, <1>4, <1>5, <1>6 DEF Contract!Next

\* Whatever the Controller, the connection and the users do, the Runner of this
\* module does what RunnerContract allows, and no more (RunnerDaemon is proved to
\* implement the same module).
THEOREM RunnerKeepsContract == Spec => RunnerAsPromised
<1>1. Init => Contract!Init
  BY DEF Init, Contract!Init
<1>2. BasicInv /\ [Next]_vars => [Contract!Next]_Contract!vars
  BY ContractStep
<1>3. Spec => []BasicInv
  <2>1. Init => BasicInv
    BY BasicInit
  <2>2. BasicInv /\ [Next]_vars => BasicInv'
    BY BasicStep
  <2>3. QED
    BY <2>1, <2>2, PTL DEF Spec
<1>4. QED
  BY <1>1, <1>2, <1>3, PTL DEF Spec, RunnerAsPromised, Contract!Spec

\* At most one task has the Job's turn.
LEMMA OwnerStep ==
    ASSUME TypeOK, ControlInv, OwnerInv, [Next]_vars
    PROVE  OwnerInv'
<1> /\ state \in Active \cup Terminal \cup {"WAITING_HOST", "PAUSED", "CANCELLING"}
    /\ rec \in Recovery /\ ledger \in [Exec -> LedgerState] /\ handle \in Exec \cup {NoExec}
    /\ future \in [Exec -> Future] /\ task \in [Exec -> Turn]
    /\ canceller \in [Canceller -> Cancellation] /\ adopting \in Exec \cup {NoExec}
    /\ run \in [Exec -> ExecState] /\ acked \subseteq Exec /\ bound \subseteq Exec
  BY DEF TypeOK
<1> DownInv /\ CancelInv /\ RowsInv /\ OwnerInv
  BY DEF ControlInv
<1>d. /\ \A e, f \in Exec : Driving(e) /\ Driving(f) => e = f
      /\ \A e \in Exec :
            Driving(e) => Suits(task[e]) /\ dispatch = "none" /\ adopting = NoExec
      /\ \/ dispatch = "none"
         \/ dispatch = "START" /\ state = "ASSIGNED"
         \/ dispatch = "FRESH" /\ state = "STARTING"
         \/ dispatch \in {"RESUME", "NEW"} /\ state = "RUNNING"
         \/ state \in Cancelling \cup {"PAUSED"}
      /\ adopting # NoExec => dispatch = "none" /\ state \in {"ASSIGNED"} \cup Cancelling
  BY DEF OwnerInv
<1>c. /\ \A c \in Canceller : canceller[c].at # "idle" => state \in Cancelling
      /\ \A e \in Exec : Driving(e) => task[e] # NoTask
  BY DEF CancelInv, Driving, NoTask
<1>1. CASE Retry \/ StartTask \/ Reserve
  BY <1>1, <1>d, <1>c DEF Retry, Quiet, NoTask, StartTask, Reserve, OwnerInv, Driving,
     Suits, Cancelling, Terminal
<1>2. CASE RequestCancel \/ LookForHandle \/ JoinTask
  BY <1>2, <1>d, <1>c DEF RequestCancel, LookForHandle, JoinTask, Cancelled, OwnerInv,
     Driving, Suits, Cancelling, Terminal
<1>3. CASE Pause \/ Resume
  BY <1>3, <1>d, <1>c DEF Pause, Resume, Quiet, OwnerInv, Driving, Suits, Cancelling,
     Terminal
<1>4. ASSUME NEW e \in Exec, TaskStep(e) PROVE OwnerInv'
  <2>1. CASE Bind(e) \/ RecordHostWait(e) \/ AckResult(e) \/ CancelledMove(e) \/
     PendingMove(e)
    BY <2>1, <1>d, <1>c DEF Bind, RecordHostWait, Ended, AckResult, Acknowledge, NoTask,
       CancelledMove, Taking, Cancelled, Received, PendingMove, OwnerInv, Driving,
       Suits, Cancelling, Terminal
  <2>2. CASE YieldMove(e)
    BY <2>2, <1>d, <1>c DEF YieldMove, Taking, Ended, Received, OwnerInv, Driving,
       Suits, Cancelling, Terminal
  <2>3. CASE LossMove(e)
    BY <2>3, <1>d, <1>c DEF LossMove, Taking, Received, OwnerInv, Driving, Suits,
       Cancelling, Terminal
  <2>4. CASE EndMove(e)
    BY <2>4, <1>d, <1>c DEF EndMove, Taking, Received, OwnerInv, Driving, Suits,
       Cancelling, Terminal
  <2>5. CASE TurnMove(e)
    BY <2>5, <1>d, <1>c DEF TurnMove, Taking, Received, OwnerInv, Driving, Suits,
       Cancelling, Terminal
  <2>6. CASE LeftMove(e)
    BY <2>6, <1>d, <1>c DEF LeftMove, Taking, Received, OwnerInv, Driving, Suits,
       Cancelling, Terminal
  <2>7. CASE SendStart(e)
    <3>1. Driving(e) /\ task \in [Exec -> Turn]
      BY <2>7 DEF SendStart, Driving
    <3>2. /\ dispatch = "none" /\ adopting = NoExec /\ dispatch' = dispatch /\ adopting' = adopting
          /\ Suits(task[e]) /\ \A f \in Exec : f # e => ~Driving(f) /\ task'[f] = task[f]
      BY <2>7, <3>1, <1>d DEF SendStart, EnterHostWait, Ended
    <3>3. \/ ~Driving(e)'
          \/ task'[e] = [task[e] EXCEPT !.at = "bind"] /\ task[e].at = "send" /\ state' = state
      BY <2>7, <3>1 DEF SendStart, EnterHostWait, Ended, Driving, NoTask, Turn
    <3>4. CASE ~Driving(e)'
      BY <3>2, <3>4 DEF OwnerInv, Driving
    <3>5. CASE task'[e] = [task[e] EXCEPT !.at = "bind"] /\ task[e].at = "send" /\ state' = state
      <4>1. task'[e].at = "bind" /\ task'[e].mode = task[e].mode
        BY <3>1, <3>5 DEF Turn
      <4>2. Suits(task'[e])
        BY <3>2, <3>5, <4>1 DEF Suits
      <4>3. QED
        BY <3>2, <3>5, <4>2 DEF OwnerInv, Driving, Suits
    <3>6. QED
      BY <3>3, <3>4, <3>5
  <2>8. CASE StopTurn(e)
    <3>1. Driving(e) /\ task \in [Exec -> Turn]
      BY <2>8 DEF StopTurn, Driving
    <3>2. /\ dispatch = "none" /\ adopting = NoExec /\ dispatch' = dispatch /\ adopting' = adopting
          /\ Suits(task[e]) /\ \A f \in Exec : f # e => ~Driving(f) /\ task'[f] = task[f]
      BY <2>8, <3>1, <1>d DEF StopTurn, EnterHostWait, Ended
    <3>3. task[e].at \in {"stop", "stopping"} /\ state \in Cancelling \cup {"PAUSED"}
      BY <2>8, <3>2 DEF StopTurn, Suits
    <3>4. \/ ~Driving(e)'
          \/ Driving(e)' /\ state' = state
      BY <2>8, <3>1 DEF StopTurn, EnterHostWait, Ended, Driving, NoTask, Turn
    <3>5. QED
      BY <3>2, <3>3, <3>4 DEF OwnerInv, Driving, Suits
  <2>9. QED
    BY <1>4, ResultMoves, <2>1, <2>2, <2>3, <2>4, <2>5, <2>6, <2>7, <2>8 DEF TaskStep,
       ResultStep
<1>5. ASSUME NEW c \in Canceller, CancelStep(c) PROVE OwnerInv'
  BY <1>5, <1>d, <1>c DEF CancelStep, SendCancel, CancelPending, ConfirmCancel,
     Cancelled, AckCancelled, Acknowledge, OwnerInv, Driving, Suits, Cancelling,
     Terminal
<1>6. ASSUME NEW m \in Report, SnapshotStep(m) PROVE OwnerInv'
  BY <1>6, <1>d, <1>c, LookedTypes DEF SnapshotStep, AdoptMove, Handled, Adopt, Adopts,
     AbsenceMove, ConfirmAbsence, Looked, TakeUpMove, AdoptCancel, PassMove, OwnerInv,
     Driving, Suits, Cancelling, Terminal
<1>7. CASE AdoptBind \/ HandleResult
  BY <1>7, <1>d, <1>c DEF AdoptBind, Detached, Lost, HandleResult, OwnerInv, Driving,
     Suits, Cancelling, Terminal
<1>8. ASSUME NEW e \in Exec, RunnerStep(e) \/ CodexEnds(e) \/ LearnSession(e)
      PROVE  OwnerInv'
  BY <1>8, <1>d, <1>c DEF RunnerStep, RunnerReserves, RunnerSpawns, RunnerCancels,
     RunnerForgets, CodexEnds, LearnSession, OwnerInv, Driving, Suits, Cancelling,
     Terminal
<1>9. CASE Heartbeat \/ Connect \/ Drop \/ Replace
  <2>1. CASE Heartbeat
    BY <2>1, <1>d, <1>c DEF Heartbeat, OwnerInv, Driving, Suits, Cancelling, Terminal
  <2>2. CASE Connect
    BY <2>2, <1>d, <1>c DEF Connect, OwnerInv, Driving, Suits, Cancelling, Terminal
  <2>3. CASE Drop
    BY <2>3, <1>d, <1>c DEF Drop, Detached, Lost, OwnerInv, Driving, Suits, Cancelling,
       Terminal
  <2>4. CASE Replace
    BY <2>4, <1>d, <1>c DEF Replace, OwnerInv, Driving, Suits, Cancelling, Terminal
  <2>5. QED
    BY <1>9, <2>1, <2>2, <2>3, <2>4
<1>10. CASE Crash \/ Shutdown \/ Restart \/ UNCHANGED vars
  BY <1>10, <1>d, <1>c DEF Crash, Halted, NoTask, Shutdown, Restart, DownInv, NoTasks,
     Active, vars, OwnerInv, Driving, Suits, Cancelling, Terminal
<1>11. QED
  BY <1>1, <1>2, <1>3, <1>4, <1>5, <1>6, <1>7, <1>8, <1>9, <1>10, SnapshotMoves DEF
     Next, ControllerStep, Receive

\* A result is acknowledged when the Job is over, was stopped or goes on.
LEMMA SettledStep ==
    ASSUME TypeOK, ControlInv, OwnerInv, [Next]_vars
    PROVE  Settled
<1> /\ state \in Active \cup Terminal \cup {"WAITING_HOST", "PAUSED", "CANCELLING"}
    /\ rec \in Recovery /\ ledger \in [Exec -> LedgerState] /\ handle \in Exec \cup {NoExec}
    /\ future \in [Exec -> Future] /\ task \in [Exec -> Turn]
    /\ canceller \in [Canceller -> Cancellation] /\ adopting \in Exec \cup {NoExec}
    /\ run \in [Exec -> ExecState] /\ acked \subseteq Exec /\ bound \subseteq Exec
  BY DEF TypeOK
<1> DownInv /\ CancelInv /\ RowsInv /\ OwnerInv
  BY DEF ControlInv
<1>d. /\ \A e, f \in Exec : Driving(e) /\ Driving(f) => e = f
      /\ \A e \in Exec :
            Driving(e) => Suits(task[e]) /\ dispatch = "none" /\ adopting = NoExec
      /\ \/ dispatch = "none"
         \/ dispatch = "START" /\ state = "ASSIGNED"
         \/ dispatch = "FRESH" /\ state = "STARTING"
         \/ dispatch \in {"RESUME", "NEW"} /\ state = "RUNNING"
         \/ state \in Cancelling \cup {"PAUSED"}
      /\ adopting # NoExec => dispatch = "none" /\ state \in {"ASSIGNED"} \cup Cancelling
  BY DEF OwnerInv
<1>c. /\ \A c \in Canceller : canceller[c].at # "idle" => state \in Cancelling
      /\ \A e \in Exec : Driving(e) => task[e] # NoTask
  BY DEF CancelInv, Driving, NoTask
<1>1. CASE Retry \/ StartTask \/ Reserve
  BY <1>1 DEF Retry, InTime, StartTask, Reserve, Settled
<1>2. CASE RequestCancel \/ LookForHandle \/ JoinTask
  BY <1>2 DEF RequestCancel, LookForHandle, JoinTask, Cancelled, Settled
<1>3. CASE Pause \/ Resume
  BY <1>3 DEF Pause, Resume, Settled
<1>4. ASSUME NEW e \in Exec, TaskStep(e) PROVE Settled
  BY <1>4, ResultMoves, <1>d DEF TaskStep, ResultStep, SendStart, InTime, EnterHostWait,
     Ended, Bind, StopTurn, RecordHostWait, AckResult, Acknowledge, Driving, Suits,
     Cancelling, Terminal, CancelledMove, Taking, Cancelled, Received, PendingMove,
     YieldMove, LossMove, EndMove, TurnMove, LeftMove, Settled
<1>5. ASSUME NEW c \in Canceller, CancelStep(c) PROVE Settled
  BY <1>5 DEF CancelStep, SendCancel, CancelPending, ConfirmCancel, Cancelled,
     AckCancelled, Acknowledge, CancelInv, Terminal, Settled
<1>6. ASSUME NEW m \in Report, SnapshotStep(m) PROVE Settled
  BY <1>6 DEF SnapshotStep, AdoptMove, Handled, Adopt, Over, AbsenceMove,
     ConfirmAbsence, TakeUpMove, AdoptCancel, PassMove, Settled
<1>7. CASE AdoptBind \/ HandleResult
  BY <1>7 DEF AdoptBind, Detached, Lost, HandleResult, Settled
<1>8. ASSUME NEW e \in Exec, RunnerStep(e) \/ CodexEnds(e) \/ LearnSession(e)
      PROVE  Settled
  BY <1>8 DEF RunnerStep, RunnerReserves, RunnerSpawns, RunnerCancels, RunnerForgets,
     CodexEnds, LearnSession, Settled
<1>9. CASE Heartbeat \/ Connect \/ Drop \/ Replace
  BY <1>9 DEF Heartbeat, Connect, InTime, Drop, Detached, Lost, Replace, Settled
<1>10. CASE Crash \/ Shutdown \/ Restart \/ UNCHANGED vars
  BY <1>10 DEF Crash, Halted, Shutdown, Restart, vars, Settled
<1>11. QED
  BY <1>1, <1>2, <1>3, <1>4, <1>5, <1>6, <1>7, <1>8, <1>9, <1>10, SnapshotMoves DEF
     Next, ControllerStep, Receive

\* Time helps: nothing is too early.
OnTime == \A settled \in BOOLEAN : InTime(settled) => settled

LEMMA TimeSettles ==
    ASSUME TypeOK, Never'
    PROVE  OnTime
<1>1. \A n \in Nat : n + 1 # 0
  OBVIOUS
<1>2. early \in Nat /\ early' = 0
  BY BoundAssumption DEF TypeOK, Never
<1>3. QED
  BY <1>1, <1>2 DEF InTime, OnTime

\* Nobody touches the row of an execution whose command is about to be sent.
SendKept == \A f \in Exec : task[f].at = "send" => ledger'[f] = ledger[f]

\* A Job that was never paused and had nothing too early never had it before.
LEMMA NeverBefore ==
    ASSUME TypeOK, Never', [Next]_vars
    PROVE  Never
<1>0. early \in Nat /\ early' = 0 /\ paused' = "never" /\ paused \in {"never", "paused", "over", "live"}
  BY BoundAssumption DEF TypeOK, Never
<1>t. \A n \in Nat : n + 1 # 0
  OBVIOUS
<1>1. CASE Retry \/ StartTask \/ Reserve
  BY <1>1, <1>0, <1>t DEF Retry, InTime, StartTask, Reserve, Never
<1>2. CASE RequestCancel \/ LookForHandle \/ JoinTask
  BY <1>2, <1>0, <1>t DEF RequestCancel, LookForHandle, JoinTask, Cancelled, Never
<1>3. CASE Pause \/ Resume
  BY <1>3, <1>0, <1>t DEF Pause, Resume, Never
<1>4. ASSUME NEW e \in Exec, TaskStep(e) PROVE Never
  BY <1>4, ResultMoves, <1>0, <1>t DEF TaskStep, ResultStep, SendStart, InTime,
     EnterHostWait, Ended, Bind, StopTurn, RecordHostWait, AckResult, Acknowledge,
     CancelledMove, Taking, Cancelled, Received, PendingMove, YieldMove, LossMove,
     EndMove, TurnMove, LeftMove, Never
<1>5. ASSUME NEW c \in Canceller, CancelStep(c) PROVE Never
  BY <1>5, <1>0, <1>t DEF CancelStep, SendCancel, CancelPending, ConfirmCancel,
     Cancelled, AckCancelled, Acknowledge, Never
<1>6. ASSUME NEW m \in Report, SnapshotStep(m) PROVE Never
  BY <1>6, <1>0, <1>t DEF SnapshotStep, AdoptMove, Handled, Adopt, AbsenceMove,
     ConfirmAbsence, TakeUpMove, AdoptCancel, PassMove, Never
<1>7. CASE AdoptBind \/ HandleResult
  BY <1>7, <1>0, <1>t DEF AdoptBind, Detached, Lost, HandleResult, Never
<1>8. ASSUME NEW e \in Exec, RunnerStep(e) \/ CodexEnds(e) \/ LearnSession(e)
      PROVE  Never
  BY <1>8, <1>0, <1>t DEF RunnerStep, RunnerReserves, RunnerSpawns, RunnerCancels,
     RunnerForgets, CodexEnds, LearnSession, Never
<1>9. CASE Heartbeat \/ Connect \/ Drop \/ Replace
  BY <1>9, <1>0, <1>t DEF Heartbeat, Connect, InTime, Drop, Detached, Lost, Replace,
     Never
<1>10. CASE Crash \/ Shutdown \/ Restart \/ UNCHANGED vars
  BY <1>10, <1>0, <1>t DEF Crash, Halted, Shutdown, Restart, vars, Never
<1>11. QED
  BY <1>1, <1>2, <1>3, <1>4, <1>5, <1>6, <1>7, <1>8, <1>9, <1>10, SnapshotMoves DEF
     Next, ControllerStep, Receive

-----------------------------------------------------------------------------
(* The first snapshot of a connection.                                     *)

LEMMA LinkSteps ==
    ASSUME TypeOK, LinkInv
    PROVE  /\ UNCHANGED <<toController, conn, synced, adopting>> => LinkInv'
           /\ toController' = <<>> /\ ~conn' => LinkInv'
           /\ toController # <<>> /\ toController' = Tail(toController) =>
                 /\ \A i \in DOMAIN toController' : ~IsFull(toController'[i])
                 /\ IsFull(Head(toController)) => ~synced
                 /\ conn /\ ~synced /\ adopting = NoExec => IsFull(Head(toController))
           /\ \A m \in Report \cup Answer :
                 Tell(m) /\ ~IsFull(m) /\ UNCHANGED <<conn, synced, adopting>> => LinkInv'
           /\ Flush /\ synced' = FALSE /\ adopting' = NoExec => LinkInv'
<1>1. toController \in Seq(Report \cup Answer) /\ run \in [Exec -> ExecState]
  BY DEF TypeOK
<1>2. ASSUME UNCHANGED <<toController, conn, synced, adopting>> PROVE LinkInv'
  BY <1>2 DEF LinkInv, IsFull
<1>3. ASSUME toController' = <<>>, ~conn' PROVE LinkInv'
  <2>1. DOMAIN toController' = {}
    BY <1>3
  <2>2. QED
    BY <1>3, <2>1 DEF LinkInv
<1>4. ASSUME toController # <<>>, toController' = Tail(toController)
      PROVE  /\ \A i \in DOMAIN toController' : ~IsFull(toController'[i])
             /\ IsFull(Head(toController)) => ~synced
             /\ conn /\ ~synced /\ adopting = NoExec => IsFull(Head(toController))
  <2>1. /\ Head(toController) = toController[1] /\ 1 \in DOMAIN toController
        /\ Tail(toController) \in Seq(Report \cup Answer)
        /\ \A i \in DOMAIN Tail(toController) :
              i + 1 \in DOMAIN toController /\ Tail(toController)[i] = toController[i + 1]
    BY <1>1, <1>4, TailQueue
  <2>2. \A i \in DOMAIN Tail(toController) : i \in Nat \ {0} /\ i + 1 # 1
    BY <2>1
  <2>3. ASSUME NEW i \in DOMAIN Tail(toController) PROVE ~IsFull(Tail(toController)[i])
    <3>1. ~IsFull(toController[i + 1])
      BY <2>1, <2>2 DEF LinkInv
    <3>2. QED
      BY <2>1, <3>1
  <2>4. QED
    BY <1>4, <2>1, <2>3 DEF LinkInv
<1>5. ASSUME NEW m \in Report \cup Answer, Tell(m), ~IsFull(m),
             UNCHANGED <<conn, synced, adopting>>
      PROVE  LinkInv'
  <2>1. CASE ~conn
    BY <1>2, <1>5, <2>1 DEF Tell
  <2>2. CASE conn
    <3>1. toController' = Append(toController, m)
      BY <1>5, <2>2 DEF Tell
    <3>2. /\ DOMAIN toController' = 1..(Len(toController) + 1)
          /\ toController'[Len(toController) + 1] = m /\ toController' # <<>>
          /\ \A i \in 1..Len(toController) : toController'[i] = toController[i]
      BY <1>1, <3>1
    <3>3. /\ DOMAIN toController = 1..Len(toController)
          /\ \A i \in 1..(Len(toController) + 1) :
                i \in 1..Len(toController) \/ i = Len(toController) + 1
          /\ toController # <<>> => 1 \in 1..Len(toController)
      BY <1>1
    <3>4. ASSUME NEW i \in DOMAIN toController', IsFull(toController'[i])
          PROVE  i \in DOMAIN toController /\ IsFull(toController[i])
      BY <1>5, <3>2, <3>3, <3>4
    <3>5. /\ \A i \in DOMAIN toController : IsFull(toController[i]) =>
                i = 1 /\ ~synced /\ adopting = NoExec
          /\ conn /\ ~synced /\ adopting = NoExec =>
                toController # <<>> /\ IsFull(toController[1])
      BY DEF LinkInv
    <3>6. conn' /\ ~synced' /\ adopting' = NoExec => IsFull(toController'[1])
      BY <1>5, <3>2, <3>3, <3>5
    <3>7. QED
      BY <1>5, <3>2, <3>4, <3>5, <3>6 DEF LinkInv, IsFull
  <2>3. QED
    BY <2>1, <2>2
<1>6. ASSUME Flush, synced' = FALSE, adopting' = NoExec PROVE LinkInv'
  <2>1. /\ toController' # <<>> /\ toController'[1] = Snapshot(TRUE)
        /\ \A i \in DOMAIN toController' :
              i = 1 \/ \E e \in Completed : toController'[i] = Result(e, "result")
    BY <1>1, <1>6, FlushQueue
  <2>2. IsFull(Snapshot(TRUE)) /\ \A e : ~IsFull(Result(e, "result"))
    BY DEF IsFull, Snapshot, Result
  <2>3. \A i \in DOMAIN toController' : IsFull(toController'[i]) => i = 1
    BY <2>1, <2>2
  <2>4. QED
    BY <1>6, <2>1, <2>2, <2>3 DEF LinkInv, IsFull
<1>7. QED
  BY <1>2, <1>3, <1>4, <1>5, <1>6

LEMMA NotFull ==
    /\ ~IsFull(Snapshot(FALSE))
    /\ \A e, kind : ~IsFull(Result(e, kind))
  BY DEF IsFull, Snapshot, Result

\* Nobody touches the row of an execution whose command is about to be sent.
LEMMA SendRowStep ==
    ASSUME BasicInv, NeverInv, Never, Never', [Next]_vars
    PROVE  SendKept
<1> TypeOK
  BY DEF BasicInv
<1> /\ state \in Active \cup Terminal \cup {"WAITING_HOST", "PAUSED", "CANCELLING"}
    /\ rec \in Recovery /\ ledger \in [Exec -> LedgerState] /\ handle \in Exec \cup {NoExec}
    /\ future \in [Exec -> Future] /\ task \in [Exec -> Turn]
    /\ canceller \in [Canceller -> Cancellation] /\ adopting \in Exec \cup {NoExec}
    /\ run \in [Exec -> ExecState] /\ acked \subseteq Exec /\ bound \subseteq Exec
  BY DEF TypeOK
<1>t. \A settled \in BOOLEAN : InTime(settled) => settled
  BY TimeSettles DEF BasicInv, OnTime
<1> paused' = "never" /\ paused = "never" /\ synced \in BOOLEAN /\ conn \in BOOLEAN
  BY DEF Never, TypeOK
<1> /\ ~up => ~conn /\ dispatch = "none" /\ NoTasks /\ handle = NoExec
    /\ ~conn => toController = <<>> /\ adopting = NoExec /\ ~synced
    /\ \A e \in Exec : task[e].at # "none" => task[e] # NoTask
  BY DEF BasicInv, ControlInv, DownInv, NoTask
<1> /\ \A c \in Canceller : canceller[c].at # "idle" => state \in {"CANCELLING", "CANCELLED"}
    /\ \A c \in Canceller : canceller[c].at = "ack" => state = "CANCELLED"
    /\ rec.mode = "CANCEL" => state \in {"CANCELLING", "CANCELLED"}
    /\ state \notin Terminal => rec # NoRec
  BY DEF BasicInv, ControlInv, CancelInv, RowsInv, Cancelling
<1>d. state # "PAUSED" /\ TurnInv /\ DispatchInv /\ AdoptingInv
  BY DEF NeverInv, DriverInv
<1>f. \A e \in Exec :
        /\ ledger[e] = "none" => task[e] = NoTask
        /\ task[e].at = "send" => ~Held(e) /\ ~Told(e)
  BY DEF BasicInv, FreshInv
<1>l. LinkInv
  BY DEF NeverInv
<1>1. CASE Retry \/ StartTask \/ Reserve
  BY <1>1, <1>t, <1>f DEF Retry, StartTask, Reserve, Used, NoTask, SendKept
<1>2. CASE RequestCancel \/ LookForHandle \/ JoinTask
  BY <1>2 DEF RequestCancel, LookForHandle, JoinTask, Cancelled, SendKept
<1>3. CASE Pause \/ Resume
  BY <1>3 DEF Pause, Resume, SendKept
<1>4. ASSUME NEW e \in Exec, TaskStep(e) PROVE SendKept
  BY <1>4, ResultMoves, <1>t DEF TaskStep, ResultStep, SendStart, EnterHostWait, Ended,
     Bind, StopTurn, RecordHostWait, AckResult, Acknowledge, CancelledMove, Taking,
     Cancelled, Received, PendingMove, YieldMove, LossMove, EndMove, TurnMove, LeftMove,
     SendKept
<1>5. ASSUME NEW c \in Canceller, CancelStep(c) PROVE SendKept
  BY <1>5, <1>f DEF CancelStep, SendCancel, CancelPending, ConfirmCancel, Cancelled,
     AckCancelled, Acknowledge, Held, SendKept
<1>6. ASSUME NEW m \in Report, SnapshotStep(m) PROVE SendKept
  <2>1. CASE AdoptMove(m)
    <3>1. /\ m = Head(toController) /\ toController # <<>> /\ m.type = "RUNNING_JOBS"
          /\ toController' = Tail(toController) /\ adopting = NoExec
          /\ ledger' = [f \in Exec |-> IF f \in Closed(m) THEN "ACKNOWLEDGED" ELSE ledger[f]]
      BY <2>1 DEF AdoptMove, Handled
    <3>2. m \in Reports /\ conn
      BY <3>1, MailSteps DEF Reports
    <3>3. m.full => ~synced
      BY <3>1, <1>l, LinkSteps DEF IsFull
    <3>4. ASSUME NEW f \in Exec, task[f].at = "send" PROVE f \notin Closed(m)
      <4>1. ~Told(f) /\ ~m.full
        BY <1>d, <1>f, <3>2, <3>3, <3>4 DEF TurnInv
      <4>2. QED
        BY <3>2, <4>1 DEF Told, Closed, Over, Absent
    <3>5. QED
      BY <3>1, <3>4 DEF SendKept
  <2>2. CASE AbsenceMove(m)
    <3>1. /\ m = Head(toController) /\ toController # <<>> /\ m.type = "RUNNING_JOBS"
          /\ toController' = Tail(toController) /\ adopting = NoExec
          /\ ledger' = [f \in Exec |-> IF f \in Closed(m) THEN "ACKNOWLEDGED" ELSE ledger[f]]
      BY <2>2 DEF AbsenceMove, Handled
    <3>2. m \in Reports /\ conn
      BY <3>1, MailSteps DEF Reports
    <3>3. m.full => ~synced
      BY <3>1, <1>l, LinkSteps DEF IsFull
    <3>4. ASSUME NEW f \in Exec, task[f].at = "send" PROVE f \notin Closed(m)
      <4>1. ~Told(f) /\ ~m.full
        BY <1>d, <1>f, <3>2, <3>3, <3>4 DEF TurnInv
      <4>2. QED
        BY <3>2, <4>1 DEF Told, Closed, Over, Absent
    <3>5. QED
      BY <3>1, <3>4 DEF SendKept
  <2>3. CASE TakeUpMove(m)
    <3>1. /\ m = Head(toController) /\ toController # <<>> /\ m.type = "RUNNING_JOBS"
          /\ toController' = Tail(toController) /\ adopting = NoExec
          /\ ledger' = [f \in Exec |-> IF f \in Closed(m) THEN "ACKNOWLEDGED" ELSE ledger[f]]
      BY <2>3 DEF TakeUpMove, Handled
    <3>2. m \in Reports /\ conn
      BY <3>1, MailSteps DEF Reports
    <3>3. m.full => ~synced
      BY <3>1, <1>l, LinkSteps DEF IsFull
    <3>4. ASSUME NEW f \in Exec, task[f].at = "send" PROVE f \notin Closed(m)
      <4>1. ~Told(f) /\ ~m.full
        BY <1>d, <1>f, <3>2, <3>3, <3>4 DEF TurnInv
      <4>2. QED
        BY <3>2, <4>1 DEF Told, Closed, Over, Absent
    <3>5. QED
      BY <3>1, <3>4 DEF SendKept
  <2>4. CASE PassMove(m)
    <3>1. /\ m = Head(toController) /\ toController # <<>> /\ m.type = "RUNNING_JOBS"
          /\ toController' = Tail(toController) /\ adopting = NoExec
          /\ ledger' = [f \in Exec |-> IF f \in Closed(m) THEN "ACKNOWLEDGED" ELSE ledger[f]]
      BY <2>4 DEF PassMove, Handled
    <3>2. m \in Reports /\ conn
      BY <3>1, MailSteps DEF Reports
    <3>3. m.full => ~synced
      BY <3>1, <1>l, LinkSteps DEF IsFull
    <3>4. ASSUME NEW f \in Exec, task[f].at = "send" PROVE f \notin Closed(m)
      <4>1. ~Told(f) /\ ~m.full
        BY <1>d, <1>f, <3>2, <3>3, <3>4 DEF TurnInv
      <4>2. QED
        BY <3>2, <4>1 DEF Told, Closed, Over, Absent
    <3>5. QED
      BY <3>1, <3>4 DEF SendKept
  <2>5. QED
    BY <1>6, <2>1, <2>2, <2>3, <2>4 DEF SnapshotStep
<1>7. CASE AdoptBind \/ HandleResult
  BY <1>7 DEF AdoptBind, Detached, Lost, HandleResult, SendKept
<1>8. ASSUME NEW e \in Exec, RunnerStep(e) \/ CodexEnds(e) \/ LearnSession(e)
      PROVE  SendKept
  BY <1>8 DEF RunnerStep, RunnerReserves, RunnerSpawns, RunnerCancels, RunnerForgets,
     CodexEnds, LearnSession, SendKept
<1>9. CASE Heartbeat \/ Connect \/ Drop \/ Replace
  BY <1>9, <1>t DEF Heartbeat, Connect, Drop, Detached, Lost, Replace, SendKept
<1>10. CASE Crash \/ Shutdown \/ Restart \/ UNCHANGED vars
  BY <1>10 DEF Crash, Halted, Shutdown, Restart, vars, SendKept
<1>11. QED
  BY <1>1, <1>2, <1>3, <1>4, <1>5, <1>6, <1>7, <1>8, <1>9, <1>10, SnapshotMoves DEF
     Next, ControllerStep, Receive

\* A Job keeps its one task.
LEMMA TurnStep ==
    ASSUME BasicInv, NeverInv, Never, Never', [Next]_vars
    PROVE  TurnInv'
<1> TypeOK
  BY DEF BasicInv
<1> /\ state \in Active \cup Terminal \cup {"WAITING_HOST", "PAUSED", "CANCELLING"}
    /\ rec \in Recovery /\ ledger \in [Exec -> LedgerState] /\ handle \in Exec \cup {NoExec}
    /\ future \in [Exec -> Future] /\ task \in [Exec -> Turn]
    /\ canceller \in [Canceller -> Cancellation] /\ adopting \in Exec \cup {NoExec}
    /\ run \in [Exec -> ExecState] /\ acked \subseteq Exec /\ bound \subseteq Exec
  BY DEF TypeOK
<1>t. \A settled \in BOOLEAN : InTime(settled) => settled
  BY TimeSettles DEF BasicInv, OnTime
<1> paused' = "never" /\ paused = "never" /\ synced \in BOOLEAN /\ conn \in BOOLEAN
  BY DEF Never, TypeOK
<1> /\ ~up => ~conn /\ dispatch = "none" /\ NoTasks /\ handle = NoExec
    /\ ~conn => toController = <<>> /\ adopting = NoExec /\ ~synced
    /\ \A e \in Exec : task[e].at # "none" => task[e] # NoTask
  BY DEF BasicInv, ControlInv, DownInv, NoTask
<1> /\ \A c \in Canceller : canceller[c].at # "idle" => state \in {"CANCELLING", "CANCELLED"}
    /\ \A c \in Canceller : canceller[c].at = "ack" => state = "CANCELLED"
    /\ rec.mode = "CANCEL" => state \in {"CANCELLING", "CANCELLED"}
    /\ state \notin Terminal => rec # NoRec
  BY DEF BasicInv, ControlInv, CancelInv, RowsInv, Cancelling
<1>d. state # "PAUSED" /\ TurnInv /\ DispatchInv /\ AdoptingInv
  BY DEF NeverInv, DriverInv
<1> \A e \in Exec : ledger[e] = "none" => task[e] = NoTask /\ future[e] = "none"
  BY DEF BasicInv, FreshInv, Held
<1>s. SendKept
  BY SendRowStep
<1>1. CASE Retry \/ StartTask \/ Reserve
  BY <1>1, <1>d, <1>t DEF Retry, StartTask, Reserve, DispatchInv, Used, TurnInv, Fits,
     NoTasks, NoTask, Cancelling, Terminal
<1>2. CASE RequestCancel \/ LookForHandle \/ JoinTask
  BY <1>2, <1>d DEF RequestCancel, LookForHandle, JoinTask, Cancelled, TurnInv, Fits,
     NoTasks, NoTask, Cancelling, Terminal
<1>3. CASE Pause \/ Resume
  BY <1>3, <1>d DEF Pause, Resume, TurnInv, Fits, NoTasks, NoTask, Cancelling, Terminal
<1>4. ASSUME NEW e \in Exec, TaskStep(e) PROVE TurnInv'
  <2>1. CASE RecordHostWait(e) \/ AckResult(e)
    BY <2>1, <1>d DEF RecordHostWait, Ended, AckResult, Acknowledge, TurnInv, Fits,
       NoTasks, NoTask, Cancelling, Terminal
  <2>2. CASE CancelledMove(e)
    BY <2>2, <1>d DEF CancelledMove, Taking, Cancelled, Received, TurnInv, Fits,
       NoTasks, NoTask, Cancelling, Terminal
  <2>3. CASE PendingMove(e) \/ YieldMove(e)
    BY <2>3, <1>d DEF PendingMove, Taking, Ended, Received, YieldMove, TurnInv, Fits,
       NoTasks, NoTask, Cancelling, Terminal
  <2>4. CASE LossMove(e)
    BY <2>4, <1>d DEF LossMove, Taking, Received, TurnInv, Fits, NoTasks, NoTask,
       Cancelling, Terminal
  <2>5. CASE EndMove(e)
    BY <2>5, <1>d DEF EndMove, Taking, Received, TurnInv, Fits, NoTasks, NoTask,
       Cancelling, Terminal
  <2>6. CASE TurnMove(e)
    BY <2>6, <1>d DEF TurnMove, Taking, Received, TurnInv, Fits, NoTasks, NoTask,
       Cancelling, Terminal
  <2>7. CASE LeftMove(e)
    BY <2>7, <1>d DEF LeftMove, Taking, Received, TurnInv, Fits, NoTasks, NoTask,
       Cancelling, Terminal
  <2>8. CASE SendStart(e)
    <3>1. task[e] # NoTask /\ \A f \in Exec : f # e => task[f] = NoTask
      BY <2>8, <1>d DEF SendStart, TurnInv
    <3>2. /\ conn' = conn
          /\ \/ /\ conn /\ state' = state /\ future' = [future EXCEPT ![e] = "open"]
                /\ task' = [task EXCEPT ![e].at = "bind"]
             \/ /\ ~conn /\ future' = future
                /\ \/ state' = "WAITING_HOST" /\ task' = [task EXCEPT ![e].at = "record"]
                   \/ state' = state /\ task' = [task EXCEPT ![e] = NoTask]
      BY <2>8 DEF SendStart, CanSend, EnterHostWait, Ended
    <3>3. task[e].at = "send" /\ Fits(task[e])
      BY <2>8, <1>d, <3>1 DEF SendStart, TurnInv
    <3>4. CASE state' = state
      BY <1>d, <3>1, <3>2, <3>3, <3>4 DEF TurnInv, Fits, Turn
    <3>5. CASE state' = "WAITING_HOST"
      BY <1>d, <3>1, <3>2, <3>3, <3>5 DEF TurnInv, Fits, Turn
    <3>6. QED
      BY <3>2, <3>4, <3>5
  <2>9. CASE Bind(e)
    <3>1. task[e] # NoTask /\ \A f \in Exec : f # e => task[f] = NoTask
      BY <2>9, <1>d DEF Bind, TurnInv
    <3>2. /\ future' = future /\ conn' = conn /\ task[e].at = "bind"
          /\ \/ /\ state' = "RUNNING"
                /\ \E mode : task' = [task EXCEPT ![e] = [at |-> "await", mode |-> mode]]
             \/ state \in Cancelling /\ state' = state /\ task' = [task EXCEPT ![e].at = "stop"]
      BY <2>9, <1>d, <3>1 DEF Bind, TurnInv, Fits, Cancelling, Terminal
    <3>3. QED
      BY <1>d, <3>1, <3>2 DEF TurnInv, Fits, Turn
  <2>10. CASE StopTurn(e)
    <3>1. task[e] # NoTask /\ \A f \in Exec : f # e => task[f] = NoTask
      BY <2>10, <1>d DEF StopTurn, TurnInv
    <3>2. /\ state \in Cancelling /\ state' = state /\ future' = future /\ conn' = conn
          /\ \/ task[e].at = "stop" /\ task' = [task EXCEPT ![e].at = "stopping"]
             \/ task' = [task EXCEPT ![e] = NoTask]
      BY <2>10, <1>d, <3>1 DEF StopTurn, EnterHostWait, Ended, TurnInv, Fits, Cancelling, Terminal
    <3>3. QED
      BY <1>d, <3>1, <3>2 DEF TurnInv, Fits, Turn
  <2>11. QED
    BY <1>4, ResultMoves, <2>1, <2>2, <2>3, <2>4, <2>5, <2>6, <2>7, <2>8, <2>9, <2>10
       DEF TaskStep, ResultStep
<1>5. ASSUME NEW c \in Canceller, CancelStep(c) PROVE TurnInv'
  BY <1>5, <1>d, <1>s DEF CancelStep, SendCancel, CancelPending, ConfirmCancel,
     Cancelled, AckCancelled, Acknowledge, SendKept, TurnInv, Fits, NoTasks, NoTask,
     Cancelling, Terminal
<1>6. ASSUME NEW m \in Report, SnapshotStep(m) PROVE TurnInv'
  <2>1. CASE AdoptMove(m)
    BY <2>1, <1>d DEF AdoptMove, Handled, Adopt, Adopts, TurnInv, Fits, NoTasks, NoTask,
       Cancelling, Terminal
  <2>2. CASE AbsenceMove(m)
    <3>1. /\ task' = task /\ conn' = conn /\ state' = state /\ (synced => synced')
          /\ conn /\ \A f \in Exec : future'[f] # future[f] => future'[f] = "open"
      BY <2>2 DEF AbsenceMove, Handled, Looked, ConfirmAbsence
    <3>2. \A f \in Exec : task[f].at = "send" => ledger'[f] = ledger[f]
      BY <1>s DEF SendKept
    <3>3. QED
      BY <1>d, <3>1, <3>2 DEF TurnInv, Fits
  <2>3. CASE TakeUpMove(m)
    <3>1. /\ task' = task /\ conn' = conn /\ state' = state /\ (synced => synced')
          /\ conn /\ \A f \in Exec : future'[f] # future[f] => future'[f] = "open"
      BY <2>3 DEF TakeUpMove, Handled, Looked, AdoptCancel
    <3>2. \A f \in Exec : task[f].at = "send" => ledger'[f] = ledger[f]
      BY <1>s DEF SendKept
    <3>3. QED
      BY <1>d, <3>1, <3>2 DEF TurnInv, Fits
  <2>4. CASE PassMove(m)
    <3>1. /\ task' = task /\ conn' = conn /\ state' = state /\ (synced => synced')
          /\ conn /\ \A f \in Exec : future'[f] # future[f] => future'[f] = "open"
      BY <2>4 DEF PassMove, Handled, Looked
    <3>2. \A f \in Exec : task[f].at = "send" => ledger'[f] = ledger[f]
      BY <1>s DEF SendKept
    <3>3. QED
      BY <1>d, <3>1, <3>2 DEF TurnInv, Fits
  <2>5. QED
    BY <1>6, <2>1, <2>2, <2>3, <2>4 DEF SnapshotStep
<1>7. CASE AdoptBind \/ HandleResult
  <2>1. CASE AdoptBind
    <3>1. NoTasks /\ adopting \in Exec /\ future[adopting] = "open"
      BY <2>1, <1>d DEF AdoptBind, AdoptingInv
    <3>2. CASE state = "ASSIGNED"
      <4>1. /\ task' = [task EXCEPT ![adopting] = [at |-> "await", mode |-> "NEW"]]
            /\ state' = "RUNNING" /\ future' = future
        BY <2>1, <3>2 DEF AdoptBind
      <4>2. QED
        BY <3>1, <4>1 DEF NoTasks, TurnInv, Fits
    <3>3. CASE state # "ASSIGNED"
      BY <2>1, <3>1, <3>3 DEF AdoptBind, NoTasks, TurnInv
    <3>4. QED
      BY <3>2, <3>3
  <2>2. CASE HandleResult
    <3> DEFINE m == Head(toController)
    <3>1. /\ task' = task /\ conn' = conn /\ state' = state /\ synced' = synced
          /\ ledger' = ledger
          /\ toController # <<>> /\ toController' = Tail(toController) /\ m.type = "JOB_RESULT"
          /\ future' = [future EXCEPT ![m.exec] = IF @ = "open" THEN m.kind ELSE @]
      BY <2>2 DEF HandleResult
    <3>2. m \in Report \cup Answer
      BY <3>1, MailSteps
    <3> HIDE DEF m
    <3>3. m.kind # "lost"
      BY <3>1, <3>2 DEF Report, Answer
    <3>4. \A f \in Exec : future'[f] # "lost" \/ future'[f] = future[f]
      BY <3>1, <3>3
    <3>5. QED
      BY <1>d, <3>1, <3>4 DEF TurnInv, Fits
  <2>3. QED
    BY <1>7, <2>1, <2>2
<1>8. ASSUME NEW e \in Exec, RunnerStep(e) \/ CodexEnds(e) \/ LearnSession(e)
      PROVE  TurnInv'
  BY <1>8, <1>d DEF RunnerStep, RunnerReserves, RunnerSpawns, RunnerCancels,
     RunnerForgets, CodexEnds, LearnSession, TurnInv, Fits, NoTasks, NoTask, Cancelling,
     Terminal
<1>9. CASE Heartbeat \/ Connect \/ Drop \/ Replace
  <2>1. CASE Heartbeat
    BY <2>1, <1>d DEF Heartbeat, TurnInv, Fits, NoTasks, NoTask, Cancelling, Terminal
  <2>2. CASE Connect
    BY <2>2, <1>d, <1>t DEF Connect, LossRecorded, TurnInv, Fits, NoTasks, NoTask,
       Cancelling, Terminal
  <2>3. CASE Drop
    BY <2>3, <1>d DEF Drop, Detached, Lost, TurnInv, Fits, NoTasks, NoTask, Cancelling,
       Terminal
  <2>4. CASE Replace
    BY <2>4, <1>d, <1>t DEF Replace, TurnInv, Fits, NoTasks, NoTask, Cancelling,
       Terminal
  <2>5. QED
    BY <1>9, <2>1, <2>2, <2>3, <2>4
<1>10. CASE Crash \/ Shutdown \/ Restart \/ UNCHANGED vars
  BY <1>10, <1>d DEF Crash, Halted, Shutdown, Restart, vars, TurnInv, Fits, NoTasks,
     NoTask, Cancelling, Terminal
<1>11. QED
  BY <1>1, <1>2, <1>3, <1>4, <1>5, <1>6, <1>7, <1>8, <1>9, <1>10, SnapshotMoves DEF
     Next, ControllerStep, Receive

\* A task begins when no other is left.
LEMMA DispatchStep ==
    ASSUME BasicInv, NeverInv, Never, Never', [Next]_vars
    PROVE  DispatchInv'
<1> TypeOK
  BY DEF BasicInv
<1> /\ state \in Active \cup Terminal \cup {"WAITING_HOST", "PAUSED", "CANCELLING"}
    /\ rec \in Recovery /\ ledger \in [Exec -> LedgerState] /\ handle \in Exec \cup {NoExec}
    /\ future \in [Exec -> Future] /\ task \in [Exec -> Turn]
    /\ canceller \in [Canceller -> Cancellation] /\ adopting \in Exec \cup {NoExec}
    /\ run \in [Exec -> ExecState] /\ acked \subseteq Exec /\ bound \subseteq Exec
  BY DEF TypeOK
<1>t. \A settled \in BOOLEAN : InTime(settled) => settled
  BY TimeSettles DEF BasicInv, OnTime
<1> paused' = "never" /\ paused = "never" /\ synced \in BOOLEAN /\ conn \in BOOLEAN
  BY DEF Never, TypeOK
<1> /\ ~up => ~conn /\ dispatch = "none" /\ NoTasks /\ handle = NoExec
    /\ ~conn => toController = <<>> /\ adopting = NoExec /\ ~synced
    /\ \A e \in Exec : task[e].at # "none" => task[e] # NoTask
  BY DEF BasicInv, ControlInv, DownInv, NoTask
<1> /\ \A c \in Canceller : canceller[c].at # "idle" => state \in {"CANCELLING", "CANCELLED"}
    /\ \A c \in Canceller : canceller[c].at = "ack" => state = "CANCELLED"
    /\ rec.mode = "CANCEL" => state \in {"CANCELLING", "CANCELLED"}
    /\ state \notin Terminal => rec # NoRec
  BY DEF BasicInv, ControlInv, CancelInv, RowsInv, Cancelling
<1>d. state # "PAUSED" /\ TurnInv /\ DispatchInv /\ AdoptingInv
  BY DEF NeverInv, DriverInv
<1>1. CASE Retry \/ StartTask \/ Reserve
  BY <1>1, <1>d, <1>t DEF Retry, Quiet, StartTask, Reserve, DispatchInv, NoTasks,
     Cancelling
<1>2. CASE RequestCancel \/ LookForHandle \/ JoinTask
  BY <1>2, <1>d DEF RequestCancel, LookForHandle, JoinTask, Cancelled, DispatchInv,
     NoTasks, Cancelling
<1>3. CASE Pause \/ Resume
  BY <1>3, <1>d DEF Pause, Resume, DispatchInv, NoTasks, Cancelling
<1>4. ASSUME NEW e \in Exec, TaskStep(e) PROVE DispatchInv'
  <2>1. CASE SendStart(e) \/ Bind(e) \/ StopTurn(e) \/ RecordHostWait(e) \/ AckResult(e)
     \/ CancelledMove(e)
    BY <2>1, <1>d, <1>t DEF SendStart, EnterHostWait, Ended, Bind, StopTurn,
       RecordHostWait, AckResult, Acknowledge, TurnInv, Fits, NoTask, Turn,
       CancelledMove, Taking, Cancelled, Received, DispatchInv, NoTasks, Cancelling
  <2>2. CASE PendingMove(e) \/ YieldMove(e) \/ LossMove(e) \/ EndMove(e) \/ TurnMove(e)
     \/ LeftMove(e)
    BY <2>2, <1>d DEF PendingMove, Taking, Ended, Received, YieldMove, LossMove,
       EndMove, TurnMove, LeftMove, DispatchInv, NoTasks, Cancelling
  <2>3. QED
    BY <1>4, ResultMoves, <2>1, <2>2 DEF TaskStep, ResultStep
<1>5. ASSUME NEW c \in Canceller, CancelStep(c) PROVE DispatchInv'
  BY <1>5, <1>d DEF CancelStep, SendCancel, CancelPending, ConfirmCancel, Cancelled,
     AckCancelled, Acknowledge, DispatchInv, NoTasks, Cancelling
<1>6. ASSUME NEW m \in Report, SnapshotStep(m) PROVE DispatchInv'
  BY <1>6, <1>d, LookedTypes DEF SnapshotStep, AdoptMove, Handled, Adopt, Adopts,
     AbsenceMove, ConfirmAbsence, TakeUpMove, AdoptCancel, PassMove, DispatchInv,
     NoTasks, Cancelling
<1>7. CASE AdoptBind \/ HandleResult
  BY <1>7, <1>d DEF AdoptBind, Detached, Lost, AdoptingInv, HandleResult, DispatchInv,
     NoTasks, Cancelling
<1>8. ASSUME NEW e \in Exec, RunnerStep(e) \/ CodexEnds(e) \/ LearnSession(e)
      PROVE  DispatchInv'
  BY <1>8, <1>d DEF RunnerStep, RunnerReserves, RunnerSpawns, RunnerCancels,
     RunnerForgets, CodexEnds, LearnSession, DispatchInv, NoTasks, Cancelling
<1>9. CASE Heartbeat \/ Connect \/ Drop \/ Replace
  BY <1>9, <1>d, <1>t DEF Heartbeat, Connect, Drop, Detached, Lost, Replace,
     DispatchInv, NoTasks, Cancelling
<1>10. CASE Crash \/ Shutdown \/ Restart \/ UNCHANGED vars
  BY <1>10, <1>d DEF Crash, Halted, Shutdown, Restart, vars, DispatchInv, NoTasks,
     Cancelling
<1>11. QED
  BY <1>1, <1>2, <1>3, <1>4, <1>5, <1>6, <1>7, <1>8, <1>9, <1>10, SnapshotMoves DEF
     Next, ControllerStep, Receive

\* A Job is adopted that has nothing else under way.
LEMMA AdoptingStep ==
    ASSUME BasicInv, NeverInv, Never, Never', [Next]_vars
    PROVE  AdoptingInv'
<1> TypeOK
  BY DEF BasicInv
<1> /\ state \in Active \cup Terminal \cup {"WAITING_HOST", "PAUSED", "CANCELLING"}
    /\ rec \in Recovery /\ ledger \in [Exec -> LedgerState] /\ handle \in Exec \cup {NoExec}
    /\ future \in [Exec -> Future] /\ task \in [Exec -> Turn]
    /\ canceller \in [Canceller -> Cancellation] /\ adopting \in Exec \cup {NoExec}
    /\ run \in [Exec -> ExecState] /\ acked \subseteq Exec /\ bound \subseteq Exec
  BY DEF TypeOK
<1>t. \A settled \in BOOLEAN : InTime(settled) => settled
  BY TimeSettles DEF BasicInv, OnTime
<1> paused' = "never" /\ paused = "never" /\ synced \in BOOLEAN /\ conn \in BOOLEAN
  BY DEF Never, TypeOK
<1> /\ ~up => ~conn /\ dispatch = "none" /\ NoTasks /\ handle = NoExec
    /\ ~conn => toController = <<>> /\ adopting = NoExec /\ ~synced
    /\ \A e \in Exec : task[e].at # "none" => task[e] # NoTask
  BY DEF BasicInv, ControlInv, DownInv, NoTask
<1> /\ \A c \in Canceller : canceller[c].at # "idle" => state \in {"CANCELLING", "CANCELLED"}
    /\ \A c \in Canceller : canceller[c].at = "ack" => state = "CANCELLED"
    /\ rec.mode = "CANCEL" => state \in {"CANCELLING", "CANCELLED"}
    /\ state \notin Terminal => rec # NoRec
  BY DEF BasicInv, ControlInv, CancelInv, RowsInv, Cancelling
<1>d. state # "PAUSED" /\ TurnInv /\ DispatchInv /\ AdoptingInv
  BY DEF NeverInv, DriverInv
<1>h. handle # NoExec => ~NoTasks \/ state \in Final
  BY DEF NeverInv, HandleInv
<1>1. CASE Retry \/ StartTask \/ Reserve
  BY <1>1, <1>d, <1>t DEF Retry, StartTask, Reserve, AdoptingInv, NoTasks, Cancelling
<1>2. CASE RequestCancel \/ LookForHandle \/ JoinTask
  BY <1>2, <1>d DEF RequestCancel, LookForHandle, JoinTask, Cancelled, AdoptingInv,
     NoTasks, Cancelling
<1>3. CASE Pause \/ Resume
  BY <1>3, <1>d DEF Pause, Resume, AdoptingInv, NoTasks, Cancelling
<1>4. ASSUME NEW e \in Exec, TaskStep(e) PROVE AdoptingInv'
  BY <1>4, ResultMoves, <1>d, <1>t DEF TaskStep, ResultStep, SendStart, EnterHostWait,
     Ended, Bind, StopTurn, RecordHostWait, AckResult, Acknowledge, CancelledMove,
     Taking, Cancelled, Received, PendingMove, YieldMove, LossMove, EndMove, TurnMove,
     LeftMove, AdoptingInv, NoTasks, Cancelling
<1>5. ASSUME NEW c \in Canceller, CancelStep(c) PROVE AdoptingInv'
  BY <1>5, <1>d DEF CancelStep, SendCancel, CancelPending, ConfirmCancel, Cancelled,
     AckCancelled, Acknowledge, AdoptingInv, NoTasks, Cancelling
<1>6. ASSUME NEW m \in Report, SnapshotStep(m) PROVE AdoptingInv'
  <2>1. CASE AbsenceMove(m) \/ TakeUpMove(m) \/ PassMove(m)
    BY <2>1, <1>d, LookedTypes DEF AbsenceMove, Handled, ConfirmAbsence, TakeUpMove,
       AdoptCancel, PassMove, AdoptingInv, NoTasks, Cancelling
  <2>2. CASE AdoptMove(m)
    <3> DEFINE e == Adoptee(m)
    <3>1. /\ e \in Exec /\ state = "WAITING_HOST" /\ toController # <<>> /\ state' = "ASSIGNED"
          /\ task' = task /\ dispatch' = dispatch /\ conn' = conn /\ handle' = handle
          /\ adopting' = e /\ canceller' = canceller
          /\ rec' = [mode |-> rec.mode, exec |-> e] /\ future' = [future EXCEPT ![e] = "open"]
      BY <2>2, AdopteeIn, NoExecIsNone DEF AdoptMove, Handled, Adopt, Adopts
    <3>2. NoTasks /\ dispatch = "none" /\ conn
      BY <1>d, <3>1 DEF TurnInv, DispatchInv, Fits, NoTasks, Cancelling, Terminal
    <3>3. handle = NoExec /\ \A c \in Canceller : canceller[c].at = "idle"
      BY <1>h, <3>1, <3>2 DEF Final, Terminal
    <3> HIDE DEF e
    <3>4. QED
      BY <3>1, <3>2, <3>3 DEF AdoptingInv, NoTasks
  <2>3. QED
    BY <1>6, <2>1, <2>2 DEF SnapshotStep
<1>7. CASE AdoptBind \/ HandleResult
  BY <1>7, <1>d DEF AdoptBind, Detached, Lost, HandleResult, AdoptingInv, NoTasks,
     Cancelling
<1>8. ASSUME NEW e \in Exec, RunnerStep(e) \/ CodexEnds(e) \/ LearnSession(e)
      PROVE  AdoptingInv'
  BY <1>8, <1>d DEF RunnerStep, RunnerReserves, RunnerSpawns, RunnerCancels,
     RunnerForgets, CodexEnds, LearnSession, AdoptingInv, NoTasks, Cancelling
<1>9. CASE Heartbeat \/ Connect \/ Drop \/ Replace
  BY <1>9, <1>d, <1>t DEF Heartbeat, Connect, Drop, Detached, Lost, Replace,
     AdoptingInv, NoTasks, Cancelling
<1>10. CASE Crash \/ Shutdown \/ Restart \/ UNCHANGED vars
  BY <1>10, <1>d DEF Crash, Halted, Shutdown, Restart, vars, AdoptingInv, NoTasks,
     Cancelling
<1>11. QED
  BY <1>1, <1>2, <1>3, <1>4, <1>5, <1>6, <1>7, <1>8, <1>9, <1>10, SnapshotMoves DEF
     Next, ControllerStep, Receive

\* The Job is not paused.
LEMMA NotPausedStep ==
    ASSUME BasicInv, NeverInv, Never, Never', [Next]_vars
    PROVE  state' # "PAUSED"
<1> /\ state \in Active \cup Terminal \cup {"WAITING_HOST", "PAUSED", "CANCELLING"}
    /\ rec \in Recovery /\ ledger \in [Exec -> LedgerState] /\ handle \in Exec \cup {NoExec}
    /\ future \in [Exec -> Future] /\ task \in [Exec -> Turn]
    /\ canceller \in [Canceller -> Cancellation] /\ adopting \in Exec \cup {NoExec}
    /\ run \in [Exec -> ExecState] /\ acked \subseteq Exec /\ bound \subseteq Exec
  BY DEF BasicInv, TypeOK
<1>t. \A settled \in BOOLEAN : InTime(settled) => settled
  BY TimeSettles DEF BasicInv, OnTime
<1> paused' = "never" /\ paused = "never" /\ synced \in BOOLEAN /\ conn \in BOOLEAN
  BY DEF Never, BasicInv, TypeOK
<1> TypeOK
  BY DEF BasicInv
<1> /\ ~up => ~conn /\ dispatch = "none" /\ NoTasks /\ handle = NoExec
    /\ ~conn => toController = <<>> /\ adopting = NoExec /\ ~synced
    /\ \A e \in Exec : task[e].at # "none" => task[e] # NoTask
  BY DEF BasicInv, ControlInv, DownInv, NoTask
<1> /\ \A c \in Canceller : canceller[c].at # "idle" => state \in {"CANCELLING", "CANCELLED"}
    /\ \A c \in Canceller : canceller[c].at = "ack" => state = "CANCELLED"
    /\ rec.mode = "CANCEL" => state \in {"CANCELLING", "CANCELLED"}
    /\ state \notin Terminal => rec # NoRec
  BY DEF BasicInv, ControlInv, CancelInv, RowsInv, Cancelling
<1>d. state # "PAUSED" /\ TurnInv /\ DispatchInv /\ AdoptingInv
  BY DEF NeverInv, DriverInv
<1>1. CASE Retry \/ StartTask \/ Reserve
  BY <1>1, <1>d, <1>t DEF Retry, StartTask, Reserve, Terminal
<1>2. CASE RequestCancel \/ LookForHandle \/ JoinTask
  BY <1>2, <1>d DEF RequestCancel, LookForHandle, JoinTask, Cancelled, Terminal
<1>3. CASE Pause \/ Resume
  BY <1>3, <1>d DEF Pause, Resume, Terminal
<1>4. ASSUME NEW e \in Exec, TaskStep(e) PROVE state' # "PAUSED"
  BY <1>4, ResultMoves, <1>d, <1>t DEF TaskStep, ResultStep, SendStart, EnterHostWait,
     Ended, Bind, StopTurn, RecordHostWait, AckResult, Acknowledge, CancelledMove,
     Taking, Cancelled, Received, PendingMove, YieldMove, LossMove, EndMove, TurnMove,
     LeftMove, Terminal
<1>5. ASSUME NEW c \in Canceller, CancelStep(c) PROVE state' # "PAUSED"
  BY <1>5, <1>d DEF CancelStep, SendCancel, CancelPending, ConfirmCancel, Cancelled,
     AckCancelled, Acknowledge, Terminal
<1>6. ASSUME NEW m \in Report, SnapshotStep(m) PROVE state' # "PAUSED"
  BY <1>6, <1>d, LookedTypes DEF SnapshotStep, AdoptMove, Handled, Adopt, Adopts,
     AbsenceMove, ConfirmAbsence, TakeUpMove, AdoptCancel, PassMove, Terminal
<1>7. CASE AdoptBind \/ HandleResult
  BY <1>7, <1>d DEF AdoptBind, Detached, Lost, HandleResult, Terminal
<1>8. ASSUME NEW e \in Exec, RunnerStep(e) \/ CodexEnds(e) \/ LearnSession(e)
      PROVE  state' # "PAUSED"
  BY <1>8, <1>d DEF RunnerStep, RunnerReserves, RunnerSpawns, RunnerCancels,
     RunnerForgets, CodexEnds, LearnSession, Terminal
<1>9. CASE Heartbeat \/ Connect \/ Drop \/ Replace
  BY <1>9, <1>d, <1>t DEF Heartbeat, Connect, Drop, Detached, Lost, Replace, Terminal
<1>10. CASE Crash \/ Shutdown \/ Restart \/ UNCHANGED vars
  BY <1>10, <1>d DEF Crash, Halted, Shutdown, Restart, vars, Terminal
<1>11. QED
  BY <1>1, <1>2, <1>3, <1>4, <1>5, <1>6, <1>7, <1>8, <1>9, <1>10, SnapshotMoves DEF
     Next, ControllerStep, Receive

\* The first snapshot of a connection comes first.
LEMMA LinkStep ==
    ASSUME BasicInv, NeverInv, Never, Never', [Next]_vars
    PROVE  LinkInv'
<1> TypeOK /\ adopting \in Exec \cup {NoExec} /\ synced \in BOOLEAN /\ conn \in BOOLEAN
  BY DEF BasicInv, TypeOK
<1>l. LinkInv
  BY DEF NeverInv
<1> ~conn => toController = <<>> /\ adopting = NoExec
  BY DEF BasicInv, ControlInv, DownInv
<1>1. CASE Retry \/ StartTask \/ Reserve
  BY <1>1, LinkSteps, <1>l DEF Retry, StartTask, Reserve
<1>2. CASE RequestCancel \/ LookForHandle \/ JoinTask
  BY <1>2, LinkSteps, <1>l DEF RequestCancel, LookForHandle, JoinTask, Cancelled
<1>3. CASE Pause \/ Resume
  BY <1>3, LinkSteps, <1>l DEF Pause, Resume
<1>4. ASSUME NEW e \in Exec, TaskStep(e) PROVE LinkInv'
  BY <1>4, ResultMoves, LinkSteps, <1>l DEF TaskStep, ResultStep, SendStart,
     EnterHostWait, Ended, Bind, StopTurn, RecordHostWait, AckResult, Acknowledge,
     CancelledMove, Taking, Cancelled, Received, PendingMove, YieldMove, LossMove,
     EndMove, TurnMove, LeftMove
<1>5. ASSUME NEW c \in Canceller, CancelStep(c) PROVE LinkInv'
  BY <1>5, LinkSteps, <1>l DEF CancelStep, SendCancel, CancelPending, ConfirmCancel,
     Cancelled, AckCancelled, Acknowledge
<1>6. ASSUME NEW m \in Report, SnapshotStep(m) PROVE LinkInv'
  <2>1. CASE AdoptMove(m)
    <3>1. toController # <<>> /\ toController' = Tail(toController) /\ adopting' # NoExec
      BY <2>1 DEF AdoptMove, Handled, Adopts, Adopt
    <3>2. \A i \in DOMAIN toController' : ~IsFull(toController'[i])
      BY <1>l, <3>1, LinkSteps
    <3>3. QED
      BY <3>1, <3>2 DEF LinkInv, IsFull
  <2>2. CASE AbsenceMove(m)
    <3>1. /\ toController # <<>> /\ toController' = Tail(toController) /\ conn' = conn
          /\ adopting = NoExec /\ (synced \/ IsFull(Head(toController)) => synced')
      BY <2>2 DEF AbsenceMove, Handled, Looked, IsFull
    <3>2. /\ \A i \in DOMAIN toController' : ~IsFull(toController'[i])
          /\ conn /\ ~synced => IsFull(Head(toController))
      BY <1>l, <3>1, LinkSteps
    <3>3. QED
      BY <3>1, <3>2 DEF LinkInv, IsFull
  <2>3. CASE TakeUpMove(m)
    <3>1. /\ toController # <<>> /\ toController' = Tail(toController) /\ conn' = conn
          /\ adopting = NoExec /\ (synced \/ IsFull(Head(toController)) => synced')
      BY <2>3 DEF TakeUpMove, Handled, Looked, IsFull
    <3>2. /\ \A i \in DOMAIN toController' : ~IsFull(toController'[i])
          /\ conn /\ ~synced => IsFull(Head(toController))
      BY <1>l, <3>1, LinkSteps
    <3>3. QED
      BY <3>1, <3>2 DEF LinkInv, IsFull
  <2>4. CASE PassMove(m)
    <3>1. /\ toController # <<>> /\ toController' = Tail(toController) /\ conn' = conn
          /\ adopting = NoExec /\ (synced \/ IsFull(Head(toController)) => synced')
      BY <2>4 DEF PassMove, Handled, Looked, IsFull
    <3>2. /\ \A i \in DOMAIN toController' : ~IsFull(toController'[i])
          /\ conn /\ ~synced => IsFull(Head(toController))
      BY <1>l, <3>1, LinkSteps
    <3>3. QED
      BY <3>1, <3>2 DEF LinkInv, IsFull
  <2>5. QED
    BY <1>6, <2>1, <2>2, <2>3, <2>4 DEF SnapshotStep
<1>7. CASE AdoptBind \/ HandleResult
  <2>1. CASE AdoptBind
    <3>1. \A i \in DOMAIN toController : ~IsFull(toController[i])
      BY <2>1, <1>l DEF AdoptBind, LinkInv
    <3>2. \/ toController' = toController /\ synced' = TRUE
          \/ toController' = <<>> /\ ~conn'
      BY <2>1 DEF AdoptBind, Detached
    <3>3. QED
      BY <1>l, <3>1, <3>2, LinkSteps DEF LinkInv, IsFull
  <2>2. CASE HandleResult
    <3>1. /\ toController # <<>> /\ toController' = Tail(toController)
          /\ ~IsFull(Head(toController)) /\ UNCHANGED <<conn, synced, adopting>>
      BY <2>2 DEF HandleResult, IsFull
    <3>2. /\ \A i \in DOMAIN toController' : ~IsFull(toController'[i])
          /\ conn /\ ~synced /\ adopting = NoExec => IsFull(Head(toController))
      BY <1>l, <3>1, LinkSteps
    <3>3. QED
      BY <3>1, <3>2 DEF LinkInv, IsFull
  <2>3. QED
    BY <1>7, <2>1, <2>2
<1>8. ASSUME NEW e \in Exec, RunnerStep(e) \/ CodexEnds(e) \/ LearnSession(e)
      PROVE  LinkInv'
  BY <1>8, LinkSteps, <1>l, Messages, NotFull DEF RunnerStep, RunnerReserves,
     RunnerSpawns, RunnerCancels, RunnerForgets, CodexEnds, LearnSession
<1>9. CASE Heartbeat \/ Connect \/ Drop \/ Replace
  BY <1>9, LinkSteps, <1>l, Messages, NotFull DEF Heartbeat, Connect, Drop, Detached,
     Lost, Replace
<1>10. CASE Crash \/ Shutdown \/ Restart \/ UNCHANGED vars
  BY <1>10, LinkSteps, <1>l DEF Crash, Halted, Shutdown, Restart, vars
<1>11. QED
  BY <1>1, <1>2, <1>3, <1>4, <1>5, <1>6, <1>7, <1>8, <1>9, <1>10, SnapshotMoves DEF
     Next, ControllerStep, Receive

-----------------------------------------------------------------------------
(* What a snapshot leads to.                                               *)

LEMMA RunsAreUsed ==
    ASSUME BasicInv
    PROVE  /\ \A f \in Exec : MayRun(f) => f \in Used
           /\ \A e \in Exec : task[e] # NoTask \/ Held(e) => e \in Used
<1>1. FreshInv
  BY DEF BasicInv
<1>2. ASSUME NEW f \in Exec, MayRun(f) PROVE Told(f)
  BY <1>2 DEF MayRun, Told, Ordered
<1>3. QED
  BY <1>1, <1>2 DEF FreshInv, Used

\* As long as a Job is not over, a snapshot leads to whatever may run.
LEMMA SnapshotLeads ==
    ASSUME BasicInv, NeverInv, NEW m \in Reports, NEW f \in Exec, MayRun(f),
           state \notin Terminal
    PROVE  /\ f \notin Closed(m) /\ Known(m) = f
           /\ state = "WAITING_HOST" => Adoptee(m) = f
<1>1. TypeOK /\ m \in Report
  BY Messages DEF BasicInv, Reports, Report, Answer
<1>2. f \in m.running /\ f \in OpenRows
  BY DEF NeverInv, ReportInv, RecordInv, OpenInv
<1>3. Over(m) = {}
  BY DEF Over
<1>4. f \notin Closed(m) /\ f \in Reported(m)
  BY <1>2, <1>3 DEF Closed, Absent, Reported
<1> DEFINE S == Reported(m) \cap (OpenRows \ Closed(m))
<1>5. f \in S /\ S \in SUBSET Exec /\ S \subseteq Used
  BY <1>2, <1>4 DEF OpenRows, Used
<1>6. Found(m) = Latest(S)
  BY <1>5 DEF Found, Matched
<1> HIDE DEF S
<1>7. Latest(S) = f
  <2>1. Latest(S) \in S /\ f <= Latest(S)
    BY <1>5, LatestIn
  <2>2. Latest(S) <= f
    BY <1>5, <2>1 DEF NeverInv, TreeInv, LatestInv
  <2>3. f \in Nat /\ Latest(S) \in Nat
    <3>1. Exec \subseteq Nat
      BY BoundAssumption DEF Exec
    <3>2. QED
      BY <1>5, <2>1, <3>1
  <2>4. \A a, b \in Nat : a <= b /\ b <= a => a = b
    OBVIOUS
  <2>5. QED
    BY <2>1, <2>2, <2>3, <2>4
<1>8. Known(m) = f
  BY <1>6, <1>7, NoExecIsNone DEF Known, First
<1>9. ASSUME state = "WAITING_HOST" PROVE Adoptee(m) = f
  <2>1. rec.mode \in {"START", "RESUME", "ADOPT"}
    BY <1>1, <1>9 DEF BasicInv, ControlInv, RowsInv, TypeOK, Recovery, Cancelling, Terminal
  <2>2. CASE rec.mode = "ADOPT"
    BY <1>8, <2>2 DEF Adoptee
  <2>3. CASE rec.mode \in {"START", "RESUME"}
    <3>1. rec.exec = f
      BY <1>1, <1>9, <2>3 DEF NeverInv, RecordInv, AgainInv, BoundInv
    <3>2. Recorded(Reported(m)) = f
      BY <1>4, <3>1 DEF Recorded
    <3>3. QED
      BY <2>3, <3>2, NoExecIsNone DEF Adoptee, First
  <2>4. QED
    BY <2>1, <2>2, <2>3
<1>10. QED
  BY <1>4, <1>8, <1>9

\* No command that starts an execution is sent: nothing else may run than before.
Calm ==
    /\ \A f \in Exec : ~Starts(f)
    /\ \A f \in Exec : MayRun(f)' => MayRun(f)

\* What ended cannot run, and a lost connection leaves an answer open.
LEMMA EndedIsOver ==
    ASSUME BasicInv, NEW e \in Exec, future[e] \in {"result", "unconfirmed"}
    PROVE  ~MayRun(e)
  BY DEF BasicInv, EndInv, UnconfirmedInv, HasEnded, MayRun

\* A row appears when its execution is reserved.
Reserved(e) ==
    /\ dispatch # "none" /\ e \notin Used /\ \A f \in Exec \ Used : e <= f
    /\ ledger' = [ledger EXCEPT ![e] = "ACTIVE"]
RowsAppear ==
    \A e \in Exec :
        /\ ledger'[e] # "none" => ledger[e] # "none" \/ Reserved(e)
        /\ task'[e].at = "send" => task[e].at = "send" \/ Reserved(e)

\* A Job that is over or is cancelled starts nothing.
Still == state \in Final /\ dispatch = "none" /\ ~Sending
StaysStill == Still => Still'

\* A Job that is over stays so.
StaysOver == state \in Terminal => state' \in Terminal

\* A Job that is over or is cancelled starts nothing.
LEMMA StillStep ==
    ASSUME TypeOK, ControlInv, [Next]_vars
    PROVE  StaysStill
<1> /\ state \in Active \cup Terminal \cup {"WAITING_HOST", "PAUSED", "CANCELLING"}
    /\ rec \in Recovery /\ ledger \in [Exec -> LedgerState] /\ handle \in Exec \cup {NoExec}
    /\ future \in [Exec -> Future] /\ task \in [Exec -> Turn]
    /\ canceller \in [Canceller -> Cancellation] /\ adopting \in Exec \cup {NoExec}
    /\ run \in [Exec -> ExecState] /\ acked \subseteq Exec /\ bound \subseteq Exec
  BY DEF TypeOK
<1>1. CASE Retry \/ StartTask \/ Reserve
  BY <1>1 DEF Retry, InTime, StartTask, Reserve, StaysStill, Still, Final, Terminal,
     Active, Sending, NoTask, Turn
<1>2. CASE RequestCancel \/ LookForHandle \/ JoinTask
  BY <1>2 DEF RequestCancel, LookForHandle, JoinTask, Cancelled, StaysStill, Still,
     Final, Terminal, Active, Sending, NoTask, Turn
<1>3. CASE Pause \/ Resume
  BY <1>3 DEF Pause, Resume, StaysStill, Still, Final, Terminal, Active, Sending,
     NoTask, Turn
<1>4. ASSUME NEW e \in Exec, TaskStep(e) PROVE StaysStill
  <2>1. CASE SendStart(e) \/ Bind(e) \/ StopTurn(e)
    BY <2>1 DEF SendStart, InTime, EnterHostWait, Ended, Bind, StopTurn, StaysStill,
       Still, Final, Terminal, Active, Sending, NoTask, Turn
  <2>2. CASE RecordHostWait(e) \/ AckResult(e) \/ CancelledMove(e)
    BY <2>2 DEF RecordHostWait, Ended, AckResult, Acknowledge, CancelledMove, Taking,
       Cancelled, Received, StaysStill, Still, Final, Terminal, Active, Sending, NoTask,
       Turn
  <2>3. CASE PendingMove(e) \/ YieldMove(e) \/ LossMove(e)
    BY <2>3 DEF PendingMove, Taking, Ended, Received, YieldMove, LossMove, StaysStill,
       Still, Final, Terminal, Active, Sending, NoTask, Turn
  <2>4. CASE EndMove(e) \/ TurnMove(e)
    BY <2>4 DEF EndMove, Taking, Received, TurnMove, StaysStill, Still, Final, Terminal,
       Active, Sending, NoTask, Turn
  <2>5. CASE LeftMove(e)
    BY <2>5 DEF LeftMove, Taking, Received, StaysStill, Still, Final, Terminal, Active,
       Sending, NoTask, Turn
  <2>6. QED
    BY <1>4, ResultMoves, <2>1, <2>2, <2>3, <2>4, <2>5 DEF TaskStep, ResultStep
<1>5. ASSUME NEW c \in Canceller, CancelStep(c) PROVE StaysStill
  BY <1>5 DEF CancelStep, SendCancel, CancelPending, ConfirmCancel, Cancelled,
     AckCancelled, Acknowledge, StaysStill, Still, Final, Terminal, Active, Sending,
     NoTask, Turn
<1>6. ASSUME NEW m \in Report, SnapshotStep(m) PROVE StaysStill
  BY <1>6, LookedTypes DEF SnapshotStep, AdoptMove, Handled, Adopt, Adopts, AbsenceMove,
     ConfirmAbsence, TakeUpMove, AdoptCancel, PassMove, StaysStill, Still, Final,
     Terminal, Active, Sending, NoTask, Turn
<1>7. CASE AdoptBind \/ HandleResult
  BY <1>7 DEF AdoptBind, Detached, Lost, HandleResult, StaysStill, Still, Final,
     Terminal, Active, Sending, NoTask, Turn
<1>8. ASSUME NEW e \in Exec, RunnerStep(e) \/ CodexEnds(e) \/ LearnSession(e)
      PROVE  StaysStill
  BY <1>8 DEF RunnerStep, RunnerReserves, RunnerSpawns, RunnerCancels, RunnerForgets,
     CodexEnds, LearnSession, StaysStill, Still, Final, Terminal, Active, Sending,
     NoTask, Turn
<1>9. CASE Heartbeat \/ Connect \/ Drop \/ Replace
  BY <1>9 DEF Heartbeat, Connect, InTime, Drop, Detached, Lost, Replace, StaysStill,
     Still, Final, Terminal, Active, Sending, NoTask, Turn
<1>10. CASE Crash \/ Shutdown \/ Restart \/ UNCHANGED vars
  BY <1>10 DEF Crash, Halted, Shutdown, Restart, vars, StaysStill, Still, Final,
     Terminal, Active, Sending, NoTask, Turn
<1>11. QED
  BY <1>1, <1>2, <1>3, <1>4, <1>5, <1>6, <1>7, <1>8, <1>9, <1>10, SnapshotMoves DEF
     Next, ControllerStep, Receive

\* A Job that is over stays so.
LEMMA OverStep ==
    ASSUME TypeOK, [Next]_vars
    PROVE  StaysOver
<1> /\ state \in Active \cup Terminal \cup {"WAITING_HOST", "PAUSED", "CANCELLING"}
    /\ rec \in Recovery /\ ledger \in [Exec -> LedgerState] /\ handle \in Exec \cup {NoExec}
    /\ future \in [Exec -> Future] /\ task \in [Exec -> Turn]
    /\ canceller \in [Canceller -> Cancellation] /\ adopting \in Exec \cup {NoExec}
    /\ run \in [Exec -> ExecState] /\ acked \subseteq Exec /\ bound \subseteq Exec
  BY DEF TypeOK
<1>1. CASE Retry \/ StartTask \/ Reserve
  BY <1>1 DEF Retry, InTime, StartTask, Reserve, StaysOver, Terminal, Active
<1>2. CASE RequestCancel \/ LookForHandle \/ JoinTask
  BY <1>2 DEF RequestCancel, LookForHandle, JoinTask, Cancelled, StaysOver, Terminal,
     Active
<1>3. CASE Pause \/ Resume
  BY <1>3 DEF Pause, Resume, StaysOver, Terminal, Active
<1>4. ASSUME NEW e \in Exec, TaskStep(e) PROVE StaysOver
  BY <1>4, ResultMoves DEF TaskStep, ResultStep, SendStart, InTime, EnterHostWait,
     Ended, Bind, StopTurn, RecordHostWait, AckResult, Acknowledge, CancelledMove,
     Taking, Cancelled, Received, PendingMove, YieldMove, LossMove, EndMove, TurnMove,
     LeftMove, StaysOver, Terminal, Active
<1>5. ASSUME NEW c \in Canceller, CancelStep(c) PROVE StaysOver
  BY <1>5 DEF CancelStep, SendCancel, CancelPending, ConfirmCancel, Cancelled,
     AckCancelled, Acknowledge, StaysOver, Terminal, Active
<1>6. ASSUME NEW m \in Report, SnapshotStep(m) PROVE StaysOver
  BY <1>6, LookedTypes DEF SnapshotStep, AdoptMove, Handled, Adopt, Adopts, AbsenceMove,
     ConfirmAbsence, TakeUpMove, AdoptCancel, PassMove, StaysOver, Terminal, Active
<1>7. CASE AdoptBind \/ HandleResult
  BY <1>7 DEF AdoptBind, Detached, Lost, HandleResult, StaysOver, Terminal, Active
<1>8. ASSUME NEW e \in Exec, RunnerStep(e) \/ CodexEnds(e) \/ LearnSession(e)
      PROVE  StaysOver
  BY <1>8 DEF RunnerStep, RunnerReserves, RunnerSpawns, RunnerCancels, RunnerForgets,
     CodexEnds, LearnSession, StaysOver, Terminal, Active
<1>9. CASE Heartbeat \/ Connect \/ Drop \/ Replace
  BY <1>9 DEF Heartbeat, Connect, InTime, Drop, Detached, Lost, Replace, StaysOver,
     Terminal, Active
<1>10. CASE Crash \/ Shutdown \/ Restart \/ UNCHANGED vars
  BY <1>10 DEF Crash, Halted, Shutdown, Restart, vars, StaysOver, Terminal, Active
<1>11. QED
  BY <1>1, <1>2, <1>3, <1>4, <1>5, <1>6, <1>7, <1>8, <1>9, <1>10, SnapshotMoves DEF
     Next, ControllerStep, Receive

\* A row appears when its execution is reserved.
LEMMA LedgerStep ==
    ASSUME TypeOK, ControlInv, FreshInv, [Next]_vars
    PROVE  RowsAppear
<1> /\ state \in Active \cup Terminal \cup {"WAITING_HOST", "PAUSED", "CANCELLING"}
    /\ rec \in Recovery /\ ledger \in [Exec -> LedgerState] /\ handle \in Exec \cup {NoExec}
    /\ future \in [Exec -> Future] /\ task \in [Exec -> Turn]
    /\ canceller \in [Canceller -> Cancellation] /\ adopting \in Exec \cup {NoExec}
    /\ run \in [Exec -> ExecState] /\ acked \subseteq Exec /\ bound \subseteq Exec
  BY DEF TypeOK
<1>u. /\ \A e \in Exec : task[e].at # "none" => ledger[e] # "none"
      /\ \A c \in Canceller : canceller[c].exec \in Exec => ledger[canceller[c].exec] # "none"
  BY DEF FreshInv, Held, NoTask
<1>w. \A c \in Canceller : canceller[c].at \in {"send", "sent", "ack"} => canceller[c].exec \in Exec
  BY DEF ControlInv, CancelInv
<1>1. CASE Retry \/ StartTask \/ Reserve
  BY <1>1, <1>u, <1>w DEF Retry, InTime, StartTask, Reserve, RowsAppear, Reserved, Used,
     NoTask, Turn
<1>2. CASE RequestCancel \/ LookForHandle \/ JoinTask
  BY <1>2, <1>u, <1>w DEF RequestCancel, LookForHandle, JoinTask, Cancelled, RowsAppear,
     Reserved, Used, NoTask, Turn
<1>3. CASE Pause \/ Resume
  BY <1>3, <1>u, <1>w DEF Pause, Resume, RowsAppear, Reserved, Used, NoTask, Turn
<1>4. ASSUME NEW e \in Exec, TaskStep(e) PROVE RowsAppear
  <2>1. CASE SendStart(e) \/ Bind(e) \/ StopTurn(e)
    BY <2>1, <1>u, <1>w DEF SendStart, InTime, EnterHostWait, Ended, Bind, StopTurn,
       RowsAppear, Reserved, Used, NoTask, Turn
  <2>2. CASE RecordHostWait(e) \/ AckResult(e) \/ CancelledMove(e)
    BY <2>2, <1>u, <1>w DEF RecordHostWait, Ended, AckResult, Acknowledge,
       CancelledMove, Taking, Cancelled, Received, RowsAppear, Reserved, Used, NoTask,
       Turn
  <2>3. CASE PendingMove(e) \/ YieldMove(e) \/ LossMove(e)
    BY <2>3, <1>u, <1>w DEF PendingMove, Taking, Ended, Received, YieldMove, LossMove,
       RowsAppear, Reserved, Used, NoTask, Turn
  <2>4. CASE EndMove(e)
    BY <2>4, <1>u, <1>w DEF EndMove, Taking, Received, RowsAppear, Reserved, Used,
       NoTask, Turn
  <2>5. CASE TurnMove(e)
    BY <2>5, <1>u, <1>w DEF TurnMove, Taking, Received, RowsAppear, Reserved, Used,
       NoTask, Turn
  <2>6. CASE LeftMove(e)
    BY <2>6, <1>u, <1>w DEF LeftMove, Taking, Received, RowsAppear, Reserved, Used,
       NoTask, Turn
  <2>7. QED
    BY <1>4, ResultMoves, <2>1, <2>2, <2>3, <2>4, <2>5, <2>6 DEF TaskStep, ResultStep
<1>5. ASSUME NEW c \in Canceller, CancelStep(c) PROVE RowsAppear
  BY <1>5, <1>u, <1>w DEF CancelStep, SendCancel, CancelPending, ConfirmCancel,
     Cancelled, AckCancelled, Acknowledge, RowsAppear, Reserved, Used, NoTask, Turn
<1>6. ASSUME NEW m \in Report, SnapshotStep(m) PROVE RowsAppear
  BY <1>6, <1>u, <1>w DEF SnapshotStep, AdoptMove, Handled, Adopt, Closed, Over, Absent,
     OpenRows, AbsenceMove, ConfirmAbsence, TakeUpMove, AdoptCancel, PassMove,
     RowsAppear, Reserved, Used, NoTask, Turn
<1>7. CASE AdoptBind \/ HandleResult
  BY <1>7, <1>u, <1>w DEF AdoptBind, Detached, Lost, HandleResult, RowsAppear, Reserved,
     Used, NoTask, Turn
<1>8. ASSUME NEW e \in Exec, RunnerStep(e) \/ CodexEnds(e) \/ LearnSession(e)
      PROVE  RowsAppear
  BY <1>8, <1>u, <1>w DEF RunnerStep, RunnerReserves, RunnerSpawns, RunnerCancels,
     RunnerForgets, CodexEnds, LearnSession, RowsAppear, Reserved, Used, NoTask, Turn
<1>9. CASE Heartbeat \/ Connect \/ Drop \/ Replace
  BY <1>9, <1>u, <1>w DEF Heartbeat, Connect, InTime, Drop, Detached, Lost, Replace,
     RowsAppear, Reserved, Used, NoTask, Turn
<1>10. CASE Crash \/ Shutdown \/ Restart \/ UNCHANGED vars
  BY <1>10, <1>u, <1>w DEF Crash, Halted, Shutdown, Restart, vars, RowsAppear, Reserved,
     Used, NoTask, Turn
<1>11. QED
  BY <1>1, <1>2, <1>3, <1>4, <1>5, <1>6, <1>7, <1>8, <1>9, <1>10, SnapshotMoves DEF
     Next, ControllerStep, Receive

\* Nothing may run when an execution is about to start.
LEMMA StartStep ==
    ASSUME BasicInv, NeverInv, Never, Never', Calm, [Next]_vars
    PROVE  StartInv'
<1> TypeOK
  BY DEF BasicInv
<1> /\ state \in Active \cup Terminal \cup {"WAITING_HOST", "PAUSED", "CANCELLING"}
    /\ rec \in Recovery /\ ledger \in [Exec -> LedgerState] /\ handle \in Exec \cup {NoExec}
    /\ future \in [Exec -> Future] /\ task \in [Exec -> Turn]
    /\ canceller \in [Canceller -> Cancellation] /\ adopting \in Exec \cup {NoExec}
    /\ run \in [Exec -> ExecState] /\ acked \subseteq Exec /\ bound \subseteq Exec
  BY DEF TypeOK
<1>t. \A settled \in BOOLEAN : InTime(settled) => settled
  BY TimeSettles DEF BasicInv, OnTime
<1> paused' = "never" /\ paused = "never" /\ synced \in BOOLEAN /\ conn \in BOOLEAN
  BY DEF Never, TypeOK
<1> /\ ~up => ~conn /\ dispatch = "none" /\ NoTasks /\ handle = NoExec
    /\ ~conn => toController = <<>> /\ adopting = NoExec /\ ~synced
    /\ \A e \in Exec : task[e].at # "none" => task[e] # NoTask
  BY DEF BasicInv, ControlInv, DownInv, NoTask
<1> /\ \A c \in Canceller : canceller[c].at # "idle" => state \in {"CANCELLING", "CANCELLED"}
    /\ \A c \in Canceller : canceller[c].at = "ack" => state = "CANCELLED"
    /\ rec.mode = "CANCEL" => state \in {"CANCELLING", "CANCELLED"}
    /\ state \notin Terminal => rec # NoRec
  BY DEF BasicInv, ControlInv, CancelInv, RowsInv, Cancelling
<1>d. state # "PAUSED" /\ TurnInv /\ DispatchInv /\ AdoptingInv
  BY DEF NeverInv, DriverInv
<1>r. LatestInv /\ StartInv /\ AloneInv /\ AckInv /\ WaitInv
  BY DEF NeverInv, TreeInv
<1>c. (\A f \in Exec : MayRun(f)' => MayRun(f)) /\ (\A f \in Exec : ~Starts(f))
  BY DEF Calm
<1>u. /\ \A f \in Exec : MayRun(f) => f \in Used
      /\ \A e \in Exec : task[e] # NoTask \/ Held(e) => e \in Used
  BY RunsAreUsed
<1>1. CASE Retry \/ StartTask \/ Reserve
  BY <1>1, <1>d, <1>c, <1>r, <1>t DEF Retry, WaitInv, Quiet, NoTasks, StartTask,
     Reserve, DispatchInv, StartInv, NoneRuns, Sending, NoTask, Turn
<1>2. CASE RequestCancel \/ LookForHandle \/ JoinTask
  BY <1>2, <1>d, <1>c, <1>r DEF RequestCancel, LookForHandle, JoinTask, Cancelled,
     StartInv, NoneRuns, Sending, NoTask, Turn
<1>3. CASE Pause \/ Resume
  BY <1>3, <1>d, <1>c, <1>r DEF Pause, Resume, StartInv, NoneRuns, Sending, NoTask, Turn
<1>4. ASSUME NEW e \in Exec, TaskStep(e) PROVE StartInv'
  <2>1. CASE SendStart(e) \/ Bind(e) \/ StopTurn(e) \/ RecordHostWait(e) \/ AckResult(e)
     \/ CancelledMove(e)
    BY <2>1, <1>d, <1>c, <1>r, <1>t DEF SendStart, EnterHostWait, Ended, Bind, StopTurn,
       RecordHostWait, AckResult, Acknowledge, AloneInv, AckInv, OnlyRuns, TurnInv,
       CancelledMove, Taking, Cancelled, Received, StartInv, NoneRuns, Sending, NoTask,
       Turn
  <2>2. CASE PendingMove(e) \/ YieldMove(e) \/ LossMove(e)
    BY <2>2, <1>d, <1>c, <1>r DEF PendingMove, Taking, Ended, Received, YieldMove,
       LossMove, StartInv, NoneRuns, Sending, NoTask, Turn
  <2>3. CASE EndMove(e)
    BY <2>3, <1>d, <1>c, <1>r DEF EndMove, Taking, Received, StartInv, NoneRuns,
       Sending, NoTask, Turn
  <2>4. CASE TurnMove(e)
    BY <2>4, <1>d, <1>c, <1>r DEF TurnMove, Taking, Received, StartInv, NoneRuns,
       Sending, NoTask, Turn
  <2>5. CASE LeftMove(e)
    BY <2>5, <1>d, <1>c, <1>r DEF LeftMove, Taking, Received, StartInv, NoneRuns,
       Sending, NoTask, Turn
  <2>6. QED
    BY <1>4, ResultMoves, <2>1, <2>2, <2>3, <2>4, <2>5 DEF TaskStep, ResultStep
<1>5. ASSUME NEW c \in Canceller, CancelStep(c) PROVE StartInv'
  BY <1>5, <1>d, <1>c, <1>r DEF CancelStep, SendCancel, CancelPending, ConfirmCancel,
     Cancelled, AckCancelled, Acknowledge, StartInv, NoneRuns, Sending, NoTask, Turn
<1>6. ASSUME NEW m \in Report, SnapshotStep(m) PROVE StartInv'
  BY <1>6, <1>d, <1>c, <1>r, LookedTypes DEF SnapshotStep, AdoptMove, Handled, Adopt,
     Adopts, AbsenceMove, ConfirmAbsence, TakeUpMove, AdoptCancel, PassMove, StartInv,
     NoneRuns, Sending, NoTask, Turn
<1>7. CASE AdoptBind \/ HandleResult
  BY <1>7, <1>d, <1>c, <1>r DEF AdoptBind, Detached, Lost, HandleResult, StartInv,
     NoneRuns, Sending, NoTask, Turn
<1>8. ASSUME NEW e \in Exec, RunnerStep(e) \/ CodexEnds(e) \/ LearnSession(e)
      PROVE  StartInv'
  BY <1>8, <1>d, <1>c, <1>r DEF RunnerStep, RunnerReserves, RunnerSpawns, RunnerCancels,
     RunnerForgets, CodexEnds, LearnSession, StartInv, NoneRuns, Sending, NoTask, Turn
<1>9. CASE Heartbeat \/ Connect \/ Drop \/ Replace
  BY <1>9, <1>d, <1>c, <1>r, <1>t DEF Heartbeat, Connect, Drop, Detached, Lost, Replace,
     StartInv, NoneRuns, Sending, NoTask, Turn
<1>10. CASE Crash \/ Shutdown \/ Restart \/ UNCHANGED vars
  BY <1>10, <1>d, <1>c, <1>r DEF Crash, Halted, Shutdown, Restart, vars, StartInv,
     NoneRuns, Sending, NoTask, Turn
<1>11. QED
  BY <1>1, <1>2, <1>3, <1>4, <1>5, <1>6, <1>7, <1>8, <1>9, <1>10, SnapshotMoves DEF
     Next, ControllerStep, Receive

\* Nothing runs beside the execution of a task.
LEMMA AloneStep ==
    ASSUME BasicInv, NeverInv, Never, Never', Calm, [Next]_vars
    PROVE  AloneInv'
<1> TypeOK
  BY DEF BasicInv
<1> /\ state \in Active \cup Terminal \cup {"WAITING_HOST", "PAUSED", "CANCELLING"}
    /\ rec \in Recovery /\ ledger \in [Exec -> LedgerState] /\ handle \in Exec \cup {NoExec}
    /\ future \in [Exec -> Future] /\ task \in [Exec -> Turn]
    /\ canceller \in [Canceller -> Cancellation] /\ adopting \in Exec \cup {NoExec}
    /\ run \in [Exec -> ExecState] /\ acked \subseteq Exec /\ bound \subseteq Exec
  BY DEF TypeOK
<1>t. \A settled \in BOOLEAN : InTime(settled) => settled
  BY TimeSettles DEF BasicInv, OnTime
<1> paused' = "never" /\ paused = "never" /\ synced \in BOOLEAN /\ conn \in BOOLEAN
  BY DEF Never, TypeOK
<1> /\ ~up => ~conn /\ dispatch = "none" /\ NoTasks /\ handle = NoExec
    /\ ~conn => toController = <<>> /\ adopting = NoExec /\ ~synced
    /\ \A e \in Exec : task[e].at # "none" => task[e] # NoTask
  BY DEF BasicInv, ControlInv, DownInv, NoTask
<1> /\ \A c \in Canceller : canceller[c].at # "idle" => state \in {"CANCELLING", "CANCELLED"}
    /\ \A c \in Canceller : canceller[c].at = "ack" => state = "CANCELLED"
    /\ rec.mode = "CANCEL" => state \in {"CANCELLING", "CANCELLED"}
    /\ state \notin Terminal => rec # NoRec
  BY DEF BasicInv, ControlInv, CancelInv, RowsInv, Cancelling
<1>d. state # "PAUSED" /\ TurnInv /\ DispatchInv /\ AdoptingInv
  BY DEF NeverInv, DriverInv
<1>r. LatestInv /\ StartInv /\ AloneInv /\ AckInv /\ WaitInv
  BY DEF NeverInv, TreeInv
<1>c. (\A f \in Exec : MayRun(f)' => MayRun(f)) /\ (\A f \in Exec : ~Starts(f))
  BY DEF Calm
<1>u. /\ \A f \in Exec : MayRun(f) => f \in Used
      /\ \A e \in Exec : task[e] # NoTask \/ Held(e) => e \in Used
  BY RunsAreUsed
<1>n. NoExec \notin Exec
  BY NoExecIsNone
<1>1. CASE Retry \/ StartTask \/ Reserve
  BY <1>1, <1>d, <1>c, <1>r, <1>n, <1>t DEF Retry, StartTask, Reserve, StartInv,
     NoneRuns, DispatchInv, NoTasks, AloneInv, OnlyRuns, NoTask, Turn
<1>2. CASE RequestCancel \/ LookForHandle \/ JoinTask
  BY <1>2, <1>d, <1>c, <1>r, <1>n DEF RequestCancel, LookForHandle, JoinTask, Cancelled,
     AloneInv, OnlyRuns, NoTask, Turn
<1>3. CASE Pause \/ Resume
  BY <1>3, <1>d, <1>c, <1>r, <1>n DEF Pause, Resume, AloneInv, OnlyRuns, NoTask, Turn
<1>4. ASSUME NEW e \in Exec, TaskStep(e) PROVE AloneInv'
  <2>1. CASE SendStart(e) \/ Bind(e) \/ StopTurn(e) \/ RecordHostWait(e) \/ AckResult(e)
     \/ CancelledMove(e)
    BY <2>1, <1>d, <1>c, <1>r, <1>n, <1>t DEF SendStart, EnterHostWait, Ended, Bind,
       StopTurn, RecordHostWait, AckResult, Acknowledge, CancelledMove, Taking,
       Cancelled, Received, AloneInv, OnlyRuns, NoTask, Turn
  <2>2. CASE PendingMove(e) \/ YieldMove(e) \/ LossMove(e)
    BY <2>2, <1>d, <1>c, <1>r, <1>n DEF PendingMove, Taking, Ended, Received, YieldMove,
       LossMove, AloneInv, OnlyRuns, NoTask, Turn
  <2>3. CASE EndMove(e)
    BY <2>3, <1>d, <1>c, <1>r, <1>n DEF EndMove, Taking, Received, AloneInv, OnlyRuns,
       NoTask, Turn
  <2>4. CASE TurnMove(e)
    BY <2>4, <1>d, <1>c, <1>r, <1>n DEF TurnMove, Taking, Received, AloneInv, OnlyRuns,
       NoTask, Turn
  <2>5. CASE LeftMove(e)
    BY <2>5, <1>d, <1>c, <1>r, <1>n DEF LeftMove, Taking, Received, AloneInv, OnlyRuns,
       NoTask, Turn
  <2>6. QED
    BY <1>4, ResultMoves, <2>1, <2>2, <2>3, <2>4, <2>5 DEF TaskStep, ResultStep
<1>5. ASSUME NEW c \in Canceller, CancelStep(c) PROVE AloneInv'
  BY <1>5, <1>d, <1>c, <1>r, <1>n DEF CancelStep, SendCancel, CancelPending,
     ConfirmCancel, Cancelled, AckCancelled, Acknowledge, AloneInv, OnlyRuns, NoTask,
     Turn
<1>6. ASSUME NEW m \in Report, SnapshotStep(m) PROVE AloneInv'
  <2>1. CASE AbsenceMove(m) \/ TakeUpMove(m) \/ PassMove(m)
    BY <2>1, <1>d, <1>c, <1>r, <1>n, LookedTypes DEF AbsenceMove, Handled,
       ConfirmAbsence, TakeUpMove, AdoptCancel, PassMove, AloneInv, OnlyRuns, NoTask,
       Turn
  <2>2. CASE AdoptMove(m)
    <3>1. /\ m \in Reports /\ state = "WAITING_HOST" /\ task' = task /\ adopting' = Adoptee(m)
      BY <2>2, MailSteps DEF AdoptMove, Handled, Adopts, Adopt, Reports
    <3>2. \A f \in Exec : MayRun(f) => f = Adoptee(m)
      BY <3>1, SnapshotLeads DEF Terminal
    <3>3. QED
      BY <1>c, <1>r, <3>1, <3>2 DEF AloneInv, OnlyRuns
  <2>3. QED
    BY <1>6, <2>1, <2>2 DEF SnapshotStep
<1>7. CASE AdoptBind \/ HandleResult
  <2>1. CASE HandleResult
    BY <2>1, <1>d, <1>c, <1>r, <1>n DEF HandleResult, AloneInv, OnlyRuns, NoTask, Turn
  <2>2. CASE AdoptBind
    <3>1. /\ adopting \in Exec /\ adopting' = NoExec
          /\ \A f \in Exec : task'[f] = task[f] \/ f = adopting
      BY <2>2 DEF AdoptBind
    <3>2. QED
      BY <1>c, <1>n, <1>r, <3>1 DEF AloneInv, OnlyRuns
  <2>3. QED
    BY <1>7, <2>1, <2>2
<1>8. ASSUME NEW e \in Exec, RunnerStep(e) \/ CodexEnds(e) \/ LearnSession(e)
      PROVE  AloneInv'
  BY <1>8, <1>d, <1>c, <1>r, <1>n DEF RunnerStep, RunnerReserves, RunnerSpawns,
     RunnerCancels, RunnerForgets, CodexEnds, LearnSession, AloneInv, OnlyRuns, NoTask,
     Turn
<1>9. CASE Heartbeat \/ Connect \/ Drop \/ Replace
  BY <1>9, <1>d, <1>c, <1>r, <1>n, <1>t DEF Heartbeat, Connect, Drop, Detached, Lost,
     Replace, AloneInv, OnlyRuns, NoTask, Turn
<1>10. CASE Crash \/ Shutdown \/ Restart \/ UNCHANGED vars
  BY <1>10, <1>d, <1>c, <1>r, <1>n DEF Crash, Halted, Shutdown, Restart, vars, AloneInv,
     OnlyRuns, NoTask, Turn
<1>11. QED
  BY <1>1, <1>2, <1>3, <1>4, <1>5, <1>6, <1>7, <1>8, <1>9, <1>10, SnapshotMoves DEF
     Next, ControllerStep, Receive

\* A turn whose result is acknowledged is over.
LEMMA AckStep ==
    ASSUME BasicInv, NeverInv, Never, Never', Calm, [Next]_vars
    PROVE  AckInv'
<1> TypeOK
  BY DEF BasicInv
<1> /\ state \in Active \cup Terminal \cup {"WAITING_HOST", "PAUSED", "CANCELLING"}
    /\ rec \in Recovery /\ ledger \in [Exec -> LedgerState] /\ handle \in Exec \cup {NoExec}
    /\ future \in [Exec -> Future] /\ task \in [Exec -> Turn]
    /\ canceller \in [Canceller -> Cancellation] /\ adopting \in Exec \cup {NoExec}
    /\ run \in [Exec -> ExecState] /\ acked \subseteq Exec /\ bound \subseteq Exec
  BY DEF TypeOK
<1>t. \A settled \in BOOLEAN : InTime(settled) => settled
  BY TimeSettles DEF BasicInv, OnTime
<1> paused' = "never" /\ paused = "never" /\ synced \in BOOLEAN /\ conn \in BOOLEAN
  BY DEF Never, TypeOK
<1> /\ ~up => ~conn /\ dispatch = "none" /\ NoTasks /\ handle = NoExec
    /\ ~conn => toController = <<>> /\ adopting = NoExec /\ ~synced
    /\ \A e \in Exec : task[e].at # "none" => task[e] # NoTask
  BY DEF BasicInv, ControlInv, DownInv, NoTask
<1> /\ \A c \in Canceller : canceller[c].at # "idle" => state \in {"CANCELLING", "CANCELLED"}
    /\ \A c \in Canceller : canceller[c].at = "ack" => state = "CANCELLED"
    /\ rec.mode = "CANCEL" => state \in {"CANCELLING", "CANCELLED"}
    /\ state \notin Terminal => rec # NoRec
  BY DEF BasicInv, ControlInv, CancelInv, RowsInv, Cancelling
<1>d. state # "PAUSED" /\ TurnInv /\ DispatchInv /\ AdoptingInv
  BY DEF NeverInv, DriverInv
<1>r. LatestInv /\ StartInv /\ AloneInv /\ AckInv /\ WaitInv
  BY DEF NeverInv, TreeInv
<1>c. (\A f \in Exec : MayRun(f)' => MayRun(f)) /\ (\A f \in Exec : ~Starts(f))
  BY DEF Calm
<1>u. /\ \A f \in Exec : MayRun(f) => f \in Used
      /\ \A e \in Exec : task[e] # NoTask \/ Held(e) => e \in Used
  BY RunsAreUsed
<1>o. \A e \in Exec :
        /\ future[e] \in {"result", "unconfirmed"} => ~MayRun(e)
        /\ task[e].at = "await" => future[e] \in {"open", "result", "lost", "unconfirmed"}
  BY EndedIsOver DEF BasicInv, ControlInv, FutureInv, Future
<1>x. CancelledInv
  BY DEF NeverInv
<1>1. CASE Retry \/ StartTask \/ Reserve
  BY <1>1, <1>d, <1>c, <1>r, <1>t DEF Retry, StartTask, Reserve, AckInv, NoTask, Turn
<1>2. CASE RequestCancel \/ LookForHandle \/ JoinTask
  BY <1>2, <1>d, <1>c, <1>r DEF RequestCancel, LookForHandle, JoinTask, Cancelled,
     AckInv, NoTask, Turn
<1>3. CASE Pause \/ Resume
  BY <1>3, <1>d, <1>c, <1>r DEF Pause, Resume, AckInv, NoTask, Turn
<1>4. ASSUME NEW e \in Exec, TaskStep(e) PROVE AckInv'
  <2>1. CASE SendStart(e) \/ Bind(e) \/ StopTurn(e) \/ RecordHostWait(e) \/ AckResult(e)
     \/ CancelledMove(e)
    BY <2>1, <1>d, <1>c, <1>r, <1>t, <1>o DEF SendStart, EnterHostWait, Ended, Bind,
       StopTurn, RecordHostWait, AckResult, Acknowledge, CancelledMove, Taking,
       Cancelled, Received, AckInv, NoTask, Turn
  <2>2. CASE PendingMove(e)
    BY <2>2, <1>d, <1>c, <1>r, <1>o DEF PendingMove, Taking, Ended, Received, AckInv,
       NoTask, Turn
  <2>3. CASE YieldMove(e)
    BY <2>3, <1>d, <1>c, <1>r, <1>o DEF YieldMove, Taking, Ended, Received, AckInv,
       NoTask, Turn
  <2>4. CASE LossMove(e)
    BY <2>4, <1>d, <1>c, <1>r, <1>o DEF LossMove, Taking, Received, AckInv, NoTask, Turn
  <2>5. CASE EndMove(e) \/ TurnMove(e)
    BY <2>5, <1>d, <1>c, <1>r, <1>o DEF EndMove, Taking, Received, TurnMove, AckInv,
       NoTask, Turn
  <2>6. CASE LeftMove(e)
    BY <2>6, <1>d, <1>c, <1>r, <1>o, <1>x DEF LeftMove, Taking, Received, CancelledInv,
       TurnInv, Fits, NoTasks, Cancelling, Terminal, AckInv, NoTask, Turn
  <2>7. QED
    BY <1>4, ResultMoves, <2>1, <2>2, <2>3, <2>4, <2>5, <2>6 DEF TaskStep, ResultStep
<1>5. ASSUME NEW c \in Canceller, CancelStep(c) PROVE AckInv'
  BY <1>5, <1>d, <1>c, <1>r DEF CancelStep, SendCancel, CancelPending, ConfirmCancel,
     Cancelled, AckCancelled, Acknowledge, AckInv, NoTask, Turn
<1>6. ASSUME NEW m \in Report, SnapshotStep(m) PROVE AckInv'
  BY <1>6, <1>d, <1>c, <1>r, LookedTypes DEF SnapshotStep, AdoptMove, Handled, Adopt,
     Adopts, AbsenceMove, ConfirmAbsence, TakeUpMove, AdoptCancel, PassMove, AckInv,
     NoTask, Turn
<1>7. CASE AdoptBind \/ HandleResult
  BY <1>7, <1>d, <1>c, <1>r DEF AdoptBind, Detached, Lost, HandleResult, AckInv, NoTask,
     Turn
<1>8. ASSUME NEW e \in Exec, RunnerStep(e) \/ CodexEnds(e) \/ LearnSession(e)
      PROVE  AckInv'
  BY <1>8, <1>d, <1>c, <1>r DEF RunnerStep, RunnerReserves, RunnerSpawns, RunnerCancels,
     RunnerForgets, CodexEnds, LearnSession, AckInv, NoTask, Turn
<1>9. CASE Heartbeat \/ Connect \/ Drop \/ Replace
  BY <1>9, <1>d, <1>c, <1>r, <1>t DEF Heartbeat, Connect, Drop, Detached, Lost, Replace,
     AckInv, NoTask, Turn
<1>10. CASE Crash \/ Shutdown \/ Restart \/ UNCHANGED vars
  BY <1>10, <1>d, <1>c, <1>r DEF Crash, Halted, Shutdown, Restart, vars, AckInv, NoTask,
     Turn
<1>11. QED
  BY <1>1, <1>2, <1>3, <1>4, <1>5, <1>6, <1>7, <1>8, <1>9, <1>10, SnapshotMoves DEF
     Next, ControllerStep, Receive

\* A Job that waits for a host that is connected has nothing that may run.
LEMMA WaitStep ==
    ASSUME BasicInv, NeverInv, Never, Never', Calm, [Next]_vars
    PROVE  WaitInv'
<1> TypeOK
  BY DEF BasicInv
<1> /\ state \in Active \cup Terminal \cup {"WAITING_HOST", "PAUSED", "CANCELLING"}
    /\ rec \in Recovery /\ ledger \in [Exec -> LedgerState] /\ handle \in Exec \cup {NoExec}
    /\ future \in [Exec -> Future] /\ task \in [Exec -> Turn]
    /\ canceller \in [Canceller -> Cancellation] /\ adopting \in Exec \cup {NoExec}
    /\ run \in [Exec -> ExecState] /\ acked \subseteq Exec /\ bound \subseteq Exec
  BY DEF TypeOK
<1>t. \A settled \in BOOLEAN : InTime(settled) => settled
  BY TimeSettles DEF BasicInv, OnTime
<1> paused' = "never" /\ paused = "never" /\ synced \in BOOLEAN /\ conn \in BOOLEAN
  BY DEF Never, TypeOK
<1> /\ ~up => ~conn /\ dispatch = "none" /\ NoTasks /\ handle = NoExec
    /\ ~conn => toController = <<>> /\ adopting = NoExec /\ ~synced
    /\ \A e \in Exec : task[e].at # "none" => task[e] # NoTask
  BY DEF BasicInv, ControlInv, DownInv, NoTask
<1> /\ \A c \in Canceller : canceller[c].at # "idle" => state \in {"CANCELLING", "CANCELLED"}
    /\ \A c \in Canceller : canceller[c].at = "ack" => state = "CANCELLED"
    /\ rec.mode = "CANCEL" => state \in {"CANCELLING", "CANCELLED"}
    /\ state \notin Terminal => rec # NoRec
  BY DEF BasicInv, ControlInv, CancelInv, RowsInv, Cancelling
<1>d. state # "PAUSED" /\ TurnInv /\ DispatchInv /\ AdoptingInv
  BY DEF NeverInv, DriverInv
<1>r. LatestInv /\ StartInv /\ AloneInv /\ AckInv /\ WaitInv
  BY DEF NeverInv, TreeInv
<1>c. (\A f \in Exec : MayRun(f)' => MayRun(f)) /\ (\A f \in Exec : ~Starts(f))
  BY DEF Calm
<1>u. /\ \A f \in Exec : MayRun(f) => f \in Used
      /\ \A e \in Exec : task[e] # NoTask \/ Held(e) => e \in Used
  BY RunsAreUsed
<1>1. CASE Retry \/ StartTask \/ Reserve
  BY <1>1, <1>d, <1>c, <1>r, <1>t DEF Retry, StartTask, Reserve, WaitInv, NoneRuns
<1>2. CASE RequestCancel \/ LookForHandle \/ JoinTask
  BY <1>2, <1>d, <1>c, <1>r DEF RequestCancel, LookForHandle, JoinTask, Cancelled,
     WaitInv, NoneRuns
<1>3. CASE Pause \/ Resume
  BY <1>3, <1>d, <1>c, <1>r DEF Pause, Resume, WaitInv, NoneRuns
<1>4. ASSUME NEW e \in Exec, TaskStep(e) PROVE WaitInv'
  BY <1>4, ResultMoves, <1>d, <1>c, <1>r, <1>t DEF TaskStep, ResultStep, SendStart,
     EnterHostWait, Ended, Bind, StopTurn, TurnInv, Fits, NoTask, Cancelling, Terminal,
     RecordHostWait, AckResult, Acknowledge, CancelledMove, Taking, Cancelled, Received,
     PendingMove, YieldMove, LossMove, EndMove, TurnMove, LeftMove, WaitInv, NoneRuns
<1>5. ASSUME NEW c \in Canceller, CancelStep(c) PROVE WaitInv'
  BY <1>5, <1>d, <1>c, <1>r DEF CancelStep, SendCancel, CancelPending, ConfirmCancel,
     Cancelled, AckCancelled, Acknowledge, WaitInv, NoneRuns
<1>6. ASSUME NEW m \in Report, SnapshotStep(m) PROVE WaitInv'
  <2>1. CASE AdoptMove(m)
    BY <2>1, <1>d, <1>c, <1>r DEF AdoptMove, Handled, Adopt, Adopts, WaitInv, NoneRuns
  <2>2. CASE AbsenceMove(m)
    <3>1. state' = state /\ m \in Reports /\ ~Adopts(m)
      BY <2>2, MailSteps DEF AbsenceMove, Handled, Looked, Reports
    <3>2. ASSUME state = "WAITING_HOST", NEW f \in Exec PROVE ~MayRun(f)
      BY <3>1, <3>2, SnapshotLeads, NoExecIsNone DEF Adopts, Terminal
    <3>3. QED
      BY <1>c, <3>1, <3>2 DEF WaitInv, NoneRuns
  <2>3. CASE TakeUpMove(m)
    <3>1. state' = state /\ m \in Reports /\ ~Adopts(m)
      BY <2>3, MailSteps DEF TakeUpMove, Handled, Looked, Reports
    <3>2. ASSUME state = "WAITING_HOST", NEW f \in Exec PROVE ~MayRun(f)
      BY <3>1, <3>2, SnapshotLeads, NoExecIsNone DEF Adopts, Terminal
    <3>3. QED
      BY <1>c, <3>1, <3>2 DEF WaitInv, NoneRuns
  <2>4. CASE PassMove(m)
    <3>1. state' = state /\ m \in Reports /\ ~Adopts(m)
      BY <2>4, MailSteps DEF PassMove, Handled, Looked, Reports
    <3>2. ASSUME state = "WAITING_HOST", NEW f \in Exec PROVE ~MayRun(f)
      BY <3>1, <3>2, SnapshotLeads, NoExecIsNone DEF Adopts, Terminal
    <3>3. QED
      BY <1>c, <3>1, <3>2 DEF WaitInv, NoneRuns
  <2>5. QED
    BY <1>6, <2>1, <2>2, <2>3, <2>4 DEF SnapshotStep
<1>7. CASE AdoptBind \/ HandleResult
  BY <1>7, <1>d, <1>c, <1>r DEF AdoptBind, Detached, Lost, HandleResult, WaitInv,
     NoneRuns
<1>8. ASSUME NEW e \in Exec, RunnerStep(e) \/ CodexEnds(e) \/ LearnSession(e)
      PROVE  WaitInv'
  BY <1>8, <1>d, <1>c, <1>r DEF RunnerStep, RunnerReserves, RunnerSpawns, RunnerCancels,
     RunnerForgets, CodexEnds, LearnSession, WaitInv, NoneRuns
<1>9. CASE Heartbeat \/ Connect \/ Drop \/ Replace
  BY <1>9, <1>d, <1>c, <1>r, <1>t DEF Heartbeat, Connect, Drop, Detached, Lost, Replace,
     WaitInv, NoneRuns
<1>10. CASE Crash \/ Shutdown \/ Restart \/ UNCHANGED vars
  BY <1>10, <1>d, <1>c, <1>r DEF Crash, Halted, Shutdown, Restart, vars, WaitInv,
     NoneRuns
<1>11. QED
  BY <1>1, <1>2, <1>3, <1>4, <1>5, <1>6, <1>7, <1>8, <1>9, <1>10, SnapshotMoves DEF
     Next, ControllerStep, Receive

LEMMA LatestStep ==
    ASSUME BasicInv, NeverInv, [Next]_vars, Calm
    PROVE  LatestInv'
<1>1. /\ TypeOK /\ ControlInv /\ FreshInv /\ UsedInv /\ LatestInv /\ StartInv
      /\ TurnInv /\ DispatchInv
  BY DEF BasicInv, ControlInv, NeverInv, TreeInv, DriverInv
<1>2. RowsAppear /\ Exec \subseteq Nat
  BY <1>1, LedgerStep, BoundAssumption DEF Exec
<1>3. \A i, j \in Nat : i <= j \/ j < i
  OBVIOUS
<1>4. SUFFICES ASSUME NEW f \in Exec, NEW e \in Exec, ledger'[e] # "none",
                      MayRun(f)' \/ task'[f].at = "send"
               PROVE  e <= f
  BY DEF LatestInv, Used
<1>5. CASE Reserved(f)
  <2>1. e \in Used \/ e = f
    BY <1>1, <1>4, <1>5 DEF Reserved, Used, TypeOK
  <2>2. ~(f < e) \/ e = f
    BY <1>1, <1>5, <2>1 DEF UsedInv, Reserved
  <2>3. QED
    BY <1>2, <1>3, <2>2
<1>6. CASE MayRun(f) \/ task[f].at = "send"
  <2>1. dispatch = "none"
    BY <1>1, <1>6 DEF StartInv, NoneRuns, DispatchInv, NoTasks, NoTask
  <2>2. e \in Used
    BY <1>2, <1>4, <2>1 DEF RowsAppear, Reserved, Used
  <2>3. QED
    BY <1>1, <1>6, <2>2 DEF LatestInv
<1>7. QED
  BY <1>2, <1>4, <1>5, <1>6 DEF RowsAppear, Calm

LEMMA ReportStep ==
    ASSUME BasicInv, NeverInv, Never, Never', [Next]_vars, Calm
    PROVE  ReportInv'
<1>1. /\ TypeOK /\ ControlInv /\ FreshInv /\ DownInv /\ LinkInv /\ ReportInv
      /\ LatestInv /\ StartInv /\ WaitInv
  BY DEF BasicInv, ControlInv, NeverInv, TreeInv
<1>2. \A f \in Exec : MayRun(f)' => MayRun(f)
  BY DEF Calm
<1>3. SUFFICES ASSUME NEW m \in Reports'
               PROVE  /\ \A f \in Exec : MayRun(f)' => f \in m.running
                      /\ ~m.full => Still'
  BY DEF ReportInv, Still
<1>4. m \in Mail' /\ m.type = "RUNNING_JOBS" /\ (m \in Mail \/ NewMail(m))
  BY <1>1, <1>3, MailStep DEF Reports, MailGrows
<1>5. CASE m \in Mail
  <2>1. m \in Reports
    BY <1>4, <1>5 DEF Reports
  <2>2. QED
    BY <1>1, <1>2, <2>1, StillStep DEF ReportInv, Still, StaysStill
<1>6. CASE m = Snapshot(TRUE) /\ (Connect \/ Replace)
  <2>1. toRunner' = <<>> /\ run' = run
    BY <1>6 DEF Connect, Replace
  <2>2. Orders' = {}
    BY <1>1, <2>1, OrderSteps
  <2>3. m.full /\ m.running = {e \in Exec : run[e] \in {"reserved", "alive"}}
    BY <1>1, <1>6, Messages
  <2>4. QED
    BY <2>1, <2>2, <2>3 DEF MayRun, Ordered
<1>7. CASE m = Snapshot(FALSE) /\ Heartbeat
  <2>1. /\ conn /\ toController = <<>> /\ adopting = NoExec /\ run' = run
        /\ state \in {"WAITING_HOST", "CANCELLING"} /\ state' = state
        /\ dispatch' = dispatch /\ task' = task
    BY <1>7 DEF Heartbeat
  <2>2. m.running = {e \in Exec : run[e] \in {"reserved", "alive"}} /\ ~m.full
    BY <1>1, <1>7, Messages
  <2>3. PICK g \in Exec : run[g] \in {"reserved", "alive"}
    BY <1>7, <2>2 DEF Heartbeat
  <2>4. MayRun(g)
    BY <2>3 DEF MayRun
  <2>5. synced
    BY <1>1, <2>1 DEF LinkInv
  <2>6. state = "CANCELLING" /\ dispatch = "none" /\ ~Sending
    BY <1>1, <2>1, <2>4, <2>5 DEF WaitInv, StartInv, NoneRuns
  <2>7. Still'
    BY <2>1, <2>6 DEF Still, Final, Sending
  <2>8. ASSUME NEW f \in Exec, MayRun(f) PROVE f = g
    <3>1. f \in Used /\ g \in Used
      BY <2>4, <2>8, RunsAreUsed
    <3>2. f <= g /\ g <= f
      BY <1>1, <2>4, <2>8, <3>1 DEF LatestInv
    <3>3. Exec \subseteq Nat /\ \A i, j \in Nat : i <= j /\ j <= i => i = j
      BY BoundAssumption DEF Exec
    <3>4. QED
      BY <3>2, <3>3
  <2>9. QED
    BY <1>2, <2>2, <2>3, <2>7, <2>8
<1>8. \A e, kind : m # Result(e, kind)
  BY <1>1, <1>4, Messages
<1>9. QED
  BY <1>4, <1>5, <1>6, <1>7, <1>8 DEF NewMail

\* The row of what may run stays open.
LEMMA OpenStep ==
    ASSUME BasicInv, NeverInv, Never, Never', Calm, [Next]_vars
    PROVE  OpenInv'
<1> TypeOK
  BY DEF BasicInv
<1> /\ state \in Active \cup Terminal \cup {"WAITING_HOST", "PAUSED", "CANCELLING"}
    /\ rec \in Recovery /\ ledger \in [Exec -> LedgerState] /\ handle \in Exec \cup {NoExec}
    /\ future \in [Exec -> Future] /\ task \in [Exec -> Turn]
    /\ canceller \in [Canceller -> Cancellation] /\ adopting \in Exec \cup {NoExec}
    /\ run \in [Exec -> ExecState] /\ acked \subseteq Exec /\ bound \subseteq Exec
  BY DEF TypeOK
<1>t. \A settled \in BOOLEAN : InTime(settled) => settled
  BY TimeSettles DEF BasicInv, OnTime
<1> paused' = "never" /\ paused = "never" /\ synced \in BOOLEAN /\ conn \in BOOLEAN
  BY DEF Never, TypeOK
<1> /\ ~up => ~conn /\ dispatch = "none" /\ NoTasks /\ handle = NoExec
    /\ ~conn => toController = <<>> /\ adopting = NoExec /\ ~synced
    /\ \A e \in Exec : task[e].at # "none" => task[e] # NoTask
  BY DEF BasicInv, ControlInv, DownInv, NoTask
<1> /\ \A c \in Canceller : canceller[c].at # "idle" => state \in {"CANCELLING", "CANCELLED"}
    /\ \A c \in Canceller : canceller[c].at = "ack" => state = "CANCELLED"
    /\ rec.mode = "CANCEL" => state \in {"CANCELLING", "CANCELLED"}
    /\ state \notin Terminal => rec # NoRec
  BY DEF BasicInv, ControlInv, CancelInv, RowsInv, Cancelling
<1>d. state # "PAUSED" /\ TurnInv /\ DispatchInv /\ AdoptingInv
  BY DEF NeverInv, DriverInv
<1>r. LatestInv /\ StartInv /\ AloneInv /\ AckInv /\ WaitInv
  BY DEF NeverInv, TreeInv
<1>c. (\A f \in Exec : MayRun(f)' => MayRun(f)) /\ (\A f \in Exec : ~Starts(f))
  BY DEF Calm
<1>u. /\ \A f \in Exec : MayRun(f) => f \in Used
      /\ \A e \in Exec : task[e] # NoTask \/ Held(e) => e \in Used
  BY RunsAreUsed
<1>e. OpenInv /\ BoundInv /\ AgainInv /\ HandleInv
  BY DEF NeverInv, RecordInv
<1>o. state \in Terminal => state' \in Terminal
  BY OverStep DEF StaysOver
<1>1. CASE Retry \/ StartTask \/ Reserve
  BY <1>1, <1>d, <1>c, <1>e, <1>o, <1>t DEF Retry, StartTask, Reserve, Used, OpenInv,
     OpenRows
<1>2. CASE RequestCancel \/ LookForHandle \/ JoinTask
  BY <1>2, <1>d, <1>c, <1>e, <1>o DEF RequestCancel, LookForHandle, JoinTask, Cancelled,
     OpenInv, OpenRows
<1>3. CASE Pause \/ Resume
  BY <1>3, <1>d, <1>c, <1>e, <1>o DEF Pause, Resume, OpenInv, OpenRows
<1>4. ASSUME NEW e \in Exec, TaskStep(e) PROVE OpenInv'
  <2>1. CASE SendStart(e) \/ Bind(e) \/ StopTurn(e) \/ RecordHostWait(e) \/ AckResult(e)
     \/ CancelledMove(e)
    BY <2>1, <1>d, <1>c, <1>e, <1>o, <1>t, <1>r DEF SendStart, EnterHostWait, Ended,
       Bind, StopTurn, RecordHostWait, AckResult, Acknowledge, AckInv, CancelledMove,
       Taking, Cancelled, Received, OpenInv, OpenRows
  <2>2. CASE PendingMove(e) \/ YieldMove(e) \/ LossMove(e) \/ EndMove(e) \/ TurnMove(e)
     \/ LeftMove(e)
    BY <2>2, <1>d, <1>c, <1>e, <1>o DEF PendingMove, Taking, Ended, Received, YieldMove,
       LossMove, EndMove, TurnMove, LeftMove, OpenInv, OpenRows
  <2>3. QED
    BY <1>4, ResultMoves, <2>1, <2>2 DEF TaskStep, ResultStep
<1>5. ASSUME NEW c \in Canceller, CancelStep(c) PROVE OpenInv'
  BY <1>5, <1>d, <1>c, <1>e, <1>o DEF CancelStep, SendCancel, CancelPending,
     ConfirmCancel, Cancelled, AckCancelled, Acknowledge, Terminal, OpenInv, OpenRows
<1>6. ASSUME NEW m \in Report, SnapshotStep(m) PROVE OpenInv'
  <2>1. CASE AdoptMove(m)
    <3>1. /\ m \in Reports
          /\ ledger' = [f \in Exec |-> IF f \in Closed(m) THEN "ACKNOWLEDGED" ELSE ledger[f]]
      BY <2>1, MailSteps DEF AdoptMove, Handled, Reports
    <3>2. \A f \in Exec : MayRun(f) /\ state \notin Terminal => f \notin Closed(m)
      BY <3>1, SnapshotLeads
    <3>3. QED
      BY <1>c, <1>e, <1>o, <3>1, <3>2 DEF OpenInv, OpenRows
  <2>2. CASE AbsenceMove(m)
    <3>1. /\ m \in Reports
          /\ ledger' = [f \in Exec |-> IF f \in Closed(m) THEN "ACKNOWLEDGED" ELSE ledger[f]]
      BY <2>2, MailSteps DEF AbsenceMove, Handled, Reports
    <3>2. \A f \in Exec : MayRun(f) /\ state \notin Terminal => f \notin Closed(m)
      BY <3>1, SnapshotLeads
    <3>3. QED
      BY <1>c, <1>e, <1>o, <3>1, <3>2 DEF OpenInv, OpenRows
  <2>3. CASE TakeUpMove(m)
    <3>1. /\ m \in Reports
          /\ ledger' = [f \in Exec |-> IF f \in Closed(m) THEN "ACKNOWLEDGED" ELSE ledger[f]]
      BY <2>3, MailSteps DEF TakeUpMove, Handled, Reports
    <3>2. \A f \in Exec : MayRun(f) /\ state \notin Terminal => f \notin Closed(m)
      BY <3>1, SnapshotLeads
    <3>3. QED
      BY <1>c, <1>e, <1>o, <3>1, <3>2 DEF OpenInv, OpenRows
  <2>4. CASE PassMove(m)
    <3>1. /\ m \in Reports
          /\ ledger' = [f \in Exec |-> IF f \in Closed(m) THEN "ACKNOWLEDGED" ELSE ledger[f]]
      BY <2>4, MailSteps DEF PassMove, Handled, Reports
    <3>2. \A f \in Exec : MayRun(f) /\ state \notin Terminal => f \notin Closed(m)
      BY <3>1, SnapshotLeads
    <3>3. QED
      BY <1>c, <1>e, <1>o, <3>1, <3>2 DEF OpenInv, OpenRows
  <2>5. QED
    BY <1>6, <2>1, <2>2, <2>3, <2>4 DEF SnapshotStep
<1>7. CASE AdoptBind \/ HandleResult
  BY <1>7, <1>d, <1>c, <1>e, <1>o DEF AdoptBind, Detached, Lost, HandleResult, OpenInv,
     OpenRows
<1>8. ASSUME NEW e \in Exec, RunnerStep(e) \/ CodexEnds(e) \/ LearnSession(e)
      PROVE  OpenInv'
  BY <1>8, <1>d, <1>c, <1>e, <1>o DEF RunnerStep, RunnerReserves, RunnerSpawns,
     RunnerCancels, RunnerForgets, CodexEnds, LearnSession, OpenInv, OpenRows
<1>9. CASE Heartbeat \/ Connect \/ Drop \/ Replace
  BY <1>9, <1>d, <1>c, <1>e, <1>o, <1>t DEF Heartbeat, Connect, Drop, Detached, Lost,
     Replace, OpenInv, OpenRows
<1>10. CASE Crash \/ Shutdown \/ Restart \/ UNCHANGED vars
  BY <1>10, <1>d, <1>c, <1>e, <1>o DEF Crash, Halted, Shutdown, Restart, vars, OpenInv,
     OpenRows
<1>11. QED
  BY <1>1, <1>2, <1>3, <1>4, <1>5, <1>6, <1>7, <1>8, <1>9, <1>10, SnapshotMoves DEF
     Next, ControllerStep, Receive

\* The record names what may run, once its id has reached it.
LEMMA BoundStep ==
    ASSUME BasicInv, NeverInv, Never, Never', Calm, [Next]_vars
    PROVE  BoundInv'
<1> TypeOK
  BY DEF BasicInv
<1> /\ state \in Active \cup Terminal \cup {"WAITING_HOST", "PAUSED", "CANCELLING"}
    /\ rec \in Recovery /\ ledger \in [Exec -> LedgerState] /\ handle \in Exec \cup {NoExec}
    /\ future \in [Exec -> Future] /\ task \in [Exec -> Turn]
    /\ canceller \in [Canceller -> Cancellation] /\ adopting \in Exec \cup {NoExec}
    /\ run \in [Exec -> ExecState] /\ acked \subseteq Exec /\ bound \subseteq Exec
  BY DEF TypeOK
<1>t. \A settled \in BOOLEAN : InTime(settled) => settled
  BY TimeSettles DEF BasicInv, OnTime
<1> paused' = "never" /\ paused = "never" /\ synced \in BOOLEAN /\ conn \in BOOLEAN
  BY DEF Never, TypeOK
<1> /\ ~up => ~conn /\ dispatch = "none" /\ NoTasks /\ handle = NoExec
    /\ ~conn => toController = <<>> /\ adopting = NoExec /\ ~synced
    /\ \A e \in Exec : task[e].at # "none" => task[e] # NoTask
  BY DEF BasicInv, ControlInv, DownInv, NoTask
<1> /\ \A c \in Canceller : canceller[c].at # "idle" => state \in {"CANCELLING", "CANCELLED"}
    /\ \A c \in Canceller : canceller[c].at = "ack" => state = "CANCELLED"
    /\ rec.mode = "CANCEL" => state \in {"CANCELLING", "CANCELLED"}
    /\ state \notin Terminal => rec # NoRec
  BY DEF BasicInv, ControlInv, CancelInv, RowsInv, Cancelling
<1>d. state # "PAUSED" /\ TurnInv /\ DispatchInv /\ AdoptingInv
  BY DEF NeverInv, DriverInv
<1>r. LatestInv /\ StartInv /\ AloneInv /\ AckInv /\ WaitInv
  BY DEF NeverInv, TreeInv
<1>c. (\A f \in Exec : MayRun(f)' => MayRun(f)) /\ (\A f \in Exec : ~Starts(f))
  BY DEF Calm
<1>u. /\ \A f \in Exec : MayRun(f) => f \in Used
      /\ \A e \in Exec : task[e] # NoTask \/ Held(e) => e \in Used
  BY RunsAreUsed
<1>e. OpenInv /\ BoundInv /\ AgainInv /\ HandleInv /\ IntentInv /\ RequestInv /\ CancelledInv
  BY DEF NeverInv, RecordInv
<1>o. state \in Terminal => state' \in Terminal
  BY OverStep DEF StaysOver
<1>1. CASE Retry \/ StartTask \/ Reserve
  BY <1>1, <1>d, <1>c, <1>e, <1>o, <1>t DEF Retry, StartTask, Reserve, BoundInv
<1>2. CASE RequestCancel \/ LookForHandle \/ JoinTask
  BY <1>2, <1>d, <1>c, <1>e, <1>o DEF RequestCancel, LookForHandle, HandleInv, OnlyRuns,
     JoinTask, Cancelled, Terminal, BoundInv
<1>3. CASE Pause \/ Resume
  BY <1>3, <1>d, <1>c, <1>e, <1>o DEF Pause, Resume, BoundInv
<1>4. ASSUME NEW e \in Exec, TaskStep(e) PROVE BoundInv'
  <2>1. CASE SendStart(e) \/ Bind(e) \/ StopTurn(e) \/ RecordHostWait(e) \/ AckResult(e)
     \/ CancelledMove(e)
    BY <2>1, <1>d, <1>c, <1>e, <1>o, <1>t, <1>r DEF SendStart, EnterHostWait, Ended,
       Bind, AloneInv, OnlyRuns, NoTask, StopTurn, RecordHostWait, AckResult,
       Acknowledge, CancelledMove, Taking, Cancelled, Received, Terminal, BoundInv
  <2>2. CASE PendingMove(e) \/ YieldMove(e) \/ LossMove(e)
    BY <2>2, <1>d, <1>c, <1>e, <1>o, <1>r DEF PendingMove, Taking, Ended, Received,
       AloneInv, OnlyRuns, NoTask, YieldMove, LossMove, BoundInv
  <2>3. CASE EndMove(e) \/ TurnMove(e) \/ LeftMove(e)
    BY <2>3, <1>d, <1>c, <1>e, <1>o, <1>r DEF EndMove, Taking, Received, Terminal,
       TurnMove, AloneInv, OnlyRuns, NoTask, LeftMove, BoundInv
  <2>4. QED
    BY <1>4, ResultMoves, <2>1, <2>2, <2>3 DEF TaskStep, ResultStep
<1>5. ASSUME NEW c \in Canceller, CancelStep(c) PROVE BoundInv'
  <2>1. CASE SendCancel(c) \/ CancelPending(c)
    BY <2>1, <1>d, <1>c, <1>e, <1>o DEF SendCancel, CancelPending, RequestInv, OnlyRuns,
       BoundInv
  <2>2. CASE ConfirmCancel(c) \/ AckCancelled(c)
    BY <2>2, <1>d, <1>c, <1>e, <1>o DEF ConfirmCancel, Cancelled, Terminal,
       AckCancelled, Acknowledge, BoundInv
  <2>3. QED
    BY <1>5, <2>1, <2>2 DEF CancelStep
<1>6. ASSUME NEW m \in Report, SnapshotStep(m) PROVE BoundInv'
  <2>1. CASE PassMove(m)
    BY <2>1, <1>d, <1>c, <1>e, <1>o, LookedTypes DEF PassMove, Handled, BoundInv
  <2>2. CASE AdoptMove(m)
    <3>1. m \in Reports /\ state \notin Terminal
      BY <2>2, MailSteps DEF AdoptMove, Handled, Adopts, Reports, Terminal
    <3>2. \A f \in Exec : MayRun(f) => f = Adoptee(m)
      BY <2>2, <3>1, SnapshotLeads DEF AdoptMove, Adopts
    <3>3. QED
      BY <2>2, <1>c, <3>1, <3>2 DEF AdoptMove, Adopt, BoundInv
  <2>3. CASE AbsenceMove(m)
    <3>1. m \in Reports /\ state = "WAITING_HOST" /\ ~Adopts(m)
      BY <2>3, MailSteps DEF AbsenceMove, Handled, Misses, Reports
    <3>2. \A f \in Exec : ~MayRun(f)
      BY <3>1, SnapshotLeads, NoExecIsNone DEF Adopts, Terminal
    <3>3. QED
      BY <1>c, <3>2 DEF BoundInv
  <2>4. CASE TakeUpMove(m)
    <3>1. m \in Reports /\ state \notin Terminal
      BY <2>4, MailSteps DEF TakeUpMove, Handled, TakesUp, Reports, Terminal
    <3>2. \A f \in Exec : MayRun(f) => f = Known(m)
      BY <3>1, SnapshotLeads
    <3>3. QED
      BY <2>4, <1>c, <3>1, <3>2 DEF TakeUpMove, AdoptCancel, BoundInv
  <2>5. QED
    BY <1>6, <2>1, <2>2, <2>3, <2>4 DEF SnapshotStep
<1>7. CASE AdoptBind \/ HandleResult
  BY <1>7, <1>d, <1>c, <1>e, <1>o, <1>r DEF AdoptBind, Detached, Lost, AloneInv,
     OnlyRuns, AdoptingInv, HandleResult, BoundInv
<1>8. ASSUME NEW e \in Exec, RunnerStep(e) \/ CodexEnds(e) \/ LearnSession(e)
      PROVE  BoundInv'
  BY <1>8, <1>d, <1>c, <1>e, <1>o DEF RunnerStep, RunnerReserves, RunnerSpawns,
     RunnerCancels, RunnerForgets, CodexEnds, LearnSession, BoundInv
<1>9. CASE Heartbeat \/ Connect \/ Drop \/ Replace
  BY <1>9, <1>d, <1>c, <1>e, <1>o, <1>t DEF Heartbeat, Connect, Drop, Detached, Lost,
     Replace, BoundInv
<1>10. CASE Crash \/ Shutdown \/ Restart \/ UNCHANGED vars
  BY <1>10, <1>d, <1>c, <1>e, <1>o DEF Crash, Halted, Shutdown, HandleInv, OnlyRuns,
     Restart, vars, BoundInv
<1>11. QED
  BY <1>1, <1>2, <1>3, <1>4, <1>5, <1>6, <1>7, <1>8, <1>9, <1>10, SnapshotMoves DEF
     Next, ControllerStep, Receive

\* What is started again was bound before.
LEMMA AgainStep ==
    ASSUME BasicInv, NeverInv, Never, Never', Calm, [Next]_vars
    PROVE  AgainInv'
<1> TypeOK
  BY DEF BasicInv
<1> /\ state \in Active \cup Terminal \cup {"WAITING_HOST", "PAUSED", "CANCELLING"}
    /\ rec \in Recovery /\ ledger \in [Exec -> LedgerState] /\ handle \in Exec \cup {NoExec}
    /\ future \in [Exec -> Future] /\ task \in [Exec -> Turn]
    /\ canceller \in [Canceller -> Cancellation] /\ adopting \in Exec \cup {NoExec}
    /\ run \in [Exec -> ExecState] /\ acked \subseteq Exec /\ bound \subseteq Exec
  BY DEF TypeOK
<1>t. \A settled \in BOOLEAN : InTime(settled) => settled
  BY TimeSettles DEF BasicInv, OnTime
<1> paused' = "never" /\ paused = "never" /\ synced \in BOOLEAN /\ conn \in BOOLEAN
  BY DEF Never, TypeOK
<1> /\ ~up => ~conn /\ dispatch = "none" /\ NoTasks /\ handle = NoExec
    /\ ~conn => toController = <<>> /\ adopting = NoExec /\ ~synced
    /\ \A e \in Exec : task[e].at # "none" => task[e] # NoTask
  BY DEF BasicInv, ControlInv, DownInv, NoTask
<1> /\ \A c \in Canceller : canceller[c].at # "idle" => state \in {"CANCELLING", "CANCELLED"}
    /\ \A c \in Canceller : canceller[c].at = "ack" => state = "CANCELLED"
    /\ rec.mode = "CANCEL" => state \in {"CANCELLING", "CANCELLED"}
    /\ state \notin Terminal => rec # NoRec
  BY DEF BasicInv, ControlInv, CancelInv, RowsInv, Cancelling
<1>d. state # "PAUSED" /\ TurnInv /\ DispatchInv /\ AdoptingInv
  BY DEF NeverInv, DriverInv
<1>r. LatestInv /\ StartInv /\ AloneInv /\ AckInv /\ WaitInv
  BY DEF NeverInv, TreeInv
<1>c. (\A f \in Exec : MayRun(f)' => MayRun(f)) /\ (\A f \in Exec : ~Starts(f))
  BY DEF Calm
<1>u. /\ \A f \in Exec : MayRun(f) => f \in Used
      /\ \A e \in Exec : task[e] # NoTask \/ Held(e) => e \in Used
  BY RunsAreUsed
<1>e. OpenInv /\ BoundInv /\ AgainInv /\ HandleInv
  BY DEF NeverInv, RecordInv
<1>o. state \in Terminal => state' \in Terminal
  BY OverStep DEF StaysOver
<1>k. TasksInv
  BY DEF BasicInv, ControlInv
<1>1. CASE Retry \/ StartTask \/ Reserve
  BY <1>1, <1>d, <1>c, <1>e, <1>o, <1>t DEF Retry, StartTask, Reserve, AgainInv, NoTask,
     Turn
<1>2. CASE RequestCancel \/ LookForHandle \/ JoinTask
  BY <1>2, <1>d, <1>c, <1>e, <1>o DEF RequestCancel, LookForHandle, JoinTask, Cancelled,
     AgainInv, NoTask, Turn
<1>3. CASE Pause \/ Resume
  BY <1>3, <1>d, <1>c, <1>e, <1>o DEF Pause, Resume, AgainInv, NoTask, Turn
<1>4. ASSUME NEW e \in Exec, TaskStep(e) PROVE AgainInv'
  <2>1. CASE SendStart(e) \/ Bind(e) \/ StopTurn(e) \/ RecordHostWait(e) \/ AckResult(e)
     \/ CancelledMove(e)
    BY <2>1, <1>d, <1>c, <1>e, <1>o, <1>r DEF SendStart, EnterHostWait, Ended, StartInv,
       Sending, NoneRuns, Bind, StopTurn, TurnInv, Fits, Cancelling, Terminal,
       RecordHostWait, AloneInv, OnlyRuns, AckResult, Acknowledge, CancelledMove,
       Taking, Cancelled, Received, AgainInv, NoTask, Turn
  <2>2. CASE PendingMove(e) \/ YieldMove(e) \/ LossMove(e) \/ EndMove(e) \/ TurnMove(e)
     \/ LeftMove(e)
    BY <2>2, <1>d, <1>c, <1>e, <1>o, <1>r, <1>k DEF PendingMove, Taking, Ended,
       Received, YieldMove, LossMove, AloneInv, OnlyRuns, TasksInv, EndMove, TurnMove,
       LeftMove, AgainInv, NoTask, Turn
  <2>3. QED
    BY <1>4, ResultMoves, <2>1, <2>2 DEF TaskStep, ResultStep
<1>5. ASSUME NEW c \in Canceller, CancelStep(c) PROVE AgainInv'
  BY <1>5, <1>d, <1>c, <1>e, <1>o DEF CancelStep, SendCancel, CancelPending,
     ConfirmCancel, Cancelled, AckCancelled, Acknowledge, AgainInv, NoTask, Turn
<1>6. ASSUME NEW m \in Report, SnapshotStep(m) PROVE AgainInv'
  <2>1. CASE AdoptMove(m) \/ TakeUpMove(m) \/ PassMove(m)
    BY <2>1, <1>d, <1>c, <1>e, <1>o, LookedTypes DEF AdoptMove, Handled, Adopt, Adopts,
       TakeUpMove, AdoptCancel, PassMove, AgainInv, NoTask, Turn
  <2>2. CASE AbsenceMove(m)
    <3>1. m \in Reports /\ state = "WAITING_HOST" /\ ~Adopts(m)
      BY <2>2, MailSteps DEF AbsenceMove, Handled, Misses, Reports
    <3>2. \A f \in Exec : ~MayRun(f)
      BY <3>1, SnapshotLeads, NoExecIsNone DEF Adopts, Terminal
    <3>3. QED
      BY <1>c, <3>2 DEF AgainInv
  <2>3. QED
    BY <1>6, <2>1, <2>2 DEF SnapshotStep
<1>7. CASE AdoptBind \/ HandleResult
  BY <1>7, <1>d, <1>c, <1>e, <1>o DEF AdoptBind, Detached, Lost, HandleResult, AgainInv,
     NoTask, Turn
<1>8. ASSUME NEW e \in Exec, RunnerStep(e) \/ CodexEnds(e) \/ LearnSession(e)
      PROVE  AgainInv'
  BY <1>8, <1>d, <1>c, <1>e, <1>o DEF RunnerStep, RunnerReserves, RunnerSpawns,
     RunnerCancels, RunnerForgets, CodexEnds, LearnSession, AgainInv, NoTask, Turn
<1>9. CASE Heartbeat \/ Connect \/ Drop \/ Replace
  BY <1>9, <1>d, <1>c, <1>e, <1>o, <1>t DEF Heartbeat, Connect, Drop, Detached, Lost,
     Replace, AgainInv, NoTask, Turn
<1>10. CASE Crash \/ Shutdown \/ Restart \/ UNCHANGED vars
  BY <1>10, <1>d, <1>c, <1>e, <1>o DEF Crash, Halted, Shutdown, Restart, vars, AgainInv,
     NoTask, Turn
<1>11. QED
  BY <1>1, <1>2, <1>3, <1>4, <1>5, <1>6, <1>7, <1>8, <1>9, <1>10, SnapshotMoves DEF
     Next, ControllerStep, Receive

\* Nothing runs or starts beside the handle of a Job.
LEMMA HandleStep ==
    ASSUME BasicInv, NeverInv, Never, Never', Calm, [Next]_vars
    PROVE  HandleInv'
<1> TypeOK
  BY DEF BasicInv
<1> /\ state \in Active \cup Terminal \cup {"WAITING_HOST", "PAUSED", "CANCELLING"}
    /\ rec \in Recovery /\ ledger \in [Exec -> LedgerState] /\ handle \in Exec \cup {NoExec}
    /\ future \in [Exec -> Future] /\ task \in [Exec -> Turn]
    /\ canceller \in [Canceller -> Cancellation] /\ adopting \in Exec \cup {NoExec}
    /\ run \in [Exec -> ExecState] /\ acked \subseteq Exec /\ bound \subseteq Exec
  BY DEF TypeOK
<1>t. \A settled \in BOOLEAN : InTime(settled) => settled
  BY TimeSettles DEF BasicInv, OnTime
<1> paused' = "never" /\ paused = "never" /\ synced \in BOOLEAN /\ conn \in BOOLEAN
  BY DEF Never, TypeOK
<1> /\ ~up => ~conn /\ dispatch = "none" /\ NoTasks /\ handle = NoExec
    /\ ~conn => toController = <<>> /\ adopting = NoExec /\ ~synced
    /\ \A e \in Exec : task[e].at # "none" => task[e] # NoTask
  BY DEF BasicInv, ControlInv, DownInv, NoTask
<1> /\ \A c \in Canceller : canceller[c].at # "idle" => state \in {"CANCELLING", "CANCELLED"}
    /\ \A c \in Canceller : canceller[c].at = "ack" => state = "CANCELLED"
    /\ rec.mode = "CANCEL" => state \in {"CANCELLING", "CANCELLED"}
    /\ state \notin Terminal => rec # NoRec
  BY DEF BasicInv, ControlInv, CancelInv, RowsInv, Cancelling
<1>d. state # "PAUSED" /\ TurnInv /\ DispatchInv /\ AdoptingInv
  BY DEF NeverInv, DriverInv
<1>r. LatestInv /\ StartInv /\ AloneInv /\ AckInv /\ WaitInv
  BY DEF NeverInv, TreeInv
<1>c. (\A f \in Exec : MayRun(f)' => MayRun(f)) /\ (\A f \in Exec : ~Starts(f))
  BY DEF Calm
<1>u. /\ \A f \in Exec : MayRun(f) => f \in Used
      /\ \A e \in Exec : task[e] # NoTask \/ Held(e) => e \in Used
  BY RunsAreUsed
<1>e. OpenInv /\ BoundInv /\ AgainInv /\ HandleInv /\ IntentInv /\ RequestInv /\ CancelledInv
  BY DEF NeverInv, RecordInv
<1>o. state \in Terminal => state' \in Terminal
  BY OverStep DEF StaysOver
<1>1. CASE Retry \/ StartTask \/ Reserve
  BY <1>1, <1>d, <1>c, <1>e, <1>o, <1>t DEF Retry, Quiet, StartTask, Reserve, HandleInv,
     OnlyRuns, NoTasks, NoTask, Turn, Final, Terminal, Active, NothingStarts, Sending
<1>2. CASE RequestCancel \/ LookForHandle \/ JoinTask
  BY <1>2, <1>d, <1>c, <1>e, <1>o DEF RequestCancel, LookForHandle, JoinTask, Cancelled,
     HandleInv, OnlyRuns, NoTasks, NoTask, Turn, Final, Terminal, Active, NothingStarts,
     Sending
<1>3. CASE Pause \/ Resume
  BY <1>3, <1>d, <1>c, <1>e, <1>o DEF Pause, Resume, HandleInv, OnlyRuns, NoTasks,
     NoTask, Turn, Final, Terminal, Active, NothingStarts, Sending
<1>4. ASSUME NEW e \in Exec, TaskStep(e) PROVE HandleInv'
  <2>1. CASE SendStart(e) \/ Bind(e)
    BY <2>1, <1>d, <1>c, <1>e, <1>o, <1>t, <1>r DEF SendStart, EnterHostWait, Ended,
       TurnInv, Bind, DispatchInv, NoTasks, AloneInv, HandleInv, OnlyRuns, NoTask, Turn,
       Final, Terminal, Active, NothingStarts, Sending
  <2>2. CASE StopTurn(e)
    BY <2>2, <1>d, <1>c, <1>e, <1>o DEF StopTurn, EnterHostWait, Ended, TurnInv, Fits,
       Cancelling, HandleInv, OnlyRuns, NoTasks, NoTask, Turn, Final, Terminal, Active,
       NothingStarts, Sending
  <2>3. CASE RecordHostWait(e) \/ AckResult(e)
    BY <2>3, <1>d, <1>c, <1>e, <1>o DEF RecordHostWait, Ended, AckResult, Acknowledge,
       HandleInv, OnlyRuns, NoTasks, NoTask, Turn, Final, Terminal, Active,
       NothingStarts, Sending
  <2>4. CASE CancelledMove(e)
    BY <2>4, <1>d, <1>c, <1>e, <1>o DEF CancelledMove, Taking, Cancelled, Received,
       HandleInv, OnlyRuns, NoTasks, NoTask, Turn, Final, Terminal, Active,
       NothingStarts, Sending
  <2>5. CASE PendingMove(e) \/ YieldMove(e) \/ LossMove(e)
    BY <2>5, <1>d, <1>c, <1>e, <1>o DEF PendingMove, Taking, Ended, Received, YieldMove,
       LossMove, HandleInv, OnlyRuns, NoTasks, NoTask, Turn, Final, Terminal, Active,
       NothingStarts, Sending
  <2>6. CASE EndMove(e)
    BY <2>6, <1>d, <1>c, <1>e, <1>o DEF EndMove, Taking, Received, HandleInv, OnlyRuns,
       NoTasks, NoTask, Turn, Final, Terminal, Active, NothingStarts, Sending
  <2>7. CASE TurnMove(e)
    BY <2>7, <1>d, <1>c, <1>e, <1>o DEF TurnMove, Taking, Received, HandleInv, OnlyRuns,
       NoTasks, NoTask, Turn, Final, Terminal, Active, NothingStarts, Sending
  <2>8. CASE LeftMove(e)
    BY <2>8, <1>d, <1>c, <1>e, <1>o DEF LeftMove, Taking, Received, HandleInv, OnlyRuns,
       NoTasks, NoTask, Turn, Final, Terminal, Active, NothingStarts, Sending
  <2>9. QED
    BY <1>4, ResultMoves, <2>1, <2>2, <2>3, <2>4, <2>5, <2>6, <2>7, <2>8 DEF TaskStep,
       ResultStep
<1>5. ASSUME NEW c \in Canceller, CancelStep(c) PROVE HandleInv'
  BY <1>5, <1>d, <1>c, <1>e, <1>o DEF CancelStep, SendCancel, CancelPending,
     ConfirmCancel, Cancelled, AckCancelled, Acknowledge, HandleInv, OnlyRuns, NoTasks,
     NoTask, Turn, Final, Terminal, Active, NothingStarts, Sending
<1>6. ASSUME NEW m \in Report, SnapshotStep(m) PROVE HandleInv'
  <2>1. CASE AdoptMove(m) \/ AbsenceMove(m) \/ PassMove(m)
    BY <2>1, <1>d, <1>c, <1>e, <1>o, LookedTypes DEF AdoptMove, Handled, Adopt, Adopts,
       AbsenceMove, ConfirmAbsence, PassMove, HandleInv, OnlyRuns, NoTasks, NoTask,
       Turn, Final, Terminal, Active, NothingStarts, Sending
  <2>2. CASE TakeUpMove(m)
    <3>1. /\ m \in Reports /\ state = "CANCELLING" /\ state' = state /\ rec.mode = "CANCEL"
          /\ dispatch' = dispatch /\ task' = task /\ handle' = Known(m)
      BY <2>2, MailSteps DEF TakeUpMove, Handled, TakesUp, Looked, AdoptCancel, Reports
    <3>2. \A f \in Exec : MayRun(f) => f = Known(m)
      BY <3>1, SnapshotLeads DEF Terminal
    <3>3. NothingStarts
      BY <1>e, <3>1 DEF IntentInv
    <3>4. QED
      BY <1>c, <3>1, <3>2, <3>3 DEF HandleInv, OnlyRuns, NothingStarts, Sending, Final
  <2>3. QED
    BY <1>6, <2>1, <2>2 DEF SnapshotStep
<1>7. CASE AdoptBind \/ HandleResult
  BY <1>7, <1>d, <1>c, <1>e, <1>o, <1>r DEF AdoptBind, Detached, Lost, AdoptingInv,
     AloneInv, HandleResult, HandleInv, OnlyRuns, NoTasks, NoTask, Turn, Final,
     Terminal, Active, NothingStarts, Sending
<1>8. ASSUME NEW e \in Exec, RunnerStep(e) \/ CodexEnds(e) \/ LearnSession(e)
      PROVE  HandleInv'
  BY <1>8, <1>d, <1>c, <1>e, <1>o DEF RunnerStep, RunnerReserves, RunnerSpawns,
     RunnerCancels, RunnerForgets, CodexEnds, LearnSession, HandleInv, OnlyRuns,
     NoTasks, NoTask, Turn, Final, Terminal, Active, NothingStarts, Sending
<1>9. CASE Heartbeat \/ Connect \/ Drop \/ Replace
  BY <1>9, <1>d, <1>c, <1>e, <1>o, <1>t DEF Heartbeat, Connect, Drop, Detached, Lost,
     Replace, HandleInv, OnlyRuns, NoTasks, NoTask, Turn, Final, Terminal, Active,
     NothingStarts, Sending
<1>10. CASE Crash \/ Shutdown \/ Restart \/ UNCHANGED vars
  BY <1>10, <1>d, <1>c, <1>e, <1>o DEF Crash, Halted, Shutdown, Restart, vars,
     HandleInv, OnlyRuns, NoTasks, NoTask, Turn, Final, Terminal, Active, NothingStarts,
     Sending
<1>11. QED
  BY <1>1, <1>2, <1>3, <1>4, <1>5, <1>6, <1>7, <1>8, <1>9, <1>10, SnapshotMoves DEF
     Next, ControllerStep, Receive

\* Nothing starts once a cancellation is on record.
LEMMA IntentStep ==
    ASSUME BasicInv, NeverInv, Never, Never', Calm, [Next]_vars
    PROVE  IntentInv'
<1> TypeOK
  BY DEF BasicInv
<1> /\ state \in Active \cup Terminal \cup {"WAITING_HOST", "PAUSED", "CANCELLING"}
    /\ rec \in Recovery /\ ledger \in [Exec -> LedgerState] /\ handle \in Exec \cup {NoExec}
    /\ future \in [Exec -> Future] /\ task \in [Exec -> Turn]
    /\ canceller \in [Canceller -> Cancellation] /\ adopting \in Exec \cup {NoExec}
    /\ run \in [Exec -> ExecState] /\ acked \subseteq Exec /\ bound \subseteq Exec
  BY DEF TypeOK
<1>t. \A settled \in BOOLEAN : InTime(settled) => settled
  BY TimeSettles DEF BasicInv, OnTime
<1> paused' = "never" /\ paused = "never" /\ synced \in BOOLEAN /\ conn \in BOOLEAN
  BY DEF Never, TypeOK
<1> /\ ~up => ~conn /\ dispatch = "none" /\ NoTasks /\ handle = NoExec
    /\ ~conn => toController = <<>> /\ adopting = NoExec /\ ~synced
    /\ \A e \in Exec : task[e].at # "none" => task[e] # NoTask
  BY DEF BasicInv, ControlInv, DownInv, NoTask
<1> /\ \A c \in Canceller : canceller[c].at # "idle" => state \in {"CANCELLING", "CANCELLED"}
    /\ \A c \in Canceller : canceller[c].at = "ack" => state = "CANCELLED"
    /\ rec.mode = "CANCEL" => state \in {"CANCELLING", "CANCELLED"}
    /\ state \notin Terminal => rec # NoRec
  BY DEF BasicInv, ControlInv, CancelInv, RowsInv, Cancelling
<1>d. state # "PAUSED" /\ TurnInv /\ DispatchInv /\ AdoptingInv
  BY DEF NeverInv, DriverInv
<1>r. LatestInv /\ StartInv /\ AloneInv /\ AckInv /\ WaitInv
  BY DEF NeverInv, TreeInv
<1>c. (\A f \in Exec : MayRun(f)' => MayRun(f)) /\ (\A f \in Exec : ~Starts(f))
  BY DEF Calm
<1>u. /\ \A f \in Exec : MayRun(f) => f \in Used
      /\ \A e \in Exec : task[e] # NoTask \/ Held(e) => e \in Used
  BY RunsAreUsed
<1>e. OpenInv /\ BoundInv /\ AgainInv /\ HandleInv /\ IntentInv /\ RequestInv /\ CancelledInv
  BY DEF NeverInv, RecordInv
<1>o. state \in Terminal => state' \in Terminal
  BY OverStep DEF StaysOver
<1>1. CASE Retry \/ StartTask \/ Reserve
  BY <1>1, <1>d, <1>c, <1>e, <1>o, <1>t DEF Retry, StartTask, Reserve, IntentInv,
     NoTasks, NoTask, Turn, NothingStarts, Sending
<1>2. CASE RequestCancel \/ LookForHandle \/ JoinTask
  BY <1>2, <1>d, <1>c, <1>e, <1>o DEF RequestCancel, LookForHandle, HandleInv, JoinTask,
     Cancelled, Quiet, IntentInv, NoTasks, NoTask, Turn, NothingStarts, Sending
<1>3. CASE Pause \/ Resume
  BY <1>3, <1>d, <1>c, <1>e, <1>o DEF Pause, Resume, IntentInv, NoTasks, NoTask, Turn,
     NothingStarts, Sending
<1>4. ASSUME NEW e \in Exec, TaskStep(e) PROVE IntentInv'
  <2>1. CASE SendStart(e) \/ Bind(e) \/ StopTurn(e)
    BY <2>1, <1>d, <1>c, <1>e, <1>o, <1>t DEF SendStart, EnterHostWait, Ended, TurnInv,
       Bind, StopTurn, IntentInv, NoTasks, NoTask, Turn, NothingStarts, Sending
  <2>2. CASE RecordHostWait(e) \/ AckResult(e)
    BY <2>2, <1>d, <1>c, <1>e, <1>o DEF RecordHostWait, Ended, AckResult, Acknowledge,
       IntentInv, NoTasks, NoTask, Turn, NothingStarts, Sending
  <2>3. CASE CancelledMove(e)
    BY <2>3, <1>d, <1>c, <1>e, <1>o DEF CancelledMove, Taking, Cancelled, Received,
       NoRec, IntentInv, NoTasks, NoTask, Turn, NothingStarts, Sending
  <2>4. CASE PendingMove(e) \/ YieldMove(e)
    BY <2>4, <1>d, <1>c, <1>e, <1>o DEF PendingMove, Taking, Ended, Received, TurnInv,
       DispatchInv, NoTasks, YieldMove, IntentInv, NoTask, Turn, NothingStarts, Sending
  <2>5. CASE LossMove(e)
    BY <2>5, <1>d, <1>c, <1>e, <1>o DEF LossMove, Taking, Received, TurnInv, IntentInv,
       NoTasks, NoTask, Turn, NothingStarts, Sending
  <2>6. CASE EndMove(e)
    BY <2>6, <1>d, <1>c, <1>e, <1>o DEF EndMove, Taking, Received, NoRec, IntentInv,
       NoTasks, NoTask, Turn, NothingStarts, Sending
  <2>7. CASE TurnMove(e)
    BY <2>7, <1>d, <1>c, <1>e, <1>o DEF TurnMove, Taking, Received, TurnInv, IntentInv,
       NoTasks, NoTask, Turn, NothingStarts, Sending
  <2>8. CASE LeftMove(e)
    BY <2>8, <1>d, <1>c, <1>e, <1>o DEF LeftMove, Taking, Received, TurnInv, IntentInv,
       NoTasks, NoTask, Turn, NothingStarts, Sending
  <2>9. QED
    BY <1>4, ResultMoves, <2>1, <2>2, <2>3, <2>4, <2>5, <2>6, <2>7, <2>8 DEF TaskStep,
       ResultStep
<1>5. ASSUME NEW c \in Canceller, CancelStep(c) PROVE IntentInv'
  BY <1>5, <1>d, <1>c, <1>e, <1>o DEF CancelStep, SendCancel, CancelPending, RequestInv,
     ConfirmCancel, Cancelled, AckCancelled, Acknowledge, IntentInv, NoTasks, NoTask,
     Turn, NothingStarts, Sending
<1>6. ASSUME NEW m \in Report, SnapshotStep(m) PROVE IntentInv'
  BY <1>6, <1>d, <1>c, <1>e, <1>o, LookedTypes DEF SnapshotStep, AdoptMove, Handled,
     Adopt, Adopts, AbsenceMove, ConfirmAbsence, TakeUpMove, AdoptCancel, TakesUp,
     PassMove, IntentInv, NoTasks, NoTask, Turn, NothingStarts, Sending
<1>7. CASE AdoptBind \/ HandleResult
  BY <1>7, <1>d, <1>c, <1>e, <1>o DEF AdoptBind, Detached, Lost, HandleResult,
     IntentInv, NoTasks, NoTask, Turn, NothingStarts, Sending
<1>8. ASSUME NEW e \in Exec, RunnerStep(e) \/ CodexEnds(e) \/ LearnSession(e)
      PROVE  IntentInv'
  BY <1>8, <1>d, <1>c, <1>e, <1>o DEF RunnerStep, RunnerReserves, RunnerSpawns,
     RunnerCancels, RunnerForgets, CodexEnds, LearnSession, IntentInv, NoTasks, NoTask,
     Turn, NothingStarts, Sending
<1>9. CASE Heartbeat \/ Connect \/ Drop \/ Replace
  BY <1>9, <1>d, <1>c, <1>e, <1>o, <1>t DEF Heartbeat, Connect, Drop, Detached, Lost,
     Replace, IntentInv, NoTasks, NoTask, Turn, NothingStarts, Sending
<1>10. CASE Crash \/ Shutdown \/ Restart \/ UNCHANGED vars
  BY <1>10, <1>d, <1>c, <1>e, <1>o DEF Crash, Halted, Shutdown, Restart, vars,
     IntentInv, NoTasks, NoTask, Turn, NothingStarts, Sending
<1>11. QED
  BY <1>1, <1>2, <1>3, <1>4, <1>5, <1>6, <1>7, <1>8, <1>9, <1>10, SnapshotMoves DEF
     Next, ControllerStep, Receive

\* Nothing runs or starts beside an execution that is being cancelled.
LEMMA RequestStep ==
    ASSUME BasicInv, NeverInv, Never, Never', Calm, [Next]_vars
    PROVE  RequestInv'
<1> TypeOK
  BY DEF BasicInv
<1> /\ state \in Active \cup Terminal \cup {"WAITING_HOST", "PAUSED", "CANCELLING"}
    /\ rec \in Recovery /\ ledger \in [Exec -> LedgerState] /\ handle \in Exec \cup {NoExec}
    /\ future \in [Exec -> Future] /\ task \in [Exec -> Turn]
    /\ canceller \in [Canceller -> Cancellation] /\ adopting \in Exec \cup {NoExec}
    /\ run \in [Exec -> ExecState] /\ acked \subseteq Exec /\ bound \subseteq Exec
  BY DEF TypeOK
<1>t. \A settled \in BOOLEAN : InTime(settled) => settled
  BY TimeSettles DEF BasicInv, OnTime
<1> paused' = "never" /\ paused = "never" /\ synced \in BOOLEAN /\ conn \in BOOLEAN
  BY DEF Never, TypeOK
<1> /\ ~up => ~conn /\ dispatch = "none" /\ NoTasks /\ handle = NoExec
    /\ ~conn => toController = <<>> /\ adopting = NoExec /\ ~synced
    /\ \A e \in Exec : task[e].at # "none" => task[e] # NoTask
  BY DEF BasicInv, ControlInv, DownInv, NoTask
<1> /\ \A c \in Canceller : canceller[c].at # "idle" => state \in {"CANCELLING", "CANCELLED"}
    /\ \A c \in Canceller : canceller[c].at = "ack" => state = "CANCELLED"
    /\ rec.mode = "CANCEL" => state \in {"CANCELLING", "CANCELLED"}
    /\ state \notin Terminal => rec # NoRec
  BY DEF BasicInv, ControlInv, CancelInv, RowsInv, Cancelling
<1>d. state # "PAUSED" /\ TurnInv /\ DispatchInv /\ AdoptingInv
  BY DEF NeverInv, DriverInv
<1>r. LatestInv /\ StartInv /\ AloneInv /\ AckInv /\ WaitInv
  BY DEF NeverInv, TreeInv
<1>c. (\A f \in Exec : MayRun(f)' => MayRun(f)) /\ (\A f \in Exec : ~Starts(f))
  BY DEF Calm
<1>u. /\ \A f \in Exec : MayRun(f) => f \in Used
      /\ \A e \in Exec : task[e] # NoTask \/ Held(e) => e \in Used
  BY RunsAreUsed
<1>e. OpenInv /\ BoundInv /\ AgainInv /\ HandleInv /\ IntentInv /\ RequestInv /\ CancelledInv
  BY DEF NeverInv, RecordInv
<1>o. state \in Terminal => state' \in Terminal
  BY OverStep DEF StaysOver
<1>1. CASE Retry \/ StartTask \/ Reserve
  BY <1>1, <1>d, <1>c, <1>e, <1>o, <1>t DEF Retry, StartTask, Reserve, RequestInv,
     OnlyRuns, NoTask, Turn, Canceller, NothingStarts, Sending
<1>2. CASE RequestCancel \/ LookForHandle \/ JoinTask
  BY <1>2, <1>d, <1>c, <1>e, <1>o DEF RequestCancel, LookForHandle, HandleInv, JoinTask,
     Cancelled, RequestInv, OnlyRuns, NoTask, Turn, Canceller, NothingStarts, Sending
<1>3. CASE Pause \/ Resume
  BY <1>3, <1>d, <1>c, <1>e, <1>o DEF Pause, Resume, RequestInv, OnlyRuns, NoTask, Turn,
     Canceller, NothingStarts, Sending
<1>4. ASSUME NEW e \in Exec, TaskStep(e) PROVE RequestInv'
  <2>1. CASE SendStart(e) \/ Bind(e) \/ StopTurn(e)
    BY <2>1, <1>d, <1>c, <1>e, <1>o, <1>t DEF SendStart, EnterHostWait, Ended, Bind,
       StopTurn, RequestInv, OnlyRuns, NoTask, Turn, Canceller, NothingStarts, Sending
  <2>2. CASE RecordHostWait(e) \/ AckResult(e) \/ CancelledMove(e)
    BY <2>2, <1>d, <1>c, <1>e, <1>o DEF RecordHostWait, Ended, AckResult, Acknowledge,
       CancelledMove, Taking, Cancelled, Received, RequestInv, OnlyRuns, NoTask, Turn,
       Canceller, NothingStarts, Sending
  <2>3. CASE PendingMove(e) \/ YieldMove(e)
    BY <2>3, <1>d, <1>c, <1>e, <1>o DEF PendingMove, Taking, Ended, Received, YieldMove,
       RequestInv, OnlyRuns, NoTask, Turn, Canceller, NothingStarts, Sending
  <2>4. CASE LossMove(e)
    BY <2>4, <1>d, <1>c, <1>e, <1>o DEF LossMove, Taking, Received, RequestInv,
       OnlyRuns, NoTask, Turn, Canceller, NothingStarts, Sending
  <2>5. CASE EndMove(e) \/ TurnMove(e)
    BY <2>5, <1>d, <1>c, <1>e, <1>o DEF EndMove, Taking, Received, TurnMove, RequestInv,
       OnlyRuns, NoTask, Turn, Canceller, NothingStarts, Sending
  <2>6. CASE LeftMove(e)
    BY <2>6, <1>d, <1>c, <1>e, <1>o DEF LeftMove, Taking, Received, RequestInv,
       OnlyRuns, NoTask, Turn, Canceller, NothingStarts, Sending
  <2>7. QED
    BY <1>4, ResultMoves, <2>1, <2>2, <2>3, <2>4, <2>5, <2>6 DEF TaskStep, ResultStep
<1>5. ASSUME NEW c \in Canceller, CancelStep(c) PROVE RequestInv'
  BY <1>5, <1>d, <1>c, <1>e, <1>o DEF CancelStep, SendCancel, CancelPending,
     ConfirmCancel, Cancelled, AckCancelled, Acknowledge, RequestInv, OnlyRuns, NoTask,
     Turn, Canceller, NothingStarts, Sending
<1>6. ASSUME NEW m \in Report, SnapshotStep(m) PROVE RequestInv'
  <2>1. CASE AdoptMove(m) \/ AbsenceMove(m) \/ PassMove(m)
    BY <2>1, <1>d, <1>c, <1>e, <1>o, LookedTypes DEF AdoptMove, Handled, Adopt, Adopts,
       AbsenceMove, ConfirmAbsence, PassMove, RequestInv, OnlyRuns, NoTask, Turn,
       Canceller, NothingStarts, Sending
  <2>2. CASE TakeUpMove(m)
    <3>1. /\ m \in Reports /\ state = "CANCELLING" /\ rec.mode = "CANCEL"
          /\ dispatch' = dispatch /\ task' = task
          /\ canceller' = [canceller EXCEPT !["adopted"] = [at |-> "send", exec |-> Known(m)]]
      BY <2>2, MailSteps DEF TakeUpMove, Handled, TakesUp, AdoptCancel, Reports
    <3>2. \A f \in Exec : MayRun(f) => f = Known(m)
      BY <3>1, SnapshotLeads DEF Terminal
    <3>3. NothingStarts
      BY <1>e, <3>1 DEF IntentInv
    <3>4. QED
      BY <1>c, <1>e, <3>1, <3>2, <3>3 DEF RequestInv, OnlyRuns, NothingStarts, Sending, Canceller
  <2>3. QED
    BY <1>6, <2>1, <2>2 DEF SnapshotStep
<1>7. CASE AdoptBind \/ HandleResult
  BY <1>7, <1>d, <1>c, <1>e, <1>o DEF AdoptBind, Detached, Lost, HandleResult,
     RequestInv, OnlyRuns, NoTask, Turn, Canceller, NothingStarts, Sending
<1>8. ASSUME NEW e \in Exec, RunnerStep(e) \/ CodexEnds(e) \/ LearnSession(e)
      PROVE  RequestInv'
  BY <1>8, <1>d, <1>c, <1>e, <1>o DEF RunnerStep, RunnerReserves, RunnerSpawns,
     RunnerCancels, RunnerForgets, CodexEnds, LearnSession, RequestInv, OnlyRuns,
     NoTask, Turn, Canceller, NothingStarts, Sending
<1>9. CASE Heartbeat \/ Connect \/ Drop \/ Replace
  BY <1>9, <1>d, <1>c, <1>e, <1>o, <1>t DEF Heartbeat, Connect, Drop, Detached, Lost,
     Replace, RequestInv, OnlyRuns, NoTask, Turn, Canceller, NothingStarts, Sending
<1>10. CASE Crash \/ Shutdown \/ Restart \/ UNCHANGED vars
  <2>1. CASE Crash
    BY <2>1, <1>d, <1>c, <1>e, <1>o DEF Crash, Halted, Idle, RequestInv, OnlyRuns,
       NoTask, Turn, Canceller, NothingStarts, Sending
  <2>2. CASE Shutdown
    BY <2>2, <1>d, <1>c, <1>e, <1>o DEF Shutdown, Halted, Idle, RequestInv, OnlyRuns,
       NoTask, Turn, Canceller, NothingStarts, Sending
  <2>3. CASE Restart \/ UNCHANGED vars
    BY <2>3, <1>d, <1>c, <1>e, <1>o DEF Restart, vars, RequestInv, OnlyRuns, NoTask,
       Turn, Canceller, NothingStarts, Sending
  <2>4. QED
    BY <1>10, <2>1, <2>2, <2>3
<1>11. QED
  BY <1>1, <1>2, <1>3, <1>4, <1>5, <1>6, <1>7, <1>8, <1>9, <1>10, SnapshotMoves DEF
     Next, ControllerStep, Receive

\* A Job that is CANCELLED leaves nothing behind that it knows of.
LEMMA CancelledStep ==
    ASSUME BasicInv, NeverInv, Never, Never', Calm, [Next]_vars
    PROVE  CancelledInv'
<1> TypeOK
  BY DEF BasicInv
<1> /\ state \in Active \cup Terminal \cup {"WAITING_HOST", "PAUSED", "CANCELLING"}
    /\ rec \in Recovery /\ ledger \in [Exec -> LedgerState] /\ handle \in Exec \cup {NoExec}
    /\ future \in [Exec -> Future] /\ task \in [Exec -> Turn]
    /\ canceller \in [Canceller -> Cancellation] /\ adopting \in Exec \cup {NoExec}
    /\ run \in [Exec -> ExecState] /\ acked \subseteq Exec /\ bound \subseteq Exec
  BY DEF TypeOK
<1>t. \A settled \in BOOLEAN : InTime(settled) => settled
  BY TimeSettles DEF BasicInv, OnTime
<1> paused' = "never" /\ paused = "never" /\ synced \in BOOLEAN /\ conn \in BOOLEAN
  BY DEF Never, TypeOK
<1> /\ ~up => ~conn /\ dispatch = "none" /\ NoTasks /\ handle = NoExec
    /\ ~conn => toController = <<>> /\ adopting = NoExec /\ ~synced
    /\ \A e \in Exec : task[e].at # "none" => task[e] # NoTask
  BY DEF BasicInv, ControlInv, DownInv, NoTask
<1> /\ \A c \in Canceller : canceller[c].at # "idle" => state \in {"CANCELLING", "CANCELLED"}
    /\ \A c \in Canceller : canceller[c].at = "ack" => state = "CANCELLED"
    /\ rec.mode = "CANCEL" => state \in {"CANCELLING", "CANCELLED"}
    /\ state \notin Terminal => rec # NoRec
  BY DEF BasicInv, ControlInv, CancelInv, RowsInv, Cancelling
<1>d. state # "PAUSED" /\ TurnInv /\ DispatchInv /\ AdoptingInv
  BY DEF NeverInv, DriverInv
<1>r. LatestInv /\ StartInv /\ AloneInv /\ AckInv /\ WaitInv
  BY DEF NeverInv, TreeInv
<1>c. (\A f \in Exec : MayRun(f)' => MayRun(f)) /\ (\A f \in Exec : ~Starts(f))
  BY DEF Calm
<1>u. /\ \A f \in Exec : MayRun(f) => f \in Used
      /\ \A e \in Exec : task[e] # NoTask \/ Held(e) => e \in Used
  BY RunsAreUsed
<1>e. OpenInv /\ BoundInv /\ AgainInv /\ HandleInv /\ IntentInv /\ RequestInv /\ CancelledInv
  BY DEF NeverInv, RecordInv
<1>o. state \in Terminal => state' \in Terminal
  BY OverStep DEF StaysOver
<1>x. \A f \in Exec : future[f] = "result" => ~MayRun(f)
  BY EndedIsOver
<1>y. NoExec \notin Exec
  BY NoExecIsNone
<1>1. CASE Retry \/ StartTask \/ Reserve
  BY <1>1, <1>d, <1>c, <1>e, <1>o, <1>t DEF Retry, StartTask, Reserve, CancelledInv,
     NoTasks, NoTask, Turn, NothingStarts, Sending
<1>2. CASE RequestCancel \/ LookForHandle \/ JoinTask
  BY <1>2, <1>d, <1>c, <1>e, <1>o, <1>y DEF RequestCancel, LookForHandle, JoinTask,
     Cancelled, Quiet, BoundInv, Terminal, CancelledInv, NoTasks, NoTask, Turn,
     NothingStarts, Sending
<1>3. CASE Pause \/ Resume
  BY <1>3, <1>d, <1>c, <1>e, <1>o DEF Pause, Resume, CancelledInv, NoTasks, NoTask,
     Turn, NothingStarts, Sending
<1>4. ASSUME NEW e \in Exec, TaskStep(e) PROVE CancelledInv'
  <2>1. CASE SendStart(e) \/ Bind(e) \/ StopTurn(e) \/ RecordHostWait(e) \/ AckResult(e)
     \/ CancelledMove(e)
    BY <2>1, <1>d, <1>c, <1>e, <1>o, <1>t, <1>x, <1>r DEF SendStart, EnterHostWait,
       Ended, Bind, StopTurn, RecordHostWait, AckResult, Acknowledge, CancelledMove,
       Taking, Cancelled, Received, AloneInv, OnlyRuns, TurnInv, DispatchInv, NoTasks,
       CancelledInv, NoTask, Turn, NothingStarts, Sending
  <2>2. CASE PendingMove(e) \/ YieldMove(e) \/ LossMove(e)
    BY <2>2, <1>d, <1>c, <1>e, <1>o DEF PendingMove, Taking, Ended, Received, YieldMove,
       LossMove, CancelledInv, NoTasks, NoTask, Turn, NothingStarts, Sending
  <2>3. CASE EndMove(e) \/ TurnMove(e)
    BY <2>3, <1>d, <1>c, <1>e, <1>o DEF EndMove, Taking, Received, TurnMove,
       CancelledInv, NoTasks, NoTask, Turn, NothingStarts, Sending
  <2>4. CASE LeftMove(e)
    BY <2>4, <1>d, <1>c, <1>e, <1>o DEF LeftMove, Taking, Received, CancelledInv,
       NoTasks, NoTask, Turn, NothingStarts, Sending
  <2>5. QED
    BY <1>4, ResultMoves, <2>1, <2>2, <2>3, <2>4 DEF TaskStep, ResultStep
<1>5. ASSUME NEW c \in Canceller, CancelStep(c) PROVE CancelledInv'
  BY <1>5, <1>d, <1>c, <1>e, <1>o, <1>x DEF CancelStep, SendCancel, CancelPending,
     ConfirmCancel, Cancelled, RequestInv, OnlyRuns, AckCancelled, Acknowledge,
     CancelledInv, NoTasks, NoTask, Turn, NothingStarts, Sending
<1>6. ASSUME NEW m \in Report, SnapshotStep(m) PROVE CancelledInv'
  <2>1. CASE AdoptMove(m) \/ AbsenceMove(m)
    BY <2>1, <1>d, <1>c, <1>e, <1>o, LookedTypes DEF AdoptMove, Handled, Adopt, Adopts,
       AbsenceMove, ConfirmAbsence, CancelledInv, NoTasks, NoTask, Turn, NothingStarts,
       Sending
  <2>2. CASE TakeUpMove(m)
    BY <2>2, <1>d, <1>c, <1>e, <1>o, LookedTypes DEF TakeUpMove, Handled, AdoptCancel,
       TakesUp, CancelledInv, NoTasks, NoTask, Turn, NothingStarts, Sending
  <2>3. CASE PassMove(m)
    BY <2>3, <1>d, <1>c, <1>e, <1>o, LookedTypes DEF PassMove, Handled, CancelledInv,
       NoTasks, NoTask, Turn, NothingStarts, Sending
  <2>4. QED
    BY <1>6, <2>1, <2>2, <2>3 DEF SnapshotStep
<1>7. CASE AdoptBind \/ HandleResult
  BY <1>7, <1>d, <1>c, <1>e, <1>o DEF AdoptBind, Detached, Lost, AdoptingInv,
     HandleResult, CancelledInv, NoTasks, NoTask, Turn, NothingStarts, Sending
<1>8. ASSUME NEW e \in Exec, RunnerStep(e) \/ CodexEnds(e) \/ LearnSession(e)
      PROVE  CancelledInv'
  BY <1>8, <1>d, <1>c, <1>e, <1>o DEF RunnerStep, RunnerReserves, RunnerSpawns,
     RunnerCancels, RunnerForgets, CodexEnds, LearnSession, CancelledInv, NoTasks,
     NoTask, Turn, NothingStarts, Sending
<1>9. CASE Heartbeat \/ Connect \/ Drop \/ Replace
  BY <1>9, <1>d, <1>c, <1>e, <1>o, <1>t DEF Heartbeat, Connect, Drop, Detached, Lost,
     Replace, CancelledInv, NoTasks, NoTask, Turn, NothingStarts, Sending
<1>10. CASE Crash \/ Shutdown \/ Restart \/ UNCHANGED vars
  BY <1>10, <1>d, <1>c, <1>e, <1>o DEF Crash, Halted, Shutdown, Restart, vars,
     CancelledInv, NoTasks, NoTask, Turn, NothingStarts, Sending
<1>11. QED
  BY <1>1, <1>2, <1>3, <1>4, <1>5, <1>6, <1>7, <1>8, <1>9, <1>10, SnapshotMoves DEF
     Next, ControllerStep, Receive

\* The command that starts an execution is sent when nothing else may run.
LEMMA StartingStep ==
    ASSUME BasicInv, NeverInv, Never, Never', [Next]_vars, NEW s \in Exec, Starts(s)
    PROVE  TreeInv' /\ ReportInv' /\ RecordInv' /\ HandleInv' /\ IntentInv' /\ RequestInv'
           /\ CancelledInv'
<1>1. /\ TypeOK /\ FreshInv /\ ControlInv /\ LinkInv /\ ReportInv
      /\ LatestInv /\ StartInv /\ AloneInv /\ AckInv /\ WaitInv /\ OpenInv /\ BoundInv /\ AgainInv
      /\ TurnInv /\ DispatchInv /\ AdoptingInv
      /\ HandleInv /\ IntentInv /\ RequestInv /\ CancelledInv
  BY DEF BasicInv, NeverInv, DriverInv, TreeInv, RecordInv
<1>2. /\ task[s].at = "send" /\ conn /\ InTime(synced) /\ handle' = s
      /\ task' = [task EXCEPT ![s].at = "bind"] /\ Send("JOB_START", s)
      /\ UNCHANGED <<state, rec, ledger, dispatch, canceller, adopting, conn, synced,
                     toController, run, bound>>
  BY DEF Starts, SendStart
<1>3. synced /\ Sending
  BY <1>1, <1>2, TimeSettles DEF OnTime, TypeOK, Sending
<1>4. /\ \A f \in Exec : f # s => task[f] = NoTask
      /\ task \in [Exec -> Turn] /\ task[s] # NoTask
  BY <1>1, <1>2 DEF TurnInv, NoTask, TypeOK
<1>5. /\ \A f \in Exec : f # s => task'[f] = NoTask
      /\ task'[s].at = "bind" /\ task'[s] # NoTask
  BY <1>2, <1>4 DEF Turn, NoTask
<1>6. ASSUME NEW f \in Exec, MayRun(f)' PROVE f = s
  <2>1. ~MayRun(f)
    BY <1>1, <1>3 DEF StartInv, NoneRuns
  <2>2. Starts(f)
    BY <1>1, <1>6, <2>1, MayRunStep DEF MayNotRise
  <2>3. task[f].at = "send"
    BY <2>2 DEF Starts, SendStart
  <2>4. QED
    BY <1>4, <2>3 DEF NoTask
<1>7. dispatch = "none" /\ adopting = NoExec /\ ~Sending'
  BY <1>1, <1>4, <1>5 DEF DispatchInv, AdoptingInv, NoTasks, Sending, NoTask
<1>8. state \in {"STARTING", "RUNNING", "CANCELLING"} /\ s \notin bound
  <2>1. state # "CANCELLED"
    BY <1>1, <1>3 DEF CancelledInv, NothingStarts
  <2>2. Fits(task[s])
    BY <1>1, <1>4 DEF TurnInv
  <2>3. state \in {"STARTING", "RUNNING", "CANCELLING"}
    BY <1>2, <2>1, <2>2 DEF Fits, Cancelling
  <2>4. QED
    BY <1>1, <1>2, <2>3 DEF FreshInv, Held
<1>9. TreeInv'
  <2>1. LatestInv'
    BY <1>1, <1>2, <1>5, <1>6 DEF LatestInv, Used, NoTask
  <2>2. StartInv' /\ AloneInv' /\ AckInv' /\ WaitInv'
    BY <1>2, <1>5, <1>6, <1>7, <1>8, NoExecIsNone
       DEF StartInv, AloneInv, AckInv, WaitInv, OnlyRuns, NoTask
  <2>3. QED
    BY <2>1, <2>2 DEF TreeInv
<1>10. ReportInv'
  <2>1. SUFFICES ASSUME NEW m \in Reports' PROVE FALSE
    BY DEF ReportInv
  <2>2. m \in Reports /\ m.type = "RUNNING_JOBS"
    BY <1>1, <1>2, <2>1, MailSteps DEF Reports
  <2>3. m.full
    BY <1>1, <1>3, <2>2 DEF ReportInv
  <2>4. PICK i \in DOMAIN toController : toController[i] = m
    BY <2>2 DEF Reports, Mail, ToSet
  <2>5. QED
    BY <1>1, <1>3, <2>2, <2>3, <2>4 DEF LinkInv, IsFull
<1>11. RecordInv'
  <2>1. s \in OpenRows'
    BY <1>1, <1>2, <1>3, <1>4 DEF TurnInv, OpenRows
  <2>2. QED
    BY <1>2, <1>5, <1>6, <1>8, <2>1 DEF RecordInv, OpenInv, BoundInv, AgainInv
<1>12. HandleInv' /\ IntentInv'
  <2>1. NothingStarts' /\ ~NoTasks'
    BY <1>2, <1>5, <1>7 DEF NothingStarts, NoTasks
  <2>2. QED
    BY <1>2, <1>6, <2>1 DEF HandleInv, IntentInv, OnlyRuns
<1>13. RequestInv' /\ CancelledInv'
  <2>1. ~NothingStarts
    BY <1>3 DEF NothingStarts
  <2>2. QED
    BY <1>1, <1>2, <1>8, <2>1 DEF RequestInv, CancelledInv
<1>14. QED
  BY <1>9, <1>10, <1>11, <1>12, <1>13

LEMMA NeverStep ==
    ASSUME BasicInv, Never => NeverInv, [Next]_vars, Never'
    PROVE  NeverInv'
<1>1. Never /\ NeverInv /\ TypeOK /\ ControlInv /\ FreshInv
  <2>1. TypeOK /\ ControlInv /\ FreshInv
    BY DEF BasicInv
  <2>2. QED
    BY <2>1, NeverBefore
<1>2. DriverInv'
  BY <1>1, NotPausedStep, TurnStep, DispatchStep, AdoptingStep DEF DriverInv
<1>3. LinkInv'
  BY <1>1, LinkStep
<1>4. CASE \E s \in Exec : Starts(s)
  BY <1>1, <1>2, <1>3, <1>4, StartingStep DEF NeverInv
<1>5. CASE \A s \in Exec : ~Starts(s)
  <2>1. Calm
    BY <1>1, <1>5, MayRunStep DEF MayNotRise, Calm
  <2>2. TreeInv'
    BY <1>1, <2>1, LatestStep, StartStep, AloneStep, AckStep, WaitStep DEF TreeInv
  <2>3. ReportInv' /\ RecordInv'
    BY <1>1, <2>1, ReportStep, OpenStep, BoundStep, AgainStep DEF RecordInv
  <2>4. HandleInv' /\ IntentInv' /\ RequestInv' /\ CancelledInv'
    BY <1>1, <2>1, HandleStep, IntentStep, RequestStep, CancelledStep
  <2>5. QED
    BY <1>2, <1>3, <2>2, <2>3, <2>4 DEF NeverInv
<1>6. QED
  BY <1>4, <1>5

LEMMA NeverInit ==
    ASSUME Init
    PROVE  NeverInv
<1>1. TypeOK /\ Orders = {} /\ Mail = {} /\ Reports = {}
  BY BasicInit, EmptyQueue DEF BasicInv, Init, Orders, Mail, Reports
<1>2. NoneRuns /\ NoTasks /\ ~Sending /\ dispatch = "none"
  BY <1>1 DEF Init, NoneRuns, MayRun, Ordered, NoTasks, Sending, NoTask
<1>3. DriverInv
  BY <1>2 DEF Init, DriverInv, TurnInv, DispatchInv, AdoptingInv, NoTasks
<1>4. LinkInv
  <2>1. DOMAIN toController = {}
    BY DEF Init
  <2>2. QED
    BY <2>1 DEF Init, LinkInv
<1>5. TreeInv /\ RecordInv
  BY <1>2, NoExecIsNone DEF Init, TreeInv, LatestInv, StartInv, AloneInv, AckInv, WaitInv,
     NoneRuns, OnlyRuns, RecordInv, OpenInv, BoundInv, AgainInv, NoTasks, NoTask
<1>6. ReportInv /\ HandleInv /\ IntentInv /\ RequestInv /\ CancelledInv
  BY <1>1 DEF Init, ReportInv, HandleInv, IntentInv, RequestInv, CancelledInv, Idle
<1>7. QED
  BY <1>3, <1>4, <1>5, <1>6 DEF NeverInv

-----------------------------------------------------------------------------
(* The theorems.                                                           *)

LEMMA InvInit ==
    ASSUME Init
    PROVE  IInv
<1>1. OwnerInv
  BY DEF Init, OwnerInv, Driving, NoTask
<1>2. QED
  BY <1>1, BasicInit, NeverInit DEF IInv

LEMMA InvStep ==
    ASSUME IInv, [Next]_vars
    PROVE  IInv'
<1>1. TypeOK /\ ControlInv
  BY DEF IInv, BasicInv
<1>2. QED
  BY <1>1, BasicStep, OwnerStep, NeverStep DEF IInv

\* The rows of the Controller, its memory, what is under way and what the Runner
\* does fit together in every state.
THEOREM Invariance == Spec => []IInv
  BY InvInit, InvStep, PTL DEF Spec

\* As long as nothing came too early and nobody paused the Job, at most one Codex
\* is alive in its working tree, whatever connection, Runner or Controller is lost
\* and restarted (reconcile_runner, _retry_host, reconcile_startup).
THEOREM TreeIsOwned ==
    Spec => [](early = 0 /\ paused = "never" => OneCodexPerTree)
<1>1. ASSUME IInv, Never PROVE OneLiveCodex
  <2>1. BasicInv /\ LatestInv
    BY <1>1 DEF IInv, NeverInv, TreeInv
  <2>2. SUFFICES ASSUME NEW e \in Exec, NEW f \in Exec, run[e] = "alive", run[f] = "alive"
                 PROVE  e = f
    BY DEF OneLiveCodex
  <2>3. MayRun(e) /\ MayRun(f)
    BY <2>2 DEF MayRun
  <2>4. e \in Used /\ f \in Used
    BY <2>1, <2>3, RunsAreUsed
  <2>5. e <= f /\ f <= e
    BY <2>1, <2>3, <2>4 DEF LatestInv
  <2>6. Exec \subseteq Nat /\ \A i, j \in Nat : i <= j /\ j <= i => i = j
    BY BoundAssumption DEF Exec
  <2>7. QED
    BY <2>5, <2>6
<1>2. IInv => (early = 0 /\ paused = "never" => OneCodexPerTree)
  BY <1>1 DEF Never, OneCodexPerTree
<1>3. QED
  BY <1>2, Invariance, PTL

\* As long as nothing came too early, a Job that nobody paused is CANCELLED only when
\* no execution whose id it recorded is alive or can still be started
\* (_finalize_cancellation, _adopt_remote_cancellation, cancel).
THEOREM CancellationIsTrue ==
    Spec => [](early = 0 => CancelledMeansStopped)
<1>1. ASSUME IInv, Never, state = "CANCELLED", NEW e \in bound PROVE Stopped(e)
  <2>1. CancelledInv /\ bound \subseteq Exec
    BY <1>1 DEF IInv, BasicInv, NeverInv, TypeOK
  <2>2. ~MayRun(e)
    BY <1>1, <2>1 DEF CancelledInv
  <2>3. QED
    BY <2>2 DEF MayRun, Stopped
<1>2. IInv => (early = 0 => CancelledMeansStopped)
  BY <1>1 DEF Never, CancelledMeansStopped
<1>3. QED
  BY <1>2, Invariance, PTL

\* A result is acknowledged, and the Runner free to drop it, only when the Job is over,
\* was stopped by its user or goes on with another turn (_ack_result_handle).
THEOREM ResultsAreSettled == Spec => AckedResultIsSettled
<1>1. IInv /\ [Next]_vars =>
        [acked' # acked =>
            state \in Terminal \cup {"PAUSED", "CANCELLING"} \/ dispatch' # "none"]_vars
  BY SettledStep DEF IInv, BasicInv, Settled
<1>2. QED
  BY <1>1, Invariance, PTL DEF Spec, AckedResultIsSettled
=============================================================================
