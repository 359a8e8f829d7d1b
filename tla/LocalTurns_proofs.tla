-------------------------- MODULE LocalTurns_proofs --------------------------
(***************************************************************************)
(* Theorems about LocalTurns, for every number of tasks, processes, stops  *)
(* of the Controller and failed terminations.                              *)
(***************************************************************************)
EXTENDS LocalTurns, TLAPS, FiniteSetTheorems

USE DEF rows, tasks, others, world, bounds, vars, Goto, SetActor, At, ActorAt, Move

\* TypeOK by parts.
RowsOK ==
    /\ state \in Active \cup Suspended \cup {"WAITING_AGENT", "FAILED", "CANCELLED"}
    /\ mode \in {"none", "START", "RESUME"}
    /\ pid \in Codex \cup {None}
    /\ gate \in {"none", "PENDING", "RESOLVED", "EXPIRED", "CANCELLED"}
    /\ up \in {"up", "down", "refused"}
FlagsOK ==
    /\ held \in BOOLEAN /\ session \in BOOLEAN
    /\ steering \in BOOLEAN /\ expiring \in BOOLEAN
TasksOK ==
    /\ task \in [Task -> Turn]
    /\ current \in Task \cup {None} /\ handle \in Codex \cup {None}
WorldOK ==
    /\ codex \in [Codex -> {"none", "alive", "exited"}]
    /\ reader \in [Codex -> {"none", "reads", "result", "failed", "cancelled", "unsafe"}]
BoundsOK == stops \in 0..MaxStops /\ failures \in 0..MaxFailures

-----------------------------------------------------------------------------
(* The inductive invariant.                                                *)

Live(t) == task[t].at \notin {"none", "over"}
Kills(a) == actor[a].at = "kill"
Joins(a) == actor[a].at = "join"
Stopper == {"cancel", "shutdown"}

\* One task at a time, the one in _tasks, and only while the Controller is up.
TaskInv ==
    /\ \A t \in Task : Live(t) => current = t /\ up = "up"
    /\ handle # None => \E t \in Task : Live(t)

\* The handle is the one of the turn from the time it has one.
HandleInv ==
    /\ \A t \in Task :
         /\ task[t].at \in {"bind", "check", "stop", "await", "drain", "close"} =>
              handle = task[t].codex
         /\ task[t].at = "begin" => handle = None
         /\ task[t].at \in {"ready", "spawned"} /\ task[t].mode = "new" => handle = None
         /\ task[t].at \in {"spawned", "bind", "check", "stop", "await", "drain", "close"} =>
              task[t].codex # None
         /\ task[t].at \in {"drain", "close"} => codex[task[t].codex] = "exited"

\* A reader that is done has seen the end of its process.
ReaderInv ==
    \A c \in Codex :
        /\ reader[c] \in {"result", "failed", "cancelled"} => codex[c] = "exited"
        /\ reader[c] = "unsafe" => failures # 0

\* What a request is at ...
ShapeInv ==
    /\ \A a \in Actor :
         /\ Kills(a) => /\ actor[a].of \in Codex /\ codex[actor[a].of] # "none"
                        /\ a \notin {"resume", "respond"}
         /\ Joins(a) => actor[a].of \in Task \cup {None} /\ a \in {"cancel", "resume", "respond"}
         /\ actor[a].at = "look" => a = "cancel"
         /\ up # "up" => actor[a].at = "idle"
    /\ Kills("shutdown") => stops # 0
    /\ handle # None => codex[handle] # "none"

\* ... and in which states of the Job it can be.
ActorInv ==
    /\ actor["cancel"].at # "idle" => state \in {"CANCELLING", "CANCELLED"}
    /\ Joins("resume") => state \in {"PAUSED", "WAITING_HOST", "CANCELLING", "CANCELLED"}
    /\ Joins("respond") =>
         state \in {"WAITING_HUMAN", "WAITING_HOST", "CANCELLING", "CANCELLED", "FAILED"}
    /\ Kills("shutdown") => state \in {"WAITING_HOST", "CANCELLING", "CANCELLED"}

\* Who waits for a task waits for the one there is.
JoinInv ==
    \A a \in Actor, t \in Task : Joins(a) /\ state \notin Terminal /\ Live(t) => actor[a].of = t

\* A cancellation or a shutdown terminates the only process there is, and no other is
\* going to be started.
StopInv ==
    \A a \in Stopper : Kills(a) =>
        /\ Alive \subseteq {actor[a].of}
        /\ \A t \in Task : Live(t) =>
             \/ task[t].codex = actor[a].of /\ task[t].at \notin {"begin", "ready"}
             \/ task[t].at = "ready" /\ task[t].mode # "new"
             \/ task[t].at = "end"

\* Whoever is terminating a process while a turn of an active Job has one of its own is
\* late: that process is gone.
CalmInv ==
    state \in Active =>
        \A t \in Task : Live(t) /\ task[t].at \notin {"begin", "ready", "end"} =>
            \A a \in Actor : Kills(a) => codex[actor[a].of] = "exited"

\* What the state of the Job is at each point of a turn.
StageInv ==
    /\ \A t \in Task :
         /\ task[t].at = "begin" => state \notin {"STARTING", "RUNNING", "WAITING_AGENT"}
         /\ task[t].at \in {"ready", "spawned", "bind", "check"} =>
              state \notin {"ASSIGNED", "WAITING_AGENT",
                           IF task[t].mode = "new" THEN "RUNNING" ELSE "STARTING"}
         /\ task[t].at \in {"await", "drain", "close"} =>
              state \notin {"ASSIGNED", "STARTING", "WAITING_AGENT"}
         /\ task[t].at \in {"stop", "end"} => state \notin Active
    /\ up = "up" /\ state \in Active => \E t \in Task : Live(t)

\* A live process belongs to a turn, or the Job is held because of it.
Owned(c) ==
    \E t \in Task : task[t].codex = c
                    /\ task[t].at \in {"spawned", "bind", "check", "stop", "await"}
Loose(c) ==
    /\ held /\ pid = c /\ failures # 0
    /\ state \in {"PAUSED", "WAITING_HOST"}
    /\ \A t \in Task : Live(t) => task[t].at = "end" /\ task[t].codex = c
    /\ \A a \in Actor :
         actor[a].at = "idle" \/ a = "shutdown" \/ (Kills(a) /\ codex[actor[a].of] = "exited")
OwnerInv ==
    /\ up = "up" => \A c \in Alive : Owned(c) \/ Loose(c)
    /\ \A c, d \in Alive : c = d

\* What a crash leaves behind is in the row, or the row says so.
DownInv == up = "down" => Alive \subseteq {pid} \/ Unrecorded

\* A Job that is over has no process and starts none.
OverInv ==
    state \in Terminal =>
        /\ Alive = {}
        /\ \A t \in Task :
             task[t].at # "begin" /\ ~(task[t].at = "ready" /\ task[t].mode = "new")

\* From the time the turn is bound the row names its process, or a late request has
\* cleared it.
PidInv ==
    \A t \in Task :
        /\ task[t].at \in {"check", "await"} /\ codex[task[t].codex] = "alive"
        /\ task[t].at = "check" => state \in {"STARTING", "RUNNING"}
        => pid \in {task[t].codex, None}

\* A turn that is closed has no instruction left.
SteerInv == Locked \/ state = "WAITING_AGENT" => ~steering

\* A turn that is waited for is that of a running Job, or is being terminated.
SuspendInv ==
    failures = 0 =>
        \A t \in Task : task[t].at = "await" /\ codex[task[t].codex] = "alive" =>
            \/ state = "RUNNING" \/ Doomed(task[t].codex)
            \/ state = "CANCELLING" /\ actor["cancel"].at = "look"

\* Whatever races are explored ...
FreeInv ==
    TypeOK /\ ShapeInv /\ ReaderInv /\ SteerInv /\ GateCanBeAnswered /\ CancellationProceeds
\* ... what holds when only an approval may expire while its turn is being stopped ...
StrictInv ==
    /\ TaskInv /\ HandleInv /\ ActorInv /\ JoinInv /\ StopInv /\ CalmInv /\ StageInv
    /\ OwnerInv /\ DownInv /\ PidInv /\ SuspendInv
\* ... and when no race is.
IInv ==
    /\ FreeInv
    /\ Windows \subseteq {"expiry"} => StrictInv
    /\ Windows = {} => OverInv

-----------------------------------------------------------------------------
(* Facts about the constants.                                              *)

LEMMA NoneIsOut == None \notin Codex /\ None \notin Task
  BY BoundAssumption DEF None, Codex, Task

LEMMA Counted ==
    ASSUME TypeOK
    PROVE  (Unconfirmed => failures' # 0) /\ stops + 1 # 0
<1>1. stops \in Nat /\ failures \in Nat
  BY BoundAssumption DEF TypeOK
<1>2. QED
  BY <1>1 DEF Unconfirmed

-----------------------------------------------------------------------------
(* Who can be alive.                                                       *)

\* Before its process is there, and after its end, a turn is alone with nothing.
LEMMA TurnIsFree ==
    ASSUME TaskInv, OwnerInv, NEW t \in Task, up = "up",
           task[t].at \in {"begin", "ready", "drain", "close"}
    PROVE  Alive = {}
<1>1. Live(t)
  BY DEF Live
<1>2. ASSUME NEW c \in Alive, Owned(c) PROVE FALSE
  <2>1. PICK u \in Task : task[u].at \in {"spawned", "bind", "check", "stop", "await"}
    BY <1>2 DEF Owned
  <2>2. Live(u)
    BY <2>1 DEF Live
  <2>3. QED
    BY <1>1, <2>1, <2>2 DEF TaskInv
<1>3. ASSUME NEW c \in Alive, Loose(c) PROVE FALSE
  BY <1>1, <1>3 DEF Loose
<1>4. QED
  BY <1>2, <1>3 DEF OwnerInv

\* A process that is alive next to a turn is its own.
LEMMA TurnIsAlone ==
    ASSUME TaskInv, OwnerInv, NEW t \in Task, up = "up", Live(t), NEW c \in Alive
    PROVE  c = task[t].codex
<1>1. CASE Owned(c)
  <2>1. PICK u \in Task : task[u].codex = c
                          /\ task[u].at \in {"spawned", "bind", "check", "stop", "await"}
    BY <1>1 DEF Owned
  <2>2. Live(u)
    BY <2>1 DEF Live
  <2>3. QED
    BY <2>1, <2>2 DEF TaskInv
<1>2. CASE Loose(c)
  BY <1>2 DEF Loose
<1>3. QED
  BY <1>1, <1>2 DEF OwnerInv

\* Who waited for a task that is over finds no turn.
LEMMA JoinedIsQuiet ==
    ASSUME ShapeInv, JoinInv, NEW a \in Actor, Joins(a), state \notin Terminal,
           actor[a].of \in {None} \cup {t \in Task : task[t].at = "over"}
    PROVE  \A t \in Task : ~Live(t)
  BY NoneIsOut DEF JoinInv, Live

\* ... and no process.
LEMMA JoinedIsFree ==
    ASSUME ShapeInv, OwnerInv, NEW a \in Actor, Joins(a), up = "up",
           \A t \in Task : ~Live(t)
    PROVE  Alive = {}
<1>1. a # "shutdown"
  BY DEF ShapeInv
<1>2. ASSUME NEW c \in Alive, Owned(c) PROVE FALSE
  BY <1>2 DEF Owned, Live
<1>3. ASSUME NEW c \in Alive, Loose(c) PROVE FALSE
  BY <1>1, <1>3 DEF Loose, Joins, Kills
<1>4. QED
  BY <1>2, <1>3 DEF OwnerInv

-----------------------------------------------------------------------------
(* Types.                                                                  *)

\* Types of the Job's rows.
LEMMA RowTypes ==
    ASSUME TypeOK, ShapeInv, [Next]_vars
    PROVE  RowsOK'
<1>1. ASSUME NEW t \in Task, TaskStep(t) PROVE RowsOK'
  BY <1>1 DEF TaskStep, Begin, Spawn, Unused, Identify, IdentifyFails, Failed, HostWait,
     Hold, Bind, Check, StopOwn, TakeResult, FinalizeCancellation, EnterQuotaWait,
     EnterHumanGate, KillTurn, TakeError, CancelledTask, Drain, Close, End, RowsOK,
     TypeOK, Active, Suspended, Waiting, Terminal, OwnMode, Turn
<1>2. ASSUME NEW c \in Codex, CodexEnds(c) \/ ReaderEnds(c) \/ ReaderFails(c) \/ Event(c)
      PROVE  RowsOK'
  BY <1>2 DEF CodexEnds, ReaderEnds, ReaderFails, Event, EnterQuotaWait, EnterHumanGate,
     KillTurn, RowsOK, TypeOK, Active, Suspended, Waiting, Terminal, OwnMode, Turn
<1>3. ASSUME NEW a \in Actor, ActorStep(a) \/ KillFails(a) PROVE RowsOK'
  BY <1>3 DEF ActorStep, Look, Stale, Killed, FinalizeCancellation, InHold, Joined,
     StartTask, KillFails, RowsOK, TypeOK, Active, Suspended, Waiting, Terminal,
     OwnMode, Turn
<1>4. CASE Pause \/ Cancel \/ Resume \/ Respond
  BY <1>4 DEF Pause, KillTurn, Cancel, InHold, Resume, Respond, RowsOK, TypeOK, Active,
     Suspended, Waiting, Terminal, OwnMode, Turn
<1>5. CASE Retry \/ Steer \/ ListExpired \/ Expire
  BY <1>5 DEF Retry, Quiet, NobodyJoins, StartTask, Steer, ListExpired, Expire, RowsOK,
     TypeOK, Active, Suspended, Waiting, Terminal, OwnMode, Turn
<1>6. CASE Shutdown \/ ShutdownEnds \/ Crash \/ Restart \/ UNCHANGED vars
  BY <1>6 DEF Shutdown, Stale, ShutdownEnds, FinalizeCancellation, Forget, Crash,
     Unrecorded, Restart, InHold, vars, RowsOK, TypeOK, Active, Suspended, Waiting,
     Terminal, OwnMode, Turn
<1>7. QED
  BY <1>1, <1>2, <1>3, <1>4, <1>5, <1>6 DEF Next

\* Types of the flags.
LEMMA FlagTypes ==
    ASSUME TypeOK, [Next]_vars
    PROVE  FlagsOK'
<1> FlagsOK
  BY DEF TypeOK, FlagsOK
<1>1. ASSUME NEW t \in Task, TaskStep(t) PROVE FlagsOK'
  BY <1>1 DEF TaskStep, Begin, Spawn, Unused, Identify, IdentifyFails, Failed, HostWait,
     Hold, Bind, Check, StopOwn, TakeResult, FinalizeCancellation, EnterQuotaWait,
     EnterHumanGate, KillTurn, TakeError, CancelledTask, Drain, Close, End, FlagsOK
<1>2. ASSUME NEW c \in Codex, CodexEnds(c) \/ ReaderEnds(c) \/ ReaderFails(c) \/ Event(c)
      PROVE  FlagsOK'
  BY <1>2 DEF CodexEnds, ReaderEnds, ReaderFails, Event, EnterQuotaWait, EnterHumanGate,
     KillTurn, FlagsOK
<1>3. ASSUME NEW a \in Actor, ActorStep(a) \/ KillFails(a) PROVE FlagsOK'
  BY <1>3 DEF ActorStep, Look, Stale, Killed, FinalizeCancellation, InHold, Joined,
     StartTask, KillFails, FlagsOK
<1>4. CASE Pause \/ Cancel \/ Resume \/ Respond
  BY <1>4 DEF Pause, KillTurn, Cancel, InHold, Resume, Respond, FlagsOK
<1>5. CASE Retry \/ Steer \/ ListExpired \/ Expire
  BY <1>5 DEF Retry, Quiet, NobodyJoins, StartTask, Steer, ListExpired, Expire, FlagsOK
<1>6. CASE Shutdown \/ ShutdownEnds \/ Crash \/ Restart \/ UNCHANGED vars
  BY <1>6 DEF Shutdown, Stale, ShutdownEnds, FinalizeCancellation, Forget, Crash,
     Unrecorded, Restart, InHold, vars, FlagsOK
<1>7. QED
  BY <1>1, <1>2, <1>3, <1>4, <1>5, <1>6 DEF Next

\* Types of the tasks and of their place.
LEMMA TaskTypes ==
    ASSUME TypeOK, ShapeInv, [Next]_vars
    PROVE  TasksOK'
<1>1. ASSUME NEW t \in Task, TaskStep(t) PROVE TasksOK'
  BY <1>1 DEF TaskStep, Begin, Spawn, Unused, Identify, IdentifyFails, Failed, HostWait,
     Hold, Bind, Check, StopOwn, TakeResult, FinalizeCancellation, EnterQuotaWait,
     EnterHumanGate, KillTurn, TakeError, CancelledTask, Drain, Close, End, TasksOK,
     TypeOK, Turn, Over, NoTask
<1>2. ASSUME NEW c \in Codex, CodexEnds(c) \/ ReaderEnds(c) \/ ReaderFails(c) \/ Event(c)
      PROVE  TasksOK'
  BY <1>2 DEF CodexEnds, ReaderEnds, ReaderFails, Event, EnterQuotaWait, EnterHumanGate,
     KillTurn, TasksOK, TypeOK, Turn, Over, NoTask, Unused
<1>3. ASSUME NEW a \in Actor, ActorStep(a) \/ KillFails(a) PROVE TasksOK'
  BY <1>3 DEF ActorStep, Look, Stale, Killed, FinalizeCancellation, InHold, Joined,
     StartTask, KillFails, TasksOK, TypeOK, Turn, Over, NoTask, Unused
<1>4. CASE Pause \/ Cancel \/ Resume \/ Respond
  BY <1>4 DEF Pause, KillTurn, Cancel, InHold, Resume, Respond, TasksOK, TypeOK, Turn,
     Over, NoTask, Unused
<1>5. CASE Retry \/ Steer \/ ListExpired \/ Expire
  BY <1>5 DEF Retry, Quiet, NobodyJoins, StartTask, Steer, ListExpired, Expire, TasksOK,
     TypeOK, Turn, Over, NoTask, Unused
<1>6. CASE Shutdown \/ ShutdownEnds \/ Crash \/ Restart \/ UNCHANGED vars
  BY <1>6 DEF Shutdown, Stale, ShutdownEnds, FinalizeCancellation, Forget, Crash,
     Unrecorded, Restart, InHold, vars, TasksOK, TypeOK, Turn, Over, NoTask, Unused
<1>7. QED
  BY <1>1, <1>2, <1>3, <1>4, <1>5, <1>6 DEF Next

\* Types of the requests.
LEMMA ActorTypes ==
    ASSUME TypeOK, ShapeInv, [Next]_vars
    PROVE  actor' \in [Actor -> Request]
<1>1. ASSUME NEW t \in Task, TaskStep(t) PROVE actor' \in [Actor -> Request]
  BY <1>1 DEF TaskStep, Begin, Spawn, Unused, Identify, IdentifyFails, Failed, HostWait,
     Hold, Bind, Check, StopOwn, TakeResult, FinalizeCancellation, EnterQuotaWait,
     EnterHumanGate, KillTurn, TakeError, CancelledTask, Drain, Close, End, TypeOK,
     Request, Idle, Actor
<1>2. ASSUME NEW c \in Codex, CodexEnds(c) \/ ReaderEnds(c) \/ ReaderFails(c) \/ Event(c)
      PROVE  actor' \in [Actor -> Request]
  BY <1>2 DEF CodexEnds, ReaderEnds, ReaderFails, Event, EnterQuotaWait, EnterHumanGate,
     KillTurn, TypeOK, Request, Idle, Actor
<1>3. ASSUME NEW a \in Actor, ActorStep(a) \/ KillFails(a)
      PROVE  actor' \in [Actor -> Request]
  BY <1>3 DEF ActorStep, Look, Stale, Killed, FinalizeCancellation, InHold, Joined,
     StartTask, KillFails, TypeOK, Request, Idle, Actor
<1>4. CASE Pause \/ Cancel \/ Resume \/ Respond
  BY <1>4 DEF Pause, KillTurn, Cancel, InHold, Resume, Respond, TypeOK, Request, Idle,
     Actor
<1>5. CASE Retry \/ Steer \/ ListExpired \/ Expire
  BY <1>5 DEF Retry, Quiet, NobodyJoins, StartTask, Steer, ListExpired, Expire, TypeOK,
     Request, Idle, Actor
<1>6. CASE Shutdown \/ ShutdownEnds \/ Crash \/ Restart \/ UNCHANGED vars
  BY <1>6 DEF Shutdown, Stale, ShutdownEnds, FinalizeCancellation, Forget, Crash,
     Unrecorded, Restart, InHold, vars, TypeOK, Request, Idle, Actor
<1>7. QED
  BY <1>1, <1>2, <1>3, <1>4, <1>5, <1>6 DEF Next

\* Types of the processes and of their readers.
LEMMA WorldTypes ==
    ASSUME TypeOK, ShapeInv, [Next]_vars
    PROVE  WorldOK'
<1>1. ASSUME NEW t \in Task, TaskStep(t) PROVE WorldOK'
  BY <1>1 DEF TaskStep, Begin, Spawn, Unused, Identify, IdentifyFails, Failed, HostWait,
     Hold, Bind, Check, StopOwn, TakeResult, FinalizeCancellation, EnterQuotaWait,
     EnterHumanGate, KillTurn, TakeError, CancelledTask, Drain, Close, End, WorldOK,
     TypeOK, Turn
<1>2. ASSUME NEW c \in Codex, CodexEnds(c) \/ ReaderEnds(c) \/ ReaderFails(c) \/ Event(c)
      PROVE  WorldOK'
  BY <1>2 DEF CodexEnds, ReaderEnds, ReaderFails, Event, EnterQuotaWait, EnterHumanGate,
     KillTurn, WorldOK, TypeOK, Turn
<1>3. ASSUME NEW a \in Actor, ActorStep(a) \/ KillFails(a) PROVE WorldOK'
  BY <1>3 DEF ActorStep, Look, Stale, Killed, FinalizeCancellation, InHold, Joined,
     StartTask, KillFails, WorldOK, TypeOK, Turn
<1>4. CASE Pause \/ Cancel \/ Resume \/ Respond
  BY <1>4 DEF Pause, KillTurn, Cancel, InHold, Resume, Respond, WorldOK, TypeOK, Turn
<1>5. CASE Retry \/ Steer \/ ListExpired \/ Expire
  BY <1>5 DEF Retry, Quiet, NobodyJoins, StartTask, Steer, ListExpired, Expire, WorldOK,
     TypeOK, Turn
<1>6. CASE Shutdown \/ ShutdownEnds \/ Crash \/ Restart \/ UNCHANGED vars
  BY <1>6 DEF Shutdown, Stale, ShutdownEnds, FinalizeCancellation, Forget, Crash,
     Unrecorded, Restart, InHold, vars, WorldOK, TypeOK, Turn
<1>7. QED
  BY <1>1, <1>2, <1>3, <1>4, <1>5, <1>6 DEF Next

\* Types of the bounds.
LEMMA BoundTypes ==
    ASSUME TypeOK, [Next]_vars
    PROVE  BoundsOK'
<1> stops \in 0..MaxStops /\ failures \in 0..MaxFailures /\ MaxStops \in Nat /\ MaxFailures \in Nat
  BY BoundAssumption DEF TypeOK
<1>1. ASSUME NEW t \in Task, TaskStep(t) PROVE BoundsOK'
  BY <1>1 DEF TaskStep, Begin, Spawn, Unused, Identify, IdentifyFails, Failed, HostWait,
     Hold, Bind, Check, StopOwn, TakeResult, FinalizeCancellation, EnterQuotaWait,
     EnterHumanGate, KillTurn, TakeError, CancelledTask, Drain, Close, End, BoundsOK,
     Unconfirmed
<1>2. ASSUME NEW c \in Codex, CodexEnds(c) \/ ReaderEnds(c) \/ ReaderFails(c) \/ Event(c)
      PROVE  BoundsOK'
  BY <1>2 DEF CodexEnds, ReaderEnds, ReaderFails, Event, EnterQuotaWait, EnterHumanGate,
     KillTurn, BoundsOK, Unconfirmed
<1>3. ASSUME NEW a \in Actor, ActorStep(a) \/ KillFails(a) PROVE BoundsOK'
  BY <1>3 DEF ActorStep, Look, Stale, Killed, FinalizeCancellation, InHold, Joined,
     StartTask, KillFails, BoundsOK, Unconfirmed
<1>4. CASE Pause \/ Cancel \/ Resume \/ Respond
  BY <1>4 DEF Pause, KillTurn, Cancel, InHold, Resume, Respond, BoundsOK, Unconfirmed
<1>5. CASE Retry \/ Steer \/ ListExpired \/ Expire
  BY <1>5 DEF Retry, Quiet, NobodyJoins, StartTask, Steer, ListExpired, Expire,
     BoundsOK, Unconfirmed
<1>6. CASE Shutdown \/ ShutdownEnds \/ Crash \/ Restart \/ UNCHANGED vars
  BY <1>6 DEF Shutdown, Stale, ShutdownEnds, FinalizeCancellation, Forget, Crash,
     Unrecorded, Restart, InHold, vars, BoundsOK, Unconfirmed
<1>7. QED
  BY <1>1, <1>2, <1>3, <1>4, <1>5, <1>6 DEF Next

LEMMA TypeStep ==
    ASSUME TypeOK, ShapeInv, [Next]_vars
    PROVE  TypeOK'
  BY RowTypes, FlagTypes, TaskTypes, ActorTypes, WorldTypes, BoundTypes
  DEF TypeOK, RowsOK, FlagsOK, TasksOK, WorldOK, BoundsOK

-----------------------------------------------------------------------------
(* What holds whatever races are explored.                                 *)

\* What a request is at.
LEMMA ShapeStep ==
    ASSUME TypeOK, ShapeInv, [Next]_vars
    PROVE  ShapeInv'
<1> /\ task \in [Task -> Turn] /\ actor \in [Actor -> Request]
    /\ codex \in [Codex -> {"none", "alive", "exited"}]
    /\ reader \in [Codex -> {"none", "reads", "result", "failed", "cancelled", "unsafe"}]
    /\ handle \in Codex \cup {None} /\ current \in Task \cup {None}
    /\ (Unconfirmed => failures' # 0) /\ stops + 1 # 0
  BY Counted DEF TypeOK
<1>1. ASSUME NEW t \in Task, TaskStep(t) PROVE ShapeInv'
  <2>1. CASE Begin(t) \/ Spawn(t) \/ Identify(t) \/ IdentifyFails(t) \/ Hold(t) \/
     Bind(t) \/ Check(t)
    BY <2>1 DEF Begin, Spawn, Unused, Identify, IdentifyFails, Failed, HostWait, Hold,
       Bind, Check, Actor, ShapeInv, Live, Kills, Joins, Turn, Request, Idle, NoTask,
       Over
  <2>2. CASE StopOwn(t) \/ TakeResult(t) \/ TakeError(t)
    BY <2>2 DEF StopOwn, Failed, TakeResult, FinalizeCancellation, EnterQuotaWait,
       EnterHumanGate, KillTurn, TakeError, CancelledTask, Actor, Unused, ShapeInv,
       Live, Kills, Joins, Turn, Request, Idle, NoTask, Over
  <2>3. CASE Drain(t) \/ Close(t) \/ End(t)
    BY <2>3 DEF Drain, Close, End, Actor, Unused, ShapeInv, Live, Kills, Joins, Turn,
       Request, Idle, NoTask, Over
  <2>4. QED
    BY <1>1, <2>1, <2>2, <2>3 DEF TaskStep
<1>2. ASSUME NEW c \in Codex, CodexEnds(c) \/ ReaderEnds(c) \/ ReaderFails(c) \/ Event(c)
      PROVE  ShapeInv'
  BY <1>2 DEF CodexEnds, ReaderEnds, ReaderFails, Event, EnterQuotaWait, EnterHumanGate,
     KillTurn, Actor, Unused, ShapeInv, Live, Kills, Joins, Turn, Request, Idle, NoTask,
     Over
<1>3. ASSUME NEW a \in Actor, ActorStep(a) \/ KillFails(a) PROVE ShapeInv'
  <2>1. CASE Look \/ Killed(a)
    BY <2>1 DEF Look, Stale, Killed, FinalizeCancellation, InHold, Actor, Unused,
       ShapeInv, Live, Kills, Joins, Turn, Request, Idle, NoTask, Over
  <2>2. CASE Joined(a) \/ KillFails(a)
    BY <2>2 DEF Joined, FinalizeCancellation, StartTask, KillFails, Actor, Unused,
       ShapeInv, Live, Kills, Joins, Turn, Request, Idle, NoTask, Over
  <2>3. QED
    BY <1>3, <2>1, <2>2 DEF ActorStep
<1>4. CASE Pause \/ Cancel \/ Resume \/ Respond
  BY <1>4 DEF Pause, KillTurn, Cancel, InHold, Resume, Respond, Actor, Unused, ShapeInv,
     Live, Kills, Joins, Turn, Request, Idle, NoTask, Over
<1>5. CASE Retry \/ Steer \/ ListExpired \/ Expire
  BY <1>5 DEF Retry, Quiet, NobodyJoins, StartTask, Steer, ListExpired, Expire, Actor,
     Unused, ShapeInv, Live, Kills, Joins, Turn, Request, Idle, NoTask, Over
<1>6. CASE Shutdown \/ ShutdownEnds \/ Crash \/ Restart \/ UNCHANGED vars
  BY <1>6 DEF Shutdown, Stale, ShutdownEnds, FinalizeCancellation, Forget, Crash,
     Unrecorded, Restart, InHold, vars, Actor, Unused, ShapeInv, Live, Kills, Joins,
     Turn, Request, Idle, NoTask, Over
<1>7. QED
  BY <1>1, <1>2, <1>3, <1>4, <1>5, <1>6 DEF Next

\* A reader that is done has seen the end of its process.
LEMMA ReaderStep ==
    ASSUME TypeOK, ShapeInv, ReaderInv, [Next]_vars
    PROVE  ReaderInv'
<1> /\ task \in [Task -> Turn] /\ actor \in [Actor -> Request]
    /\ codex \in [Codex -> {"none", "alive", "exited"}]
    /\ reader \in [Codex -> {"none", "reads", "result", "failed", "cancelled", "unsafe"}]
    /\ handle \in Codex \cup {None} /\ current \in Task \cup {None}
    /\ (Unconfirmed => failures' # 0) /\ stops + 1 # 0
  BY Counted DEF TypeOK
<1>1. ASSUME NEW t \in Task, TaskStep(t) PROVE ReaderInv'
  BY <1>1 DEF TaskStep, Begin, Spawn, Unused, Identify, IdentifyFails, Failed, HostWait,
     Hold, Bind, Check, StopOwn, TakeResult, FinalizeCancellation, EnterQuotaWait,
     EnterHumanGate, KillTurn, TakeError, CancelledTask, Drain, Close, End, ReaderInv,
     ShapeInv, Live, Kills, Joins, Turn, Request, Idle, NoTask, Over
<1>2. ASSUME NEW c \in Codex, CodexEnds(c) \/ ReaderEnds(c) \/ ReaderFails(c) \/ Event(c)
      PROVE  ReaderInv'
  BY <1>2 DEF CodexEnds, ReaderEnds, ReaderFails, Event, EnterQuotaWait, EnterHumanGate,
     KillTurn, ReaderInv, ShapeInv, Live, Kills, Joins, Turn, Request, Idle, NoTask,
     Over
<1>3. ASSUME NEW a \in Actor, ActorStep(a) \/ KillFails(a) PROVE ReaderInv'
  BY <1>3 DEF ActorStep, Look, Stale, Killed, FinalizeCancellation, InHold, Joined,
     StartTask, KillFails, ReaderInv, ShapeInv, Live, Kills, Joins, Turn, Request, Idle,
     NoTask, Over
<1>4. CASE Pause \/ Cancel \/ Resume \/ Respond
  BY <1>4 DEF Pause, KillTurn, Cancel, InHold, Resume, Respond, ReaderInv, ShapeInv,
     Live, Kills, Joins, Turn, Request, Idle, NoTask, Over
<1>5. CASE Retry \/ Steer \/ ListExpired \/ Expire
  BY <1>5 DEF Retry, Quiet, NobodyJoins, StartTask, Steer, ListExpired, Expire,
     ReaderInv, ShapeInv, Live, Kills, Joins, Turn, Request, Idle, NoTask, Over
<1>6. CASE Shutdown \/ ShutdownEnds \/ Crash \/ Restart \/ UNCHANGED vars
  BY <1>6 DEF Shutdown, Stale, ShutdownEnds, FinalizeCancellation, Forget, Crash,
     Unrecorded, Restart, InHold, vars, ReaderInv, ShapeInv, Live, Kills, Joins, Turn,
     Request, Idle, NoTask, Over
<1>7. QED
  BY <1>1, <1>2, <1>3, <1>4, <1>5, <1>6 DEF Next

\* A turn that is closed has no instruction left.
LEMMA SteerStep ==
    ASSUME TypeOK, ShapeInv, SteerInv, [Next]_vars
    PROVE  SteerInv'
<1> /\ task \in [Task -> Turn] /\ actor \in [Actor -> Request]
    /\ codex \in [Codex -> {"none", "alive", "exited"}]
    /\ reader \in [Codex -> {"none", "reads", "result", "failed", "cancelled", "unsafe"}]
    /\ handle \in Codex \cup {None} /\ current \in Task \cup {None}
    /\ (Unconfirmed => failures' # 0) /\ stops + 1 # 0
  BY Counted DEF TypeOK
<1>1. ASSUME NEW t \in Task, TaskStep(t) PROVE SteerInv'
  <2>1. CASE Begin(t) \/ Spawn(t) \/ Identify(t) \/ IdentifyFails(t) \/ Hold(t) \/
     Bind(t) \/ Check(t)
    BY <2>1 DEF Begin, Spawn, Unused, Identify, IdentifyFails, Failed, HostWait, Hold,
       Bind, Check, SteerInv, Locked, Active, Terminal, ShapeInv, Live, Kills, Joins,
       Turn, Request, Idle, NoTask, Over
  <2>2. CASE StopOwn(t) \/ TakeResult(t)
    BY <2>2 DEF StopOwn, Failed, TakeResult, FinalizeCancellation, EnterQuotaWait,
       EnterHumanGate, KillTurn, SteerInv, Locked, Active, Terminal, ShapeInv, Live,
       Kills, Joins, Turn, Request, Idle, NoTask, Over
  <2>3. CASE TakeError(t)
    BY <2>3 DEF TakeError, CancelledTask, Failed, SteerInv, Locked, Active, Terminal,
       ShapeInv, Live, Kills, Joins, Turn, Request, Idle, NoTask, Over
  <2>4. CASE Drain(t)
    <3>1. state' = state /\ ~Locked /\ steering \in BOOLEAN
      BY <2>4 DEF Drain, TypeOK
    <3>2. CASE state \in Waiting
      <4>1. steering' = steering /\ state # "WAITING_AGENT"
        BY <2>4, <3>1, <3>2 DEF Drain, Waiting
      <4>2. ~Locked'
        BY <2>4, <3>1, <3>2 DEF Drain, Locked, Turn
      <4>3. QED
        BY <3>1, <4>1, <4>2 DEF SteerInv
    <3>3. CASE state \notin Waiting
      BY <2>4, <3>3 DEF Drain, SteerInv
    <3>4. QED
      BY <3>2, <3>3
  <2>5. CASE Close(t)
    BY <2>5 DEF Close, SteerInv, Locked, Active, Terminal, ShapeInv, Live, Kills, Joins,
       Turn, Request, Idle, NoTask, Over
  <2>6. CASE End(t)
    BY <2>6 DEF End, SteerInv, Locked, Active, Terminal, ShapeInv, Live, Kills, Joins,
       Turn, Request, Idle, NoTask, Over
  <2>7. QED
    BY <1>1, <2>1, <2>2, <2>3, <2>4, <2>5, <2>6 DEF TaskStep
<1>2. ASSUME NEW c \in Codex, CodexEnds(c) \/ ReaderEnds(c) \/ ReaderFails(c) \/ Event(c)
      PROVE  SteerInv'
  BY <1>2 DEF CodexEnds, ReaderEnds, ReaderFails, Event, EnterQuotaWait, EnterHumanGate,
     KillTurn, SteerInv, Locked, Active, Terminal, ShapeInv, Live, Kills, Joins, Turn,
     Request, Idle, NoTask, Over
<1>3. ASSUME NEW a \in Actor, ActorStep(a) \/ KillFails(a) PROVE SteerInv'
  BY <1>3 DEF ActorStep, Look, Stale, Killed, FinalizeCancellation, InHold, Joined,
     StartTask, KillFails, SteerInv, Locked, Active, Terminal, ShapeInv, Live, Kills,
     Joins, Turn, Request, Idle, NoTask, Over
<1>4. CASE Pause \/ Cancel \/ Resume \/ Respond
  BY <1>4 DEF Pause, KillTurn, Cancel, InHold, Resume, Respond, SteerInv, Locked,
     Active, Terminal, ShapeInv, Live, Kills, Joins, Turn, Request, Idle, NoTask, Over
<1>5. CASE Retry \/ Steer \/ ListExpired \/ Expire
  BY <1>5 DEF Retry, Quiet, NobodyJoins, StartTask, Steer, ListExpired, Expire,
     SteerInv, Locked, Active, Terminal, ShapeInv, Live, Kills, Joins, Turn, Request,
     Idle, NoTask, Over
<1>6. CASE Shutdown \/ ShutdownEnds \/ Crash \/ Restart \/ UNCHANGED vars
  BY <1>6 DEF Shutdown, Stale, ShutdownEnds, FinalizeCancellation, Forget, Crash,
     Unrecorded, Restart, InHold, vars, SteerInv, Locked, Active, Terminal, ShapeInv,
     Live, Kills, Joins, Turn, Request, Idle, NoTask, Over
<1>7. QED
  BY <1>1, <1>2, <1>3, <1>4, <1>5, <1>6 DEF Next

\* A Job that waits for a human can be answered.
LEMMA GateStep ==
    ASSUME TypeOK, ShapeInv, GateCanBeAnswered, [Next]_vars
    PROVE  GateCanBeAnswered'
<1> /\ task \in [Task -> Turn] /\ actor \in [Actor -> Request]
    /\ codex \in [Codex -> {"none", "alive", "exited"}]
    /\ reader \in [Codex -> {"none", "reads", "result", "failed", "cancelled", "unsafe"}]
    /\ handle \in Codex \cup {None} /\ current \in Task \cup {None}
    /\ (Unconfirmed => failures' # 0) /\ stops + 1 # 0
  BY Counted DEF TypeOK
<1>1. ASSUME NEW t \in Task, TaskStep(t) PROVE GateCanBeAnswered'
  BY <1>1 DEF TaskStep, Begin, Spawn, Unused, Identify, IdentifyFails, Failed, HostWait,
     Hold, Bind, Check, StopOwn, TakeResult, FinalizeCancellation, EnterQuotaWait,
     EnterHumanGate, KillTurn, TakeError, CancelledTask, Drain, Close, End,
     GateCanBeAnswered, Actor, Active, Suspended, Waiting, ShapeInv, Live, Kills, Joins,
     Turn, Request, Idle, NoTask, Over
<1>2. ASSUME NEW c \in Codex, CodexEnds(c) \/ ReaderEnds(c) \/ ReaderFails(c) \/ Event(c)
      PROVE  GateCanBeAnswered'
  BY <1>2 DEF CodexEnds, ReaderEnds, ReaderFails, Event, EnterQuotaWait, EnterHumanGate,
     KillTurn, GateCanBeAnswered, Actor, Active, Suspended, Waiting, ShapeInv, Live,
     Kills, Joins, Turn, Request, Idle, NoTask, Over
<1>3. ASSUME NEW a \in Actor, ActorStep(a) \/ KillFails(a) PROVE GateCanBeAnswered'
  BY <1>3 DEF ActorStep, Look, Stale, Killed, FinalizeCancellation, InHold, Joined,
     StartTask, KillFails, GateCanBeAnswered, Actor, Active, Suspended, Waiting,
     ShapeInv, Live, Kills, Joins, Turn, Request, Idle, NoTask, Over
<1>4. CASE Pause \/ Cancel \/ Resume \/ Respond
  BY <1>4 DEF Pause, KillTurn, Cancel, InHold, Resume, Respond, GateCanBeAnswered,
     Actor, Active, Suspended, Waiting, ShapeInv, Live, Kills, Joins, Turn, Request,
     Idle, NoTask, Over
<1>5. CASE Retry \/ Steer \/ ListExpired \/ Expire
  BY <1>5 DEF Retry, Quiet, NobodyJoins, StartTask, Steer, ListExpired, Expire,
     GateCanBeAnswered, Actor, Active, Suspended, Waiting, ShapeInv, Live, Kills, Joins,
     Turn, Request, Idle, NoTask, Over
<1>6. CASE Shutdown \/ ShutdownEnds \/ Crash \/ Restart \/ UNCHANGED vars
  BY <1>6 DEF Shutdown, Stale, ShutdownEnds, FinalizeCancellation, Forget, Crash,
     Unrecorded, Restart, InHold, vars, GateCanBeAnswered, Actor, Active, Suspended,
     Waiting, ShapeInv, Live, Kills, Joins, Turn, Request, Idle, NoTask, Over
<1>7. QED
  BY <1>1, <1>2, <1>3, <1>4, <1>5, <1>6 DEF Next

\* Somebody has to finish a cancellation.
LEMMA CancelStep ==
    ASSUME TypeOK, ShapeInv, CancellationProceeds, [Next]_vars
    PROVE  CancellationProceeds'
<1> /\ task \in [Task -> Turn] /\ actor \in [Actor -> Request]
    /\ codex \in [Codex -> {"none", "alive", "exited"}]
    /\ reader \in [Codex -> {"none", "reads", "result", "failed", "cancelled", "unsafe"}]
    /\ handle \in Codex \cup {None} /\ current \in Task \cup {None}
    /\ (Unconfirmed => failures' # 0) /\ stops + 1 # 0
  BY Counted DEF TypeOK
<1>1. ASSUME NEW t \in Task, TaskStep(t) PROVE CancellationProceeds'
  BY <1>1 DEF TaskStep, Begin, Spawn, Unused, Identify, IdentifyFails, Failed, HostWait,
     Hold, Bind, Check, StopOwn, TakeResult, FinalizeCancellation, EnterQuotaWait,
     EnterHumanGate, KillTurn, TakeError, CancelledTask, Drain, Close, End,
     CancellationProceeds, Actor, Active, Terminal, ShapeInv, Live, Kills, Joins, Turn,
     Request, Idle, NoTask, Over
<1>2. ASSUME NEW c \in Codex, CodexEnds(c) \/ ReaderEnds(c) \/ ReaderFails(c) \/ Event(c)
      PROVE  CancellationProceeds'
  BY <1>2 DEF CodexEnds, ReaderEnds, ReaderFails, Event, EnterQuotaWait, EnterHumanGate,
     KillTurn, CancellationProceeds, Actor, Active, Terminal, ShapeInv, Live, Kills,
     Joins, Turn, Request, Idle, NoTask, Over
<1>3. ASSUME NEW a \in Actor, ActorStep(a) \/ KillFails(a) PROVE CancellationProceeds'
  BY <1>3 DEF ActorStep, Look, Stale, Killed, FinalizeCancellation, InHold, Joined,
     StartTask, KillFails, CancellationProceeds, Actor, Active, Terminal, ShapeInv,
     Live, Kills, Joins, Turn, Request, Idle, NoTask, Over
<1>4. CASE Pause \/ Cancel \/ Resume \/ Respond
  BY <1>4 DEF Pause, KillTurn, Cancel, InHold, Resume, Respond, CancellationProceeds,
     Actor, Active, Terminal, ShapeInv, Live, Kills, Joins, Turn, Request, Idle, NoTask,
     Over
<1>5. CASE Retry \/ Steer \/ ListExpired \/ Expire
  BY <1>5 DEF Retry, Quiet, NobodyJoins, StartTask, Steer, ListExpired, Expire,
     CancellationProceeds, Actor, Active, Terminal, ShapeInv, Live, Kills, Joins, Turn,
     Request, Idle, NoTask, Over
<1>6. CASE Shutdown \/ ShutdownEnds \/ Crash \/ Restart \/ UNCHANGED vars
  BY <1>6 DEF Shutdown, Stale, ShutdownEnds, FinalizeCancellation, Forget, Crash,
     Unrecorded, Restart, InHold, vars, CancellationProceeds, Actor, Active, Terminal,
     ShapeInv, Live, Kills, Joins, Turn, Request, Idle, NoTask, Over
<1>7. QED
  BY <1>1, <1>2, <1>3, <1>4, <1>5, <1>6 DEF Next

-----------------------------------------------------------------------------
(* What holds when no race is explored: tasks, handles and requests.       *)

\* One task at a time.
LEMMA TaskStepped ==
    ASSUME TypeOK, ShapeInv, TaskInv, JoinInv, ActorInv, Windows \subseteq {"expiry"},
       [Next]_vars
    PROVE  TaskInv'
<1> /\ task \in [Task -> Turn] /\ actor \in [Actor -> Request]
    /\ codex \in [Codex -> {"none", "alive", "exited"}]
    /\ reader \in [Codex -> {"none", "reads", "result", "failed", "cancelled", "unsafe"}]
    /\ handle \in Codex \cup {None} /\ current \in Task \cup {None}
    /\ (Unconfirmed => failures' # 0) /\ stops + 1 # 0
  BY Counted DEF TypeOK
<1>1. ASSUME NEW t \in Task, TaskStep(t) PROVE TaskInv'
  <2>1. CASE Begin(t) \/ Spawn(t) \/ Identify(t) \/ IdentifyFails(t) \/ Hold(t) \/
     Bind(t) \/ Check(t)
    BY <2>1, NoneIsOut DEF Begin, Spawn, Unused, Identify, IdentifyFails, Failed,
       HostWait, Hold, Bind, Check, TaskInv, JoinInv, ActorInv, Terminal, Actor,
       ShapeInv, Live, Kills, Joins, Turn, Request, Idle, NoTask, Over
  <2>2. CASE StopOwn(t) \/ TakeResult(t) \/ TakeError(t) \/ Drain(t) \/ Close(t) \/
     End(t)
    BY <2>2, NoneIsOut DEF StopOwn, Failed, TakeResult, FinalizeCancellation,
       EnterQuotaWait, EnterHumanGate, KillTurn, TakeError, CancelledTask, Drain, Close,
       End, TaskInv, JoinInv, ActorInv, Terminal, Actor, ShapeInv, Live, Kills, Joins,
       Turn, Request, Idle, NoTask, Over
  <2>3. QED
    BY <1>1, <2>1, <2>2 DEF TaskStep
<1>2. ASSUME NEW c \in Codex, CodexEnds(c) \/ ReaderEnds(c) \/ ReaderFails(c) \/ Event(c)
      PROVE  TaskInv'
  BY <1>2, NoneIsOut DEF CodexEnds, ReaderEnds, ReaderFails, Event, EnterQuotaWait,
     EnterHumanGate, KillTurn, TaskInv, JoinInv, ActorInv, Terminal, Actor, ShapeInv,
     Live, Kills, Joins, Turn, Request, Idle, NoTask, Over
<1>3. ASSUME NEW a \in Actor, ActorStep(a) \/ KillFails(a) PROVE TaskInv'
  BY <1>3, NoneIsOut DEF ActorStep, Look, Stale, Killed, FinalizeCancellation, InHold,
     Joined, StartTask, KillFails, TaskInv, JoinInv, ActorInv, Terminal, Actor,
     ShapeInv, Live, Kills, Joins, Turn, Request, Idle, NoTask, Over
<1>4. CASE Pause \/ Cancel \/ Resume \/ Respond
  BY <1>4, NoneIsOut DEF Pause, KillTurn, Cancel, InHold, Resume, Respond, TaskInv,
     JoinInv, ActorInv, Terminal, Actor, ShapeInv, Live, Kills, Joins, Turn, Request,
     Idle, NoTask, Over
<1>5. CASE Retry \/ Steer \/ ListExpired \/ Expire
  BY <1>5, NoneIsOut DEF Retry, Quiet, NobodyJoins, StartTask, Steer, ListExpired,
     Expire, TaskInv, JoinInv, ActorInv, Terminal, Actor, ShapeInv, Live, Kills, Joins,
     Turn, Request, Idle, NoTask, Over
<1>6. CASE Shutdown \/ ShutdownEnds \/ Crash \/ Restart \/ UNCHANGED vars
  BY <1>6, NoneIsOut DEF Shutdown, Stale, ShutdownEnds, FinalizeCancellation, Forget,
     Crash, Unrecorded, Restart, InHold, vars, TaskInv, JoinInv, ActorInv, Terminal,
     Actor, ShapeInv, Live, Kills, Joins, Turn, Request, Idle, NoTask, Over
<1>7. QED
  BY <1>1, <1>2, <1>3, <1>4, <1>5, <1>6 DEF Next

\* The handle is the one of the turn.
LEMMA HandleStep ==
    ASSUME TypeOK, ShapeInv, TaskInv, HandleInv, ReaderInv, JoinInv, ActorInv, Windows
       \subseteq {"expiry"}, [Next]_vars
    PROVE  HandleInv'
<1> /\ task \in [Task -> Turn] /\ actor \in [Actor -> Request]
    /\ codex \in [Codex -> {"none", "alive", "exited"}]
    /\ reader \in [Codex -> {"none", "reads", "result", "failed", "cancelled", "unsafe"}]
    /\ handle \in Codex \cup {None} /\ current \in Task \cup {None}
    /\ (Unconfirmed => failures' # 0) /\ stops + 1 # 0
  BY Counted DEF TypeOK
<1>1. ASSUME NEW t \in Task, TaskStep(t) PROVE HandleInv'
  <2>1. CASE Begin(t) \/ Spawn(t) \/ Identify(t) \/ IdentifyFails(t)
    BY <2>1, NoneIsOut DEF Begin, Spawn, Unused, Identify, IdentifyFails, Failed,
       HostWait, HandleInv, TaskInv, ReaderInv, ShapeInv, Live, Kills, Joins, Turn,
       Request, Idle, NoTask, Over
  <2>2. CASE Hold(t) \/ Bind(t)
    BY <2>2, NoneIsOut DEF Hold, Bind, HandleInv, TaskInv, ReaderInv, ShapeInv, Live,
       Kills, Joins, Turn, Request, Idle, NoTask, Over
  <2>3. CASE Check(t)
    BY <2>3, NoneIsOut DEF Check, HandleInv, TaskInv, ReaderInv, ShapeInv, Live, Kills,
       Joins, Turn, Request, Idle, NoTask, Over
  <2>4. CASE StopOwn(t) \/ TakeResult(t)
    BY <2>4, NoneIsOut DEF StopOwn, Failed, TakeResult, FinalizeCancellation,
       EnterQuotaWait, EnterHumanGate, KillTurn, HandleInv, TaskInv, ReaderInv,
       ShapeInv, Live, Kills, Joins, Turn, Request, Idle, NoTask, Over
  <2>5. CASE TakeError(t)
    BY <2>5, NoneIsOut DEF TakeError, CancelledTask, Failed, HandleInv, TaskInv,
       ReaderInv, ShapeInv, Live, Kills, Joins, Turn, Request, Idle, NoTask, Over
  <2>6. CASE Drain(t) \/ Close(t) \/ End(t)
    BY <2>6, NoneIsOut DEF Drain, Close, End, HandleInv, TaskInv, ReaderInv, ShapeInv,
       Live, Kills, Joins, Turn, Request, Idle, NoTask, Over
  <2>7. QED
    BY <1>1, <2>1, <2>2, <2>3, <2>4, <2>5, <2>6 DEF TaskStep
<1>2. ASSUME NEW c \in Codex, CodexEnds(c) \/ ReaderEnds(c) \/ ReaderFails(c) \/ Event(c)
      PROVE  HandleInv'
  BY <1>2, NoneIsOut DEF CodexEnds, ReaderEnds, ReaderFails, Event, EnterQuotaWait,
     EnterHumanGate, KillTurn, HandleInv, TaskInv, ReaderInv, ShapeInv, Live, Kills,
     Joins, Turn, Request, Idle, NoTask, Over
<1>3. ASSUME NEW a \in Actor, ActorStep(a) \/ KillFails(a) PROVE HandleInv'
  BY <1>3, NoneIsOut DEF ActorStep, Look, Stale, Killed, FinalizeCancellation, InHold,
     Joined, StartTask, KillFails, HandleInv, TaskInv, ReaderInv, ShapeInv, Live, Kills,
     Joins, Turn, Request, Idle, NoTask, Over
<1>4. CASE Pause \/ Cancel \/ Resume \/ Respond
  BY <1>4, NoneIsOut DEF Pause, KillTurn, Cancel, InHold, Resume, Respond, HandleInv,
     TaskInv, ReaderInv, ShapeInv, Live, Kills, Joins, Turn, Request, Idle, NoTask, Over
<1>5. CASE Retry \/ Steer \/ ListExpired \/ Expire
  BY <1>5, NoneIsOut DEF Retry, Quiet, NobodyJoins, StartTask, Steer, ListExpired,
     Expire, HandleInv, TaskInv, ReaderInv, ShapeInv, Live, Kills, Joins, Turn, Request,
     Idle, NoTask, Over
<1>6. CASE Shutdown \/ ShutdownEnds \/ Crash \/ Restart \/ UNCHANGED vars
  BY <1>6, NoneIsOut DEF Shutdown, Stale, ShutdownEnds, FinalizeCancellation, Forget,
     Crash, Unrecorded, Restart, InHold, vars, HandleInv, TaskInv, ReaderInv, ShapeInv,
     Live, Kills, Joins, Turn, Request, Idle, NoTask, Over
<1>7. QED
  BY <1>1, <1>2, <1>3, <1>4, <1>5, <1>6 DEF Next

\* In which states of the Job a request can be.
LEMMA ActorStepped ==
    ASSUME TypeOK, ShapeInv, TaskInv, ActorInv, Windows \subseteq {"expiry"},
       [Next]_vars
    PROVE  ActorInv'
<1> /\ task \in [Task -> Turn] /\ actor \in [Actor -> Request]
    /\ codex \in [Codex -> {"none", "alive", "exited"}]
    /\ reader \in [Codex -> {"none", "reads", "result", "failed", "cancelled", "unsafe"}]
    /\ handle \in Codex \cup {None} /\ current \in Task \cup {None}
    /\ (Unconfirmed => failures' # 0) /\ stops + 1 # 0
  BY Counted DEF TypeOK
<1>1. ASSUME NEW t \in Task, TaskStep(t) PROVE ActorInv'
  BY <1>1 DEF TaskStep, Begin, Spawn, Unused, Identify, IdentifyFails, Failed, HostWait,
     Hold, Bind, Check, StopOwn, TakeResult, FinalizeCancellation, EnterQuotaWait,
     EnterHumanGate, KillTurn, TakeError, CancelledTask, Drain, Close, End, ActorInv,
     TaskInv, Terminal, Active, Suspended, Waiting, Actor, ShapeInv, Live, Kills, Joins,
     Turn, Request, Idle, NoTask, Over
<1>2. ASSUME NEW c \in Codex, CodexEnds(c) \/ ReaderEnds(c) \/ ReaderFails(c) \/ Event(c)
      PROVE  ActorInv'
  BY <1>2 DEF CodexEnds, ReaderEnds, ReaderFails, Event, EnterQuotaWait, EnterHumanGate,
     KillTurn, ActorInv, TaskInv, Terminal, Active, Suspended, Waiting, Actor, ShapeInv,
     Live, Kills, Joins, Turn, Request, Idle, NoTask, Over
<1>3. ASSUME NEW a \in Actor, ActorStep(a) \/ KillFails(a) PROVE ActorInv'
  BY <1>3 DEF ActorStep, Look, Stale, Killed, FinalizeCancellation, InHold, Joined,
     StartTask, KillFails, ActorInv, TaskInv, Terminal, Active, Suspended, Waiting,
     Actor, ShapeInv, Live, Kills, Joins, Turn, Request, Idle, NoTask, Over
<1>4. CASE Pause \/ Cancel \/ Resume \/ Respond
  BY <1>4 DEF Pause, KillTurn, Cancel, InHold, Resume, Respond, ActorInv, TaskInv,
     Terminal, Active, Suspended, Waiting, Actor, ShapeInv, Live, Kills, Joins, Turn,
     Request, Idle, NoTask, Over
<1>5. CASE Retry \/ Steer \/ ListExpired \/ Expire
  BY <1>5 DEF Retry, Quiet, NobodyJoins, StartTask, Steer, ListExpired, Expire,
     ActorInv, TaskInv, Terminal, Active, Suspended, Waiting, Actor, ShapeInv, Live,
     Kills, Joins, Turn, Request, Idle, NoTask, Over
<1>6. CASE Shutdown \/ ShutdownEnds \/ Crash \/ Restart \/ UNCHANGED vars
  BY <1>6 DEF Shutdown, Stale, ShutdownEnds, FinalizeCancellation, Forget, Crash,
     Unrecorded, Restart, InHold, vars, ActorInv, TaskInv, Terminal, Active, Suspended,
     Waiting, Actor, ShapeInv, Live, Kills, Joins, Turn, Request, Idle, NoTask, Over
<1>7. QED
  BY <1>1, <1>2, <1>3, <1>4, <1>5, <1>6 DEF Next

\* Who waits for a task waits for the one there is.
LEMMA JoinStep ==
    ASSUME TypeOK, ShapeInv, TaskInv, JoinInv, ActorInv, Windows \subseteq {"expiry"},
       [Next]_vars
    PROVE  JoinInv'
<1> /\ task \in [Task -> Turn] /\ actor \in [Actor -> Request]
    /\ codex \in [Codex -> {"none", "alive", "exited"}]
    /\ reader \in [Codex -> {"none", "reads", "result", "failed", "cancelled", "unsafe"}]
    /\ handle \in Codex \cup {None} /\ current \in Task \cup {None}
    /\ (Unconfirmed => failures' # 0) /\ stops + 1 # 0
  BY Counted DEF TypeOK
<1>1. ASSUME NEW t \in Task, TaskStep(t) PROVE JoinInv'
  <2>1. CASE Begin(t) \/ Spawn(t) \/ Identify(t) \/ IdentifyFails(t) \/ Hold(t) \/
     Bind(t) \/ Check(t)
    BY <2>1, NoneIsOut DEF Begin, Spawn, Unused, Identify, IdentifyFails, Failed,
       HostWait, Hold, Bind, Check, JoinInv, TaskInv, ActorInv, Terminal, Actor, Active,
       Suspended, Waiting, ShapeInv, Live, Kills, Joins, Turn, Request, Idle, NoTask,
       Over
  <2>2. CASE StopOwn(t) \/ TakeResult(t) \/ TakeError(t) \/ Drain(t) \/ Close(t) \/
     End(t)
    BY <2>2, NoneIsOut DEF StopOwn, Failed, TakeResult, FinalizeCancellation,
       EnterQuotaWait, EnterHumanGate, KillTurn, TakeError, CancelledTask, Drain, Close,
       End, JoinInv, TaskInv, ActorInv, Terminal, Actor, Active, Suspended, Waiting,
       ShapeInv, Live, Kills, Joins, Turn, Request, Idle, NoTask, Over
  <2>3. QED
    BY <1>1, <2>1, <2>2 DEF TaskStep
<1>2. ASSUME NEW c \in Codex, CodexEnds(c) \/ ReaderEnds(c) \/ ReaderFails(c) \/ Event(c)
      PROVE  JoinInv'
  BY <1>2, NoneIsOut DEF CodexEnds, ReaderEnds, ReaderFails, Event, EnterQuotaWait,
     EnterHumanGate, KillTurn, JoinInv, TaskInv, ActorInv, Terminal, Actor, Active,
     Suspended, Waiting, ShapeInv, Live, Kills, Joins, Turn, Request, Idle, NoTask, Over
<1>3. ASSUME NEW a \in Actor, ActorStep(a) \/ KillFails(a) PROVE JoinInv'
  BY <1>3, NoneIsOut DEF ActorStep, Look, Stale, Killed, FinalizeCancellation, InHold,
     Joined, StartTask, KillFails, JoinInv, TaskInv, ActorInv, Terminal, Actor, Active,
     Suspended, Waiting, ShapeInv, Live, Kills, Joins, Turn, Request, Idle, NoTask, Over
<1>4. CASE Pause \/ Cancel \/ Resume \/ Respond
  BY <1>4, NoneIsOut DEF Pause, KillTurn, Cancel, InHold, Resume, Respond, JoinInv,
     TaskInv, ActorInv, Terminal, Actor, Active, Suspended, Waiting, ShapeInv, Live,
     Kills, Joins, Turn, Request, Idle, NoTask, Over
<1>5. CASE Retry \/ Steer \/ ListExpired \/ Expire
  BY <1>5, NoneIsOut DEF Retry, Quiet, NobodyJoins, StartTask, Steer, ListExpired,
     Expire, JoinInv, TaskInv, ActorInv, Terminal, Actor, Active, Suspended, Waiting,
     ShapeInv, Live, Kills, Joins, Turn, Request, Idle, NoTask, Over
<1>6. CASE Shutdown \/ ShutdownEnds \/ Crash \/ Restart \/ UNCHANGED vars
  BY <1>6, NoneIsOut DEF Shutdown, Stale, ShutdownEnds, FinalizeCancellation, Forget,
     Crash, Unrecorded, Restart, InHold, vars, JoinInv, TaskInv, ActorInv, Terminal,
     Actor, Active, Suspended, Waiting, ShapeInv, Live, Kills, Joins, Turn, Request,
     Idle, NoTask, Over
<1>7. QED
  BY <1>1, <1>2, <1>3, <1>4, <1>5, <1>6 DEF Next

\* Whoever terminates a process beside a turn is late.
LEMMA CalmStep ==
    ASSUME TypeOK, ShapeInv, TaskInv, JoinInv, ActorInv, CalmInv, OwnerInv, Windows
       \subseteq {"expiry"}, [Next]_vars
    PROVE  CalmInv'
<1> /\ task \in [Task -> Turn] /\ actor \in [Actor -> Request]
    /\ codex \in [Codex -> {"none", "alive", "exited"}]
    /\ reader \in [Codex -> {"none", "reads", "result", "failed", "cancelled", "unsafe"}]
    /\ handle \in Codex \cup {None} /\ current \in Task \cup {None}
    /\ (Unconfirmed => failures' # 0) /\ stops + 1 # 0
  BY Counted DEF TypeOK
<1>1. ASSUME NEW t \in Task, TaskStep(t) PROVE CalmInv'
  <2>1. CASE Begin(t) \/ Spawn(t) \/ Identify(t) \/ IdentifyFails(t) \/ Hold(t) \/
     Bind(t) \/ Check(t)
    BY <2>1, NoneIsOut, TurnIsFree DEF Begin, Spawn, Unused, Identify, IdentifyFails,
       Failed, HostWait, Hold, Bind, Check, CalmInv, TaskInv, ActorInv, Alive, Active,
       Suspended, Waiting, Terminal, Actor, ShapeInv, Live, Kills, Joins, Turn, Request,
       Idle, NoTask, Over
  <2>2. CASE StopOwn(t) \/ TakeResult(t) \/ TakeError(t) \/ Drain(t) \/ Close(t) \/
     End(t)
    BY <2>2, NoneIsOut DEF StopOwn, Failed, TakeResult, FinalizeCancellation,
       EnterQuotaWait, EnterHumanGate, KillTurn, TakeError, CancelledTask, Drain, Close,
       End, CalmInv, TaskInv, ActorInv, Alive, Active, Suspended, Waiting, Terminal,
       Actor, ShapeInv, Live, Kills, Joins, Turn, Request, Idle, NoTask, Over
  <2>3. QED
    BY <1>1, <2>1, <2>2 DEF TaskStep
<1>2. ASSUME NEW c \in Codex, CodexEnds(c) \/ ReaderEnds(c) \/ ReaderFails(c) \/ Event(c)
      PROVE  CalmInv'
  BY <1>2, NoneIsOut DEF CodexEnds, ReaderEnds, ReaderFails, Event, EnterQuotaWait,
     EnterHumanGate, KillTurn, CalmInv, TaskInv, ActorInv, Alive, Active, Suspended,
     Waiting, Terminal, Actor, ShapeInv, Live, Kills, Joins, Turn, Request, Idle,
     NoTask, Over
<1>3. ASSUME NEW a \in Actor, ActorStep(a) \/ KillFails(a) PROVE CalmInv'
  BY <1>3, NoneIsOut, JoinedIsQuiet DEF ActorStep, Look, Stale, Killed,
     FinalizeCancellation, InHold, Joined, StartTask, KillFails, CalmInv, TaskInv,
     ActorInv, Alive, Active, Suspended, Waiting, Terminal, Actor, ShapeInv, Live,
     Kills, Joins, Turn, Request, Idle, NoTask, Over
<1>4. CASE Pause \/ Cancel \/ Resume \/ Respond
  BY <1>4, NoneIsOut DEF Pause, KillTurn, Cancel, InHold, Resume, Respond, CalmInv,
     TaskInv, ActorInv, Alive, Active, Suspended, Waiting, Terminal, Actor, ShapeInv,
     Live, Kills, Joins, Turn, Request, Idle, NoTask, Over
<1>5. CASE Retry \/ Steer \/ ListExpired \/ Expire
  BY <1>5, NoneIsOut DEF Retry, Quiet, NobodyJoins, StartTask, Steer, ListExpired,
     Expire, CalmInv, TaskInv, ActorInv, Alive, Active, Suspended, Waiting, Terminal,
     Actor, ShapeInv, Live, Kills, Joins, Turn, Request, Idle, NoTask, Over
<1>6. CASE Shutdown \/ ShutdownEnds \/ Crash \/ Restart \/ UNCHANGED vars
  BY <1>6, NoneIsOut DEF Shutdown, Stale, ShutdownEnds, FinalizeCancellation, Forget,
     Crash, Unrecorded, Restart, InHold, vars, CalmInv, TaskInv, ActorInv, Alive,
     Active, Suspended, Waiting, Terminal, Actor, ShapeInv, Live, Kills, Joins, Turn,
     Request, Idle, NoTask, Over
<1>7. QED
  BY <1>1, <1>2, <1>3, <1>4, <1>5, <1>6 DEF Next

\* What the state of the Job is at each point of a turn.
LEMMA StageStep ==
    ASSUME TypeOK, ShapeInv, TaskInv, JoinInv, ActorInv, StageInv, Windows \subseteq
       {"expiry"}, [Next]_vars
    PROVE  StageInv'
<1> /\ task \in [Task -> Turn] /\ actor \in [Actor -> Request]
    /\ codex \in [Codex -> {"none", "alive", "exited"}]
    /\ reader \in [Codex -> {"none", "reads", "result", "failed", "cancelled", "unsafe"}]
    /\ handle \in Codex \cup {None} /\ current \in Task \cup {None}
    /\ (Unconfirmed => failures' # 0) /\ stops + 1 # 0
  BY Counted DEF TypeOK
<1>1. ASSUME NEW t \in Task, TaskStep(t) PROVE StageInv'
  BY <1>1, NoneIsOut DEF TaskStep, Begin, Spawn, Unused, Identify, IdentifyFails,
     Failed, HostWait, Hold, Bind, Check, StopOwn, TakeResult, FinalizeCancellation,
     EnterQuotaWait, EnterHumanGate, KillTurn, TakeError, CancelledTask, Drain, Close,
     End, StageInv, TaskInv, ActorInv, Active, Suspended, Waiting, Terminal, Quiet,
     ShapeInv, Live, Kills, Joins, Turn, Request, Idle, NoTask, Over
<1>2. ASSUME NEW c \in Codex, CodexEnds(c) \/ ReaderEnds(c) \/ ReaderFails(c) \/ Event(c)
      PROVE  StageInv'
  BY <1>2, NoneIsOut DEF CodexEnds, ReaderEnds, ReaderFails, Event, EnterQuotaWait,
     EnterHumanGate, KillTurn, StageInv, TaskInv, ActorInv, Active, Suspended, Waiting,
     Terminal, Quiet, ShapeInv, Live, Kills, Joins, Turn, Request, Idle, NoTask, Over
<1>3. ASSUME NEW a \in Actor, ActorStep(a) \/ KillFails(a) PROVE StageInv'
  BY <1>3, NoneIsOut, JoinedIsQuiet DEF ActorStep, Look, Stale, Killed,
     FinalizeCancellation, InHold, Joined, StartTask, KillFails, StageInv, TaskInv,
     ActorInv, Active, Suspended, Waiting, Terminal, Quiet, ShapeInv, Live, Kills,
     Joins, Turn, Request, Idle, NoTask, Over
<1>4. CASE Pause \/ Cancel \/ Resume \/ Respond
  BY <1>4, NoneIsOut DEF Pause, KillTurn, Cancel, InHold, Resume, Respond, StageInv,
     TaskInv, ActorInv, Active, Suspended, Waiting, Terminal, Quiet, ShapeInv, Live,
     Kills, Joins, Turn, Request, Idle, NoTask, Over
<1>5. CASE Retry \/ Steer \/ ListExpired \/ Expire
  BY <1>5, NoneIsOut DEF Retry, Quiet, NobodyJoins, StartTask, Steer, ListExpired,
     Expire, StageInv, TaskInv, ActorInv, Active, Suspended, Waiting, Terminal,
     ShapeInv, Live, Kills, Joins, Turn, Request, Idle, NoTask, Over
<1>6. CASE Shutdown \/ ShutdownEnds \/ Crash \/ Restart \/ UNCHANGED vars
  BY <1>6, NoneIsOut DEF Shutdown, Stale, ShutdownEnds, FinalizeCancellation, Forget,
     Crash, Unrecorded, Restart, InHold, vars, StageInv, TaskInv, ActorInv, Active,
     Suspended, Waiting, Terminal, Quiet, ShapeInv, Live, Kills, Joins, Turn, Request,
     Idle, NoTask, Over
<1>7. QED
  BY <1>1, <1>2, <1>3, <1>4, <1>5, <1>6 DEF Next

\* Nothing but what is being stopped is alive.
LEMMA StopStep ==
    ASSUME TypeOK, ShapeInv, TaskInv, HandleInv, ActorInv, StopInv, OwnerInv, Windows
       \subseteq {"expiry"}, [Next]_vars
    PROVE  StopInv'
<1> /\ task \in [Task -> Turn] /\ actor \in [Actor -> Request]
    /\ codex \in [Codex -> {"none", "alive", "exited"}]
    /\ reader \in [Codex -> {"none", "reads", "result", "failed", "cancelled", "unsafe"}]
    /\ handle \in Codex \cup {None} /\ current \in Task \cup {None}
    /\ (Unconfirmed => failures' # 0) /\ stops + 1 # 0
  BY Counted DEF TypeOK
<1>1. ASSUME NEW t \in Task, TaskStep(t) PROVE StopInv'
  <2>1. CASE Begin(t) \/ Spawn(t) \/ Identify(t) \/ IdentifyFails(t) \/ Hold(t) \/
     Bind(t)
    BY <2>1, NoneIsOut DEF Begin, Spawn, Unused, Identify, IdentifyFails, Failed,
       HostWait, Hold, Bind, StopInv, TaskInv, HandleInv, ActorInv, OwnerInv, Owned,
       Loose, Alive, Stopper, Terminal, Active, Suspended, Waiting, Actor, ShapeInv,
       Live, Kills, Joins, Turn, Request, Idle, NoTask, Over
  <2>2. CASE Check(t) \/ StopOwn(t) \/ TakeError(t) \/ Drain(t) \/ Close(t) \/ End(t)
    BY <2>2, NoneIsOut DEF Check, StopOwn, Failed, TakeError, CancelledTask, Drain,
       Close, End, StopInv, TaskInv, HandleInv, ActorInv, OwnerInv, Owned, Loose, Alive,
       Stopper, Terminal, Active, Suspended, Waiting, Actor, ShapeInv, Live, Kills,
       Joins, Turn, Request, Idle, NoTask, Over
  <2>3. CASE TakeResult(t)
    <3>1. codex' = codex /\ \A a \in Stopper : actor'[a] = actor[a]
      BY <2>3 DEF TakeResult, EnterQuotaWait, EnterHumanGate, KillTurn, Stopper, Actor
    <3>2. CASE state \in Active
      <4>1. \A a \in Stopper : ~Kills(a)
        BY <3>2 DEF ActorInv, Kills, Stopper, Active
      <4>2. QED
        BY <3>1, <4>1 DEF StopInv, Kills
    <3>3. CASE state \notin Active
      <4>1. task' = [task EXCEPT ![t].at = "end"]
        BY <2>3, <3>3 DEF TakeResult
      <4>2. QED
        BY <3>1, <4>1 DEF StopInv, Kills, Live, Alive, Turn
    <3>4. QED
      BY <3>2, <3>3
  <2>4. QED
    BY <1>1, <2>1, <2>2, <2>3 DEF TaskStep
<1>2. ASSUME NEW c \in Codex, CodexEnds(c) \/ ReaderEnds(c) \/ ReaderFails(c) \/ Event(c)
      PROVE  StopInv'
  BY <1>2, NoneIsOut DEF CodexEnds, ReaderEnds, ReaderFails, Event, EnterQuotaWait,
     EnterHumanGate, KillTurn, StopInv, TaskInv, HandleInv, ActorInv, OwnerInv, Owned,
     Loose, Alive, Stopper, Terminal, Active, Suspended, Waiting, Actor, ShapeInv, Live,
     Kills, Joins, Turn, Request, Idle, NoTask, Over
<1>3. ASSUME NEW a \in Actor, ActorStep(a) \/ KillFails(a) PROVE StopInv'
  BY <1>3, NoneIsOut DEF ActorStep, Look, Stale, Killed, FinalizeCancellation, InHold,
     Joined, StartTask, KillFails, StopInv, TaskInv, HandleInv, ActorInv, OwnerInv,
     Owned, Loose, Alive, Stopper, Terminal, Active, Suspended, Waiting, Actor,
     ShapeInv, Live, Kills, Joins, Turn, Request, Idle, NoTask, Over
<1>4. CASE Pause \/ Cancel \/ Resume \/ Respond
  <2>1. CASE Pause \/ Cancel
    BY <2>1, NoneIsOut DEF Pause, KillTurn, Cancel, InHold, StopInv, TaskInv, HandleInv,
       ActorInv, OwnerInv, Owned, Loose, Alive, Stopper, Terminal, Active, Suspended,
       Waiting, Actor, ShapeInv, Live, Kills, Joins, Turn, Request, Idle, NoTask, Over
  <2>2. CASE Resume \/ Respond
    BY <2>2, NoneIsOut DEF Resume, InHold, Respond, StopInv, TaskInv, HandleInv,
       ActorInv, OwnerInv, Owned, Loose, Alive, Stopper, Terminal, Active, Suspended,
       Waiting, Actor, ShapeInv, Live, Kills, Joins, Turn, Request, Idle, NoTask, Over
  <2>3. QED
    BY <1>4, <2>1, <2>2
<1>5. CASE Retry \/ Steer \/ ListExpired \/ Expire
  BY <1>5, NoneIsOut DEF Retry, Quiet, NobodyJoins, StartTask, Steer, ListExpired,
     Expire, StopInv, TaskInv, HandleInv, ActorInv, OwnerInv, Owned, Loose, Alive,
     Stopper, Terminal, Active, Suspended, Waiting, Actor, ShapeInv, Live, Kills, Joins,
     Turn, Request, Idle, NoTask, Over
<1>6. CASE Shutdown \/ ShutdownEnds \/ Crash \/ Restart \/ UNCHANGED vars
  BY <1>6, NoneIsOut DEF Shutdown, Stale, ShutdownEnds, FinalizeCancellation, Forget,
     Crash, Unrecorded, Restart, InHold, vars, StopInv, TaskInv, HandleInv, ActorInv,
     OwnerInv, Owned, Loose, Alive, Stopper, Terminal, Active, Suspended, Waiting,
     Actor, ShapeInv, Live, Kills, Joins, Turn, Request, Idle, NoTask, Over
<1>7. QED
  BY <1>1, <1>2, <1>3, <1>4, <1>5, <1>6 DEF Next

-----------------------------------------------------------------------------
(* ... processes, rows and the end of the Job.                             *)

\* A live process belongs to a turn, or the Job is held for it.
LEMMA OwnerStep ==
    ASSUME TypeOK, ShapeInv, TaskInv, HandleInv, ReaderInv, ActorInv, JoinInv, StopInv,
       CalmInv, OwnerInv, DownInv, Windows \subseteq {"expiry"}, [Next]_vars
    PROVE  OwnerInv'
<1> /\ task \in [Task -> Turn] /\ actor \in [Actor -> Request]
    /\ codex \in [Codex -> {"none", "alive", "exited"}]
    /\ reader \in [Codex -> {"none", "reads", "result", "failed", "cancelled", "unsafe"}]
    /\ handle \in Codex \cup {None} /\ current \in Task \cup {None}
    /\ (Unconfirmed => failures' # 0) /\ stops + 1 # 0
  BY Counted DEF TypeOK
<1>1. ASSUME NEW t \in Task, TaskStep(t) PROVE OwnerInv'
  <2>1. CASE Begin(t) \/ Spawn(t) \/ Identify(t)
    BY <2>1, NoneIsOut, TurnIsFree DEF Begin, Spawn, Unused, Identify, OwnerInv,
       TaskInv, HandleInv, ReaderInv, ActorInv, StopInv, CalmInv, DownInv, Owned, Loose,
       Alive, Stopper, Active, Actor, Unrecorded, ShapeInv, Live, Kills, Joins, Turn,
       Request, Idle, NoTask, Over
  <2>2. CASE IdentifyFails(t)
    BY <2>2, NoneIsOut DEF IdentifyFails, Failed, HostWait, OwnerInv, TaskInv,
       HandleInv, ReaderInv, ActorInv, StopInv, CalmInv, DownInv, Owned, Loose, Alive,
       Stopper, Active, Actor, Unrecorded, ShapeInv, Live, Kills, Joins, Turn, Request,
       Idle, NoTask, Over
  <2>3. CASE Hold(t)
    BY <2>3, NoneIsOut DEF Hold, OwnerInv, TaskInv, HandleInv, ReaderInv, ActorInv,
       StopInv, CalmInv, DownInv, Owned, Loose, Alive, Stopper, Active, Actor,
       Unrecorded, ShapeInv, Live, Kills, Joins, Turn, Request, Idle, NoTask, Over
  <2>4. CASE Bind(t)
    BY <2>4, NoneIsOut DEF Bind, OwnerInv, TaskInv, HandleInv, ReaderInv, ActorInv,
       StopInv, CalmInv, DownInv, Owned, Loose, Alive, Stopper, Active, Actor,
       Unrecorded, ShapeInv, Live, Kills, Joins, Turn, Request, Idle, NoTask, Over
  <2>5. CASE StopOwn(t) \/ TakeError(t) \/ Drain(t)
    BY <2>5, NoneIsOut DEF StopOwn, Failed, TakeError, CancelledTask, Drain, OwnerInv,
       TaskInv, HandleInv, ReaderInv, ActorInv, StopInv, CalmInv, DownInv, Owned, Loose,
       Alive, Stopper, Active, Actor, Unrecorded, ShapeInv, Live, Kills, Joins, Turn,
       Request, Idle, NoTask, Over
  <2>6. CASE Close(t) \/ End(t)
    BY <2>6, NoneIsOut DEF Close, End, OwnerInv, TaskInv, HandleInv, ReaderInv,
       ActorInv, StopInv, CalmInv, DownInv, Owned, Loose, Alive, Stopper, Active, Actor,
       Unrecorded, ShapeInv, Live, Kills, Joins, Turn, Request, Idle, NoTask, Over
  <2>7. CASE Check(t)
    <3>1. up = "up" /\ up' = up /\ codex' = codex /\ Live(t)
      BY <2>7 DEF Check, Live
    <3>2. \A c \in Alive : c = task[t].codex
      BY <3>1, TurnIsAlone
    <3>3. task'[t].codex = task[t].codex /\ task'[t].at \in {"await", "stop"}
      BY <2>7 DEF Check, Turn
    <3>4. \A c \in Alive : Owned(c)'
      BY <3>2, <3>3 DEF Owned
    <3>5. QED
      BY <3>1, <3>4 DEF OwnerInv, Alive
  <2>8. CASE TakeResult(t)
    <3>1. up = "up" /\ up' = up /\ codex' = codex /\ Live(t) /\ reader[task[t].codex] = "result"
      BY <2>8 DEF TakeResult, Live
    <3>2. Alive = {}
      BY <3>1, TurnIsAlone DEF ReaderInv, Alive
    <3>3. QED
      BY <3>1, <3>2 DEF OwnerInv, Alive
  <2>9. QED
    BY <1>1, <2>1, <2>2, <2>3, <2>4, <2>5, <2>6, <2>7, <2>8 DEF TaskStep
<1>2. ASSUME NEW c \in Codex, CodexEnds(c) \/ ReaderEnds(c) \/ ReaderFails(c) \/ Event(c)
      PROVE  OwnerInv'
  BY <1>2, NoneIsOut DEF CodexEnds, ReaderEnds, ReaderFails, Event, EnterQuotaWait,
     EnterHumanGate, KillTurn, OwnerInv, TaskInv, HandleInv, ReaderInv, ActorInv,
     StopInv, CalmInv, DownInv, Owned, Loose, Alive, Stopper, Active, Actor, Unrecorded,
     ShapeInv, Live, Kills, Joins, Turn, Request, Idle, NoTask, Over
<1>3. ASSUME NEW a \in Actor, ActorStep(a) \/ KillFails(a) PROVE OwnerInv'
  <2>1. CASE Look \/ Killed(a)
    BY <2>1, NoneIsOut DEF Look, Stale, Killed, FinalizeCancellation, InHold, OwnerInv,
       TaskInv, HandleInv, ReaderInv, ActorInv, StopInv, CalmInv, DownInv, Owned, Loose,
       Alive, Stopper, Active, Actor, Unrecorded, ShapeInv, Live, Kills, Joins, Turn,
       Request, Idle, NoTask, Over
  <2>2. CASE Joined(a)
    BY <2>2, NoneIsOut, JoinedIsQuiet, JoinedIsFree DEF Joined, FinalizeCancellation,
       StartTask, Terminal, OwnerInv, TaskInv, HandleInv, ReaderInv, ActorInv, StopInv,
       CalmInv, DownInv, Owned, Loose, Alive, Stopper, Active, Actor, Unrecorded,
       ShapeInv, Live, Kills, Joins, Turn, Request, Idle, NoTask, Over
  <2>3. CASE KillFails(a)
    BY <2>3, NoneIsOut DEF KillFails, OwnerInv, TaskInv, HandleInv, ReaderInv, ActorInv,
       StopInv, CalmInv, DownInv, Owned, Loose, Alive, Stopper, Active, Actor,
       Unrecorded, ShapeInv, Live, Kills, Joins, Turn, Request, Idle, NoTask, Over
  <2>4. QED
    BY <1>3, <2>1, <2>2, <2>3 DEF ActorStep
<1>4. CASE Pause \/ Cancel \/ Resume \/ Respond
  BY <1>4, NoneIsOut DEF Pause, KillTurn, Cancel, InHold, Resume, Respond, OwnerInv,
     TaskInv, HandleInv, ReaderInv, ActorInv, StopInv, CalmInv, DownInv, Owned, Loose,
     Alive, Stopper, Active, Actor, Unrecorded, ShapeInv, Live, Kills, Joins, Turn,
     Request, Idle, NoTask, Over
<1>5. CASE Retry \/ Steer \/ ListExpired \/ Expire
  BY <1>5, NoneIsOut DEF Retry, Quiet, NobodyJoins, StartTask, Steer, ListExpired,
     Expire, OwnerInv, TaskInv, HandleInv, ReaderInv, ActorInv, StopInv, CalmInv,
     DownInv, Owned, Loose, Alive, Stopper, Active, Actor, Unrecorded, ShapeInv, Live,
     Kills, Joins, Turn, Request, Idle, NoTask, Over
<1>6. CASE Shutdown \/ ShutdownEnds \/ Crash \/ Restart \/ UNCHANGED vars
  <2>1. CASE Shutdown
    BY <2>1, NoneIsOut DEF Shutdown, Stale, OwnerInv, TaskInv, HandleInv, ReaderInv,
       ActorInv, StopInv, CalmInv, DownInv, Owned, Loose, Alive, Stopper, Active, Actor,
       Unrecorded, ShapeInv, Live, Kills, Joins, Turn, Request, Idle, NoTask, Over
  <2>2. CASE ShutdownEnds
    BY <2>2, NoneIsOut DEF ShutdownEnds, FinalizeCancellation, Forget, OwnerInv,
       TaskInv, HandleInv, ReaderInv, ActorInv, StopInv, CalmInv, DownInv, Owned, Loose,
       Alive, Stopper, Active, Actor, Unrecorded, ShapeInv, Live, Kills, Joins, Turn,
       Request, Idle, NoTask, Over
  <2>3. CASE Crash
    BY <2>3, NoneIsOut DEF Crash, Forget, Unrecorded, OwnerInv, TaskInv, HandleInv,
       ReaderInv, ActorInv, StopInv, CalmInv, DownInv, Owned, Loose, Alive, Stopper,
       Active, Actor, ShapeInv, Live, Kills, Joins, Turn, Request, Idle, NoTask, Over
  <2>4. CASE Restart \/ UNCHANGED vars
    BY <2>4, NoneIsOut DEF Restart, Unrecorded, InHold, vars, OwnerInv, TaskInv,
       HandleInv, ReaderInv, ActorInv, StopInv, CalmInv, DownInv, Owned, Loose, Alive,
       Stopper, Active, Actor, ShapeInv, Live, Kills, Joins, Turn, Request, Idle,
       NoTask, Over
  <2>5. QED
    BY <1>6, <2>1, <2>2, <2>3, <2>4
<1>7. QED
  BY <1>1, <1>2, <1>3, <1>4, <1>5, <1>6 DEF Next

\* What a crash leaves behind.
LEMMA DownStep ==
    ASSUME TypeOK, ShapeInv, DownInv, TaskInv, StopInv, ActorInv, Windows \subseteq
       {"expiry"}, [Next]_vars
    PROVE  DownInv'
<1> /\ task \in [Task -> Turn] /\ actor \in [Actor -> Request]
    /\ codex \in [Codex -> {"none", "alive", "exited"}]
    /\ reader \in [Codex -> {"none", "reads", "result", "failed", "cancelled", "unsafe"}]
    /\ handle \in Codex \cup {None} /\ current \in Task \cup {None}
    /\ (Unconfirmed => failures' # 0) /\ stops + 1 # 0
  BY Counted DEF TypeOK
<1>1. ASSUME NEW t \in Task, TaskStep(t) PROVE DownInv'
  BY <1>1, NoneIsOut DEF TaskStep, Begin, Spawn, Unused, Identify, IdentifyFails,
     Failed, HostWait, Hold, Bind, Check, StopOwn, TakeResult, FinalizeCancellation,
     EnterQuotaWait, EnterHumanGate, KillTurn, TakeError, CancelledTask, Drain, Close,
     End, DownInv, TaskInv, StopInv, ActorInv, Stopper, Unrecorded, Alive, ShapeInv,
     Live, Kills, Joins, Turn, Request, Idle, NoTask, Over
<1>2. ASSUME NEW c \in Codex, CodexEnds(c) \/ ReaderEnds(c) \/ ReaderFails(c) \/ Event(c)
      PROVE  DownInv'
  BY <1>2, NoneIsOut DEF CodexEnds, ReaderEnds, ReaderFails, Event, EnterQuotaWait,
     EnterHumanGate, KillTurn, DownInv, TaskInv, StopInv, ActorInv, Stopper, Unrecorded,
     Alive, ShapeInv, Live, Kills, Joins, Turn, Request, Idle, NoTask, Over
<1>3. ASSUME NEW a \in Actor, ActorStep(a) \/ KillFails(a) PROVE DownInv'
  BY <1>3, NoneIsOut DEF ActorStep, Look, Stale, Killed, FinalizeCancellation, InHold,
     Joined, StartTask, KillFails, DownInv, TaskInv, StopInv, ActorInv, Stopper,
     Unrecorded, Alive, ShapeInv, Live, Kills, Joins, Turn, Request, Idle, NoTask, Over
<1>4. CASE Pause \/ Cancel \/ Resume \/ Respond
  BY <1>4, NoneIsOut DEF Pause, KillTurn, Cancel, InHold, Resume, Respond, DownInv,
     TaskInv, StopInv, ActorInv, Stopper, Unrecorded, Alive, ShapeInv, Live, Kills,
     Joins, Turn, Request, Idle, NoTask, Over
<1>5. CASE Retry \/ Steer \/ ListExpired \/ Expire
  BY <1>5, NoneIsOut DEF Retry, Quiet, NobodyJoins, StartTask, Steer, ListExpired,
     Expire, DownInv, TaskInv, StopInv, ActorInv, Stopper, Unrecorded, Alive, ShapeInv,
     Live, Kills, Joins, Turn, Request, Idle, NoTask, Over
<1>6. CASE Shutdown \/ ShutdownEnds \/ Crash \/ Restart \/ UNCHANGED vars
  BY <1>6, NoneIsOut DEF Shutdown, Stale, ShutdownEnds, FinalizeCancellation, Forget,
     Crash, Unrecorded, Restart, InHold, vars, DownInv, TaskInv, StopInv, ActorInv,
     Stopper, Alive, ShapeInv, Live, Kills, Joins, Turn, Request, Idle, NoTask, Over
<1>7. QED
  BY <1>1, <1>2, <1>3, <1>4, <1>5, <1>6 DEF Next

\* A Job that is over has no process and starts none.
LEMMA OverStep ==
    ASSUME TypeOK, ShapeInv, TaskInv, HandleInv, ReaderInv, ActorInv, JoinInv, StopInv,
       OwnerInv, DownInv, OverInv, Windows = {}, [Next]_vars
    PROVE  OverInv'
<1> /\ task \in [Task -> Turn] /\ actor \in [Actor -> Request]
    /\ codex \in [Codex -> {"none", "alive", "exited"}]
    /\ reader \in [Codex -> {"none", "reads", "result", "failed", "cancelled", "unsafe"}]
    /\ handle \in Codex \cup {None} /\ current \in Task \cup {None}
    /\ (Unconfirmed => failures' # 0) /\ stops + 1 # 0
  BY Counted DEF TypeOK
<1>1. ASSUME NEW t \in Task, TaskStep(t) PROVE OverInv'
  <2>1. CASE Begin(t)
    BY <2>1, NoneIsOut DEF Begin, OverInv, TaskInv, HandleInv, ReaderInv, ActorInv,
       JoinInv, StopInv, OwnerInv, DownInv, Owned, Loose, Alive, Stopper, Terminal,
       Active, Suspended, Waiting, Actor, Unrecorded, ShapeInv, Live, Kills, Joins,
       Turn, Request, Idle, NoTask, Over
  <2>2. CASE Spawn(t)
    BY <2>2, NoneIsOut DEF Spawn, Unused, OverInv, TaskInv, HandleInv, ReaderInv,
       ActorInv, JoinInv, StopInv, OwnerInv, DownInv, Owned, Loose, Alive, Stopper,
       Terminal, Active, Suspended, Waiting, Actor, Unrecorded, ShapeInv, Live, Kills,
       Joins, Turn, Request, Idle, NoTask, Over
  <2>3. CASE Identify(t)
    BY <2>3, NoneIsOut DEF Identify, OverInv, TaskInv, HandleInv, ReaderInv, ActorInv,
       JoinInv, StopInv, OwnerInv, DownInv, Owned, Loose, Alive, Stopper, Terminal,
       Active, Suspended, Waiting, Actor, Unrecorded, ShapeInv, Live, Kills, Joins,
       Turn, Request, Idle, NoTask, Over
  <2>4. CASE IdentifyFails(t)
    BY <2>4, NoneIsOut, TurnIsAlone DEF IdentifyFails, Failed, HostWait, OverInv,
       TaskInv, HandleInv, ReaderInv, ActorInv, JoinInv, StopInv, OwnerInv, DownInv,
       Owned, Loose, Alive, Stopper, Terminal, Active, Suspended, Waiting, Actor,
       Unrecorded, ShapeInv, Live, Kills, Joins, Turn, Request, Idle, NoTask, Over
  <2>5. CASE Hold(t) \/ Bind(t) \/ Check(t)
    BY <2>5, NoneIsOut DEF Hold, Bind, Check, OverInv, TaskInv, HandleInv, ReaderInv,
       ActorInv, JoinInv, StopInv, OwnerInv, DownInv, Owned, Loose, Alive, Stopper,
       Terminal, Active, Suspended, Waiting, Actor, Unrecorded, ShapeInv, Live, Kills,
       Joins, Turn, Request, Idle, NoTask, Over
  <2>6. CASE StopOwn(t)
    BY <2>6, NoneIsOut DEF StopOwn, Failed, OverInv, TaskInv, HandleInv, ReaderInv,
       ActorInv, JoinInv, StopInv, OwnerInv, DownInv, Owned, Loose, Alive, Stopper,
       Terminal, Active, Suspended, Waiting, Actor, Unrecorded, ShapeInv, Live, Kills,
       Joins, Turn, Request, Idle, NoTask, Over
  <2>7. CASE TakeResult(t)
    BY <2>7, NoneIsOut, TurnIsAlone DEF TakeResult, FinalizeCancellation,
       EnterQuotaWait, EnterHumanGate, Failed, KillTurn, OverInv, TaskInv, HandleInv,
       ReaderInv, ActorInv, JoinInv, StopInv, OwnerInv, DownInv, Owned, Loose, Alive,
       Stopper, Terminal, Active, Suspended, Waiting, Actor, Unrecorded, ShapeInv, Live,
       Kills, Joins, Turn, Request, Idle, NoTask, Over
  <2>8. CASE TakeError(t)
    BY <2>8, NoneIsOut, TurnIsAlone DEF TakeError, CancelledTask, Failed, OverInv,
       TaskInv, HandleInv, ReaderInv, ActorInv, JoinInv, StopInv, OwnerInv, DownInv,
       Owned, Loose, Alive, Stopper, Terminal, Active, Suspended, Waiting, Actor,
       Unrecorded, ShapeInv, Live, Kills, Joins, Turn, Request, Idle, NoTask, Over
  <2>9. CASE Drain(t) \/ Close(t) \/ End(t)
    BY <2>9, NoneIsOut DEF Drain, Close, End, OverInv, TaskInv, HandleInv, ReaderInv,
       ActorInv, JoinInv, StopInv, OwnerInv, DownInv, Owned, Loose, Alive, Stopper,
       Terminal, Active, Suspended, Waiting, Actor, Unrecorded, ShapeInv, Live, Kills,
       Joins, Turn, Request, Idle, NoTask, Over
  <2>10. QED
    BY <1>1, <2>1, <2>2, <2>3, <2>4, <2>5, <2>6, <2>7, <2>8, <2>9 DEF TaskStep
<1>2. ASSUME NEW c \in Codex, CodexEnds(c) \/ ReaderEnds(c) \/ ReaderFails(c) \/ Event(c)
      PROVE  OverInv'
  BY <1>2, NoneIsOut DEF CodexEnds, ReaderEnds, ReaderFails, Event, EnterQuotaWait,
     EnterHumanGate, KillTurn, OverInv, TaskInv, HandleInv, ReaderInv, ActorInv,
     JoinInv, StopInv, OwnerInv, DownInv, Owned, Loose, Alive, Stopper, Terminal,
     Active, Suspended, Waiting, Actor, Unrecorded, ShapeInv, Live, Kills, Joins, Turn,
     Request, Idle, NoTask, Over
<1>3. ASSUME NEW a \in Actor, ActorStep(a) \/ KillFails(a) PROVE OverInv'
  <2>1. CASE Look \/ Killed(a)
    BY <2>1, NoneIsOut DEF Look, Stale, Killed, FinalizeCancellation, InHold, OverInv,
       TaskInv, HandleInv, ReaderInv, ActorInv, JoinInv, StopInv, OwnerInv, DownInv,
       Owned, Loose, Alive, Stopper, Terminal, Active, Suspended, Waiting, Actor,
       Unrecorded, ShapeInv, Live, Kills, Joins, Turn, Request, Idle, NoTask, Over
  <2>2. CASE Joined(a)
    BY <2>2, NoneIsOut, JoinedIsQuiet, JoinedIsFree DEF Joined, FinalizeCancellation,
       StartTask, OverInv, TaskInv, HandleInv, ReaderInv, ActorInv, JoinInv, StopInv,
       OwnerInv, DownInv, Owned, Loose, Alive, Stopper, Terminal, Active, Suspended,
       Waiting, Actor, Unrecorded, ShapeInv, Live, Kills, Joins, Turn, Request, Idle,
       NoTask, Over
  <2>3. CASE KillFails(a)
    BY <2>3, NoneIsOut DEF KillFails, OverInv, TaskInv, HandleInv, ReaderInv, ActorInv,
       JoinInv, StopInv, OwnerInv, DownInv, Owned, Loose, Alive, Stopper, Terminal,
       Active, Suspended, Waiting, Actor, Unrecorded, ShapeInv, Live, Kills, Joins,
       Turn, Request, Idle, NoTask, Over
  <2>4. QED
    BY <1>3, <2>1, <2>2, <2>3 DEF ActorStep
<1>4. CASE Pause \/ Cancel \/ Resume \/ Respond
  BY <1>4, NoneIsOut DEF Pause, KillTurn, Cancel, InHold, Resume, Respond, OverInv,
     TaskInv, HandleInv, ReaderInv, ActorInv, JoinInv, StopInv, OwnerInv, DownInv,
     Owned, Loose, Alive, Stopper, Terminal, Active, Suspended, Waiting, Actor,
     Unrecorded, ShapeInv, Live, Kills, Joins, Turn, Request, Idle, NoTask, Over
<1>5. CASE Retry \/ Steer \/ ListExpired \/ Expire
  BY <1>5, NoneIsOut DEF Retry, Quiet, NobodyJoins, StartTask, Steer, ListExpired,
     Expire, OverInv, TaskInv, HandleInv, ReaderInv, ActorInv, JoinInv, StopInv,
     OwnerInv, DownInv, Owned, Loose, Alive, Stopper, Terminal, Active, Suspended,
     Waiting, Actor, Unrecorded, ShapeInv, Live, Kills, Joins, Turn, Request, Idle,
     NoTask, Over
<1>6. CASE Shutdown \/ ShutdownEnds \/ Crash \/ Restart \/ UNCHANGED vars
  <2>1. CASE Shutdown \/ ShutdownEnds
    BY <2>1, NoneIsOut DEF Shutdown, Stale, ShutdownEnds, FinalizeCancellation, Forget,
       OverInv, TaskInv, HandleInv, ReaderInv, ActorInv, JoinInv, StopInv, OwnerInv,
       DownInv, Owned, Loose, Alive, Stopper, Terminal, Active, Suspended, Waiting,
       Actor, Unrecorded, ShapeInv, Live, Kills, Joins, Turn, Request, Idle, NoTask,
       Over
  <2>2. CASE Crash
    BY <2>2, NoneIsOut DEF Crash, Forget, Unrecorded, OverInv, TaskInv, HandleInv,
       ReaderInv, ActorInv, JoinInv, StopInv, OwnerInv, DownInv, Owned, Loose, Alive,
       Stopper, Terminal, Active, Suspended, Waiting, Actor, ShapeInv, Live, Kills,
       Joins, Turn, Request, Idle, NoTask, Over
  <2>3. CASE Restart \/ UNCHANGED vars
    BY <2>3, NoneIsOut DEF Restart, Unrecorded, InHold, vars, OverInv, TaskInv,
       HandleInv, ReaderInv, ActorInv, JoinInv, StopInv, OwnerInv, DownInv, Owned,
       Loose, Alive, Stopper, Terminal, Active, Suspended, Waiting, Actor, ShapeInv,
       Live, Kills, Joins, Turn, Request, Idle, NoTask, Over
  <2>4. QED
    BY <1>6, <2>1, <2>2, <2>3
<1>7. QED
  BY <1>1, <1>2, <1>3, <1>4, <1>5, <1>6 DEF Next

\* The row names the process of a bound turn, or nothing.
LEMMA PidStep ==
    ASSUME TypeOK, ShapeInv, TaskInv, HandleInv, JoinInv, ActorInv, PidInv, Windows
       \subseteq {"expiry"}, [Next]_vars
    PROVE  PidInv'
<1> /\ task \in [Task -> Turn] /\ actor \in [Actor -> Request]
    /\ codex \in [Codex -> {"none", "alive", "exited"}]
    /\ reader \in [Codex -> {"none", "reads", "result", "failed", "cancelled", "unsafe"}]
    /\ handle \in Codex \cup {None} /\ current \in Task \cup {None}
    /\ (Unconfirmed => failures' # 0) /\ stops + 1 # 0
  BY Counted DEF TypeOK
<1>1. ASSUME NEW t \in Task, TaskStep(t) PROVE PidInv'
  BY <1>1, NoneIsOut DEF TaskStep, Begin, Spawn, Unused, Identify, IdentifyFails,
     Failed, HostWait, Hold, Bind, Check, StopOwn, TakeResult, FinalizeCancellation,
     EnterQuotaWait, EnterHumanGate, KillTurn, TakeError, CancelledTask, Drain, Close,
     End, PidInv, TaskInv, ActorInv, Active, ShapeInv, Live, Kills, Joins, Turn,
     Request, Idle, NoTask, Over
<1>2. ASSUME NEW c \in Codex, CodexEnds(c) \/ ReaderEnds(c) \/ ReaderFails(c) \/ Event(c)
      PROVE  PidInv'
  <2>1. CASE CodexEnds(c)
    BY <2>1, NoneIsOut DEF CodexEnds, PidInv, TaskInv, ActorInv, Active, ShapeInv, Live,
       Kills, Joins, Turn, Request, Idle, NoTask, Over
  <2>2. CASE ReaderEnds(c)
    BY <2>2, NoneIsOut DEF ReaderEnds, PidInv, TaskInv, ActorInv, Active, ShapeInv,
       Live, Kills, Joins, Turn, Request, Idle, NoTask, Over
  <2>3. CASE ReaderFails(c)
    <3>1. /\ UNCHANGED <<task, state, pid>>
          /\ \A d \in Codex : codex'[d] = "alive" => codex[d] = "alive"
      BY <2>3 DEF ReaderFails
    <3>2. \A t \in Task : task[t].at \in {"check", "await"} => task[t].codex \in Codex
      BY DEF HandleInv, Turn
    <3>3. QED
      BY <3>1, <3>2 DEF PidInv
  <2>4. CASE Event(c)
    BY <2>4, NoneIsOut DEF Event, EnterQuotaWait, EnterHumanGate, KillTurn, PidInv,
       TaskInv, ActorInv, Active, ShapeInv, Live, Kills, Joins, Turn, Request, Idle,
       NoTask, Over
  <2>5. QED
    BY <1>2, <2>1, <2>2, <2>3, <2>4
<1>3. ASSUME NEW a \in Actor, ActorStep(a) \/ KillFails(a) PROVE PidInv'
  <2>1. CASE Look \/ Killed(a)
    BY <2>1, NoneIsOut DEF Look, Stale, Killed, FinalizeCancellation, InHold, PidInv,
       TaskInv, ActorInv, Active, ShapeInv, Live, Kills, Joins, Turn, Request, Idle,
       NoTask, Over
  <2>2. CASE Joined(a)
    <3>1. UNCHANGED <<pid, codex, up>> /\ Joins(a)
      BY <2>2 DEF Joined, Joins
    <3>2. CASE task' = task
      <4>1. state' \in {state, "CANCELLED"}
        BY <2>2, <3>2 DEF Joined, FinalizeCancellation, StartTask, Turn
      <4>2. QED
        BY <3>1, <3>2, <4>1 DEF PidInv
    <3>3. CASE task' # task
      <4>1. state \notin Terminal
        BY <2>2, <3>3 DEF Joined, Terminal
      <4>2. \A t \in Task : ~Live(t)
        BY <2>2, <3>1, <4>1, JoinedIsQuiet DEF Joined
      <4>3. \A t \in Task : task'[t].at \notin {"check", "await"}
        BY <2>2, <3>3, <4>2 DEF Joined, StartTask, Live, Turn
      <4>4. QED
        BY <4>3 DEF PidInv
    <3>4. QED
      BY <3>2, <3>3
  <2>3. CASE KillFails(a)
    BY <2>3, NoneIsOut DEF KillFails, PidInv, TaskInv, ActorInv, Active, ShapeInv, Live,
       Kills, Joins, Turn, Request, Idle, NoTask, Over
  <2>4. QED
    BY <1>3, <2>1, <2>2, <2>3 DEF ActorStep
<1>4. CASE Pause \/ Cancel \/ Resume \/ Respond
  BY <1>4, NoneIsOut DEF Pause, KillTurn, Cancel, InHold, Resume, Respond, PidInv,
     TaskInv, ActorInv, Active, ShapeInv, Live, Kills, Joins, Turn, Request, Idle,
     NoTask, Over
<1>5. CASE Retry \/ Steer \/ ListExpired \/ Expire
  BY <1>5, NoneIsOut DEF Retry, Quiet, NobodyJoins, StartTask, Steer, ListExpired,
     Expire, PidInv, TaskInv, ActorInv, Active, ShapeInv, Live, Kills, Joins, Turn,
     Request, Idle, NoTask, Over
<1>6. CASE Shutdown \/ ShutdownEnds \/ Crash \/ Restart \/ UNCHANGED vars
  BY <1>6, NoneIsOut DEF Shutdown, Stale, ShutdownEnds, FinalizeCancellation, Forget,
     Crash, Unrecorded, Restart, InHold, vars, PidInv, TaskInv, ActorInv, Active,
     ShapeInv, Live, Kills, Joins, Turn, Request, Idle, NoTask, Over
<1>7. QED
  BY <1>1, <1>2, <1>3, <1>4, <1>5, <1>6 DEF Next

\* A turn that is waited for is that of a running Job, or is being terminated.
LEMMA SuspendStep ==
    ASSUME TypeOK, ShapeInv, TaskInv, HandleInv, JoinInv, ActorInv, StageInv,
       SuspendInv, Windows \subseteq {"expiry"}, [Next]_vars
    PROVE  SuspendInv'
<1> /\ task \in [Task -> Turn] /\ actor \in [Actor -> Request]
    /\ codex \in [Codex -> {"none", "alive", "exited"}]
    /\ reader \in [Codex -> {"none", "reads", "result", "failed", "cancelled", "unsafe"}]
    /\ handle \in Codex \cup {None} /\ current \in Task \cup {None}
    /\ (Unconfirmed => failures' # 0) /\ stops + 1 # 0
  BY Counted DEF TypeOK
<1>1. ASSUME NEW t \in Task, TaskStep(t) PROVE SuspendInv'
  <2>1. CASE Begin(t) \/ Spawn(t) \/ Identify(t) \/ IdentifyFails(t) \/ Hold(t) \/
     Bind(t) \/ Check(t)
    BY <2>1, NoneIsOut DEF Begin, Spawn, Unused, Identify, IdentifyFails, Failed,
       HostWait, Hold, Bind, Check, SuspendInv, TaskInv, HandleInv, ActorInv, StageInv,
       Doomed, Actor, Suspended, Waiting, Active, Terminal, ShapeInv, Live, Kills,
       Joins, Turn, Request, Idle, NoTask, Over
  <2>2. CASE StopOwn(t) \/ TakeResult(t) \/ TakeError(t)
    BY <2>2, NoneIsOut DEF StopOwn, Failed, TakeResult, FinalizeCancellation,
       EnterQuotaWait, EnterHumanGate, KillTurn, TakeError, CancelledTask, SuspendInv,
       TaskInv, HandleInv, ActorInv, StageInv, Doomed, Actor, Suspended, Waiting,
       Active, Terminal, ShapeInv, Live, Kills, Joins, Turn, Request, Idle, NoTask, Over
  <2>3. CASE Drain(t) \/ Close(t) \/ End(t)
    BY <2>3, NoneIsOut DEF Drain, Close, End, SuspendInv, TaskInv, HandleInv, ActorInv,
       StageInv, Doomed, Actor, Suspended, Waiting, Active, Terminal, ShapeInv, Live,
       Kills, Joins, Turn, Request, Idle, NoTask, Over
  <2>4. QED
    BY <1>1, <2>1, <2>2, <2>3 DEF TaskStep
<1>2. ASSUME NEW c \in Codex, CodexEnds(c) \/ ReaderEnds(c) \/ ReaderFails(c) \/ Event(c)
      PROVE  SuspendInv'
  BY <1>2, NoneIsOut DEF CodexEnds, ReaderEnds, ReaderFails, Event, EnterQuotaWait,
     EnterHumanGate, KillTurn, SuspendInv, TaskInv, HandleInv, ActorInv, StageInv,
     Doomed, Actor, Suspended, Waiting, Active, Terminal, ShapeInv, Live, Kills, Joins,
     Turn, Request, Idle, NoTask, Over
<1>3. ASSUME NEW a \in Actor, ActorStep(a) \/ KillFails(a) PROVE SuspendInv'
  BY <1>3, NoneIsOut, JoinedIsQuiet DEF ActorStep, Look, Stale, Killed,
     FinalizeCancellation, InHold, Joined, StartTask, KillFails, SuspendInv, TaskInv,
     HandleInv, ActorInv, StageInv, Doomed, Actor, Suspended, Waiting, Active, Terminal,
     ShapeInv, Live, Kills, Joins, Turn, Request, Idle, NoTask, Over
<1>4. CASE Pause \/ Cancel \/ Resume \/ Respond
  BY <1>4, NoneIsOut DEF Pause, KillTurn, Cancel, InHold, Resume, Respond, SuspendInv,
     TaskInv, HandleInv, ActorInv, StageInv, Doomed, Actor, Suspended, Waiting, Active,
     Terminal, ShapeInv, Live, Kills, Joins, Turn, Request, Idle, NoTask, Over
<1>5. CASE Retry \/ Steer \/ ListExpired \/ Expire
  BY <1>5, NoneIsOut DEF Retry, Quiet, NobodyJoins, StartTask, Steer, ListExpired,
     Expire, SuspendInv, TaskInv, HandleInv, ActorInv, StageInv, Doomed, Actor,
     Suspended, Waiting, Active, Terminal, ShapeInv, Live, Kills, Joins, Turn, Request,
     Idle, NoTask, Over
<1>6. CASE Shutdown \/ ShutdownEnds \/ Crash \/ Restart \/ UNCHANGED vars
  BY <1>6, NoneIsOut DEF Shutdown, Stale, ShutdownEnds, FinalizeCancellation, Forget,
     Crash, Unrecorded, Restart, InHold, vars, SuspendInv, TaskInv, HandleInv, ActorInv,
     StageInv, Doomed, Actor, Suspended, Waiting, Active, Terminal, ShapeInv, Live,
     Kills, Joins, Turn, Request, Idle, NoTask, Over
<1>7. QED
  BY <1>1, <1>2, <1>3, <1>4, <1>5, <1>6 DEF Next

-----------------------------------------------------------------------------
(* The theorems.                                                           *)

LEMMA TypeInit ==
    ASSUME Init
    PROVE  TypeOK
<1>1. RowsOK /\ WorldOK
  BY DEF Init, RowsOK, WorldOK, Active
<1>2. FlagsOK
  BY DEF Init, FlagsOK
<1>3. BoundsOK
  BY BoundAssumption DEF Init, BoundsOK
<1>4. 1 \in Task
  BY BoundAssumption DEF Task
<1>5. TasksOK
  BY <1>4 DEF Init, TasksOK, Turn, NoTask
<1>6. actor \in [Actor -> Request]
  BY DEF Init, Request, Idle
<1>7. QED
  BY <1>1, <1>2, <1>3, <1>5, <1>6 DEF TypeOK, RowsOK, FlagsOK, TasksOK, WorldOK, BoundsOK

LEMMA FreeInit ==
    ASSUME Init
    PROVE  FreeInv
<1>1. /\ ShapeInv /\ ReaderInv
  BY DEF Init, ShapeInv, ReaderInv, Kills, Joins, Idle, Actor
<1>2. SteerInv /\ GateCanBeAnswered /\ CancellationProceeds
  BY DEF Init, SteerInv, GateCanBeAnswered, CancellationProceeds
<1>3. QED
  BY TypeInit, <1>1, <1>2 DEF FreeInv

LEMMA StrictInit ==
    ASSUME Init
    PROVE  StrictInv
<1>1. /\ state = "ASSIGNED" /\ pid = None /\ up = "up" /\ current = 1 /\ handle = None
      /\ \A a \in Actor : actor[a].at = "idle"
      /\ \A c \in Codex : codex[c] = "none"
      /\ \A t \in Task : /\ task[t].at \in {"none", "begin"}
                         /\ task[t].at = "begin" => t = 1
  BY DEF Init, Idle, NoTask
<1>2. /\ TaskInv /\ HandleInv
  BY <1>1 DEF TaskInv, HandleInv, Live
<1>3. ActorInv /\ JoinInv /\ CalmInv /\ PidInv /\ SuspendInv
  BY <1>1 DEF ActorInv, JoinInv, CalmInv, PidInv, SuspendInv, Kills, Joins, Actor, Live
<1>4. StageInv
  <2>1. 1 \in Task /\ task[1].at = "begin"
    BY BoundAssumption DEF Init, Task, NoTask
  <2>2. QED
    BY <1>1, <2>1 DEF StageInv, Active, Live
<1>5. StopInv /\ OwnerInv /\ DownInv
  BY <1>1 DEF StopInv, OwnerInv, DownInv, Alive, Stopper, Actor, Kills
<1>6. QED
  BY <1>2, <1>3, <1>4, <1>5 DEF StrictInv

LEMMA OverInit == Init => OverInv
  BY DEF Init, OverInv, Terminal

LEMMA FreeStep ==
    ASSUME FreeInv, [Next]_vars
    PROVE  FreeInv'
  BY TypeStep, ShapeStep, ReaderStep, SteerStep, GateStep, CancelStep DEF FreeInv

LEMMA StrictStep ==
    ASSUME FreeInv, StrictInv, Windows \subseteq {"expiry"}, [Next]_vars
    PROVE  StrictInv'
  BY TaskStepped, HandleStep, ActorStepped, JoinStep, StopStep, CalmStep, StageStep,
     OwnerStep, DownStep, PidStep, SuspendStep
  DEF FreeInv, StrictInv

\* Tasks, requests, handle, processes and rows of a local Job fit together in every
\* state.
THEOREM Invariance == Spec => []IInv
<1>1. Init => IInv
  BY FreeInit, StrictInit, OverInit DEF IInv
<1>2. IInv /\ [Next]_vars => IInv'
  BY FreeStep, StrictStep, OverStep DEF IInv, FreeInv, StrictInv
<1>3. QED
  BY <1>1, <1>2, PTL DEF Spec

\* Every variable keeps its type.
THEOREM TypeCorrect == Spec => []TypeOK
<1>1. IInv => TypeOK
  BY DEF IInv, FreeInv
<1>2. QED
  BY <1>1, Invariance, PTL

\* However pause, resume, steering, Human Gate, quota, failed terminations, shutdown,
\* crash and restart interleave, at most one Codex of the Job is alive.
THEOREM TreeIsOwned == Spec => [](Windows \subseteq {"expiry"} => OneCodexInTree)
<1>1. ASSUME IInv, Windows \subseteq {"expiry"} PROVE OneCodexInTree
  <2>1. \A c, d \in Alive : c = d
    BY <1>1 DEF IInv, StrictInv, OwnerInv
  <2>2. CASE Alive = {}
    BY <2>2, FS_EmptySet DEF OneCodexInTree
  <2>3. CASE Alive # {}
    <3>1. PICK c \in Alive : Alive = {c}
      BY <2>1, <2>3
    <3>2. Cardinality(Alive) = 1
      BY <3>1, FS_Singleton
    <3>3. QED
      BY <3>2 DEF OneCodexInTree
  <2>4. QED
    BY <2>2, <2>3
<1>2. IInv => (Windows \subseteq {"expiry"} => OneCodexInTree)
  BY <1>1
<1>3. QED
  BY <1>2, Invariance, PTL

\* A Job that is over, and whose tree is free, has no live Codex, whoever ended it:
\* its task, a cancellation, an expired approval, a shutdown or the start-up.
THEOREM TreeIsFreed == Spec => [](Windows = {} => TerminalMeansStopped)
<1>1. IInv => (Windows = {} => TerminalMeansStopped)
  BY DEF IInv, OverInv, TerminalMeansStopped
<1>2. QED
  BY <1>1, Invariance, PTL

\* The row names the process of a turn that is waited for, or names none and leaves it to
\* a start-up that refuses or to somebody who is terminating it (_set_handle, and every
\* update(pid=None) that follows an awaited termination).
THEOREM RowIsTrue == Spec => [](Windows \subseteq {"expiry"} => RowLeadsToLiveTurn)
<1>1. ASSUME IInv, Windows \subseteq {"expiry"}, NEW t \in Task, task[t].at = "await",
             codex[task[t].codex] = "alive"
      PROVE  \/ pid = task[t].codex
             \/ pid = None /\ (Unrecorded \/ Doomed(task[t].codex) \/ failures # 0)
  <2>1. PidInv /\ SuspendInv
    BY <1>1 DEF IInv, StrictInv
  <2>2. pid \in {task[t].codex, None}
    BY <1>1, <2>1 DEF PidInv
  <2>3. failures = 0 => state \in {"RUNNING", "CANCELLING"} \/ Doomed(task[t].codex)
    BY <1>1, <2>1 DEF SuspendInv
  <2>4. QED
    BY <2>2, <2>3 DEF Unrecorded
<1>2. IInv => (Windows \subseteq {"expiry"} => RowLeadsToLiveTurn)
  BY <1>1 DEF RowLeadsToLiveTurn
<1>3. QED
  BY <1>2, Invariance, PTL

\* A suspended Job leaves no Codex to itself (pause, _stop_active_turn, cancel, and
\* the task that looks at the state once its turn is bound).
THEOREM SuspensionStops == Spec => [](Windows \subseteq {"expiry"} => SuspendedTurnIsStopped)
<1>1. ASSUME IInv, Windows \subseteq {"expiry"}, state \in Suspended, up = "up", failures = 0,
             NEW c \in Alive
      PROVE  \/ Doomed(c) \/ actor["cancel"].at = "look"
             \/ \E t \in Task : task[t].codex = c
                                /\ task[t].at \in {"spawned", "bind", "check"}
  <2>1. OwnerInv /\ SuspendInv
    BY <1>1 DEF IInv, StrictInv
  <2>2. ~Loose(c)
    BY <1>1 DEF Loose
  <2>3. PICK t \in Task : /\ task[t].codex = c
                          /\ task[t].at \in {"spawned", "bind", "check", "stop", "await"}
    BY <1>1, <2>1, <2>2 DEF OwnerInv, Owned
  <2>4. CASE task[t].at = "await"
    BY <1>1, <2>1, <2>3, <2>4 DEF SuspendInv, Alive, Suspended, Waiting
  <2>5. CASE task[t].at = "stop"
    BY <2>3, <2>5 DEF Doomed
  <2>6. QED
    BY <2>3, <2>4, <2>5
<1>2. IInv => (Windows \subseteq {"expiry"} => SuspendedTurnIsStopped)
  BY <1>1 DEF SuspendedTurnIsStopped
<1>3. QED
  BY <1>2, Invariance, PTL

\* While the Job is at work, an instruction that is still queued will be read at the end of
\* a turn (steer and _finish_or_continue under the Job's lock, and whoever starts a turn
\* waits for the task before).
THEOREM InstructionsAreRead == Spec => [](Windows \subseteq {"expiry"} => SteeringHasTurnAhead)
<1>1. ASSUME IInv, Windows \subseteq {"expiry"}, steering, up = "up",
             state \in Active \cup {"WAITING_AGENT"}
      PROVE  \E t \in Task :
                task[t].at \in {"begin", "ready", "spawned", "bind", "check", "await", "drain"}
  <2>1. StageInv /\ SteerInv /\ task \in [Task -> Turn]
    BY <1>1 DEF IInv, FreeInv, StrictInv, TypeOK
  <2>2. ~Locked /\ state \in Active
    BY <1>1, <2>1 DEF SteerInv
  <2>3. PICK t \in Task : Live(t)
    BY <1>1, <2>1, <2>2 DEF StageInv
  <2>4. task[t].at \notin {"none", "over", "stop", "end", "close"}
    BY <2>1, <2>2, <2>3 DEF StageInv, Live, Locked
  <2>5. QED
    BY <2>1, <2>4 DEF Turn
<1>2. IInv => (Windows \subseteq {"expiry"} => SteeringHasTurnAhead)
  BY <1>1 DEF SteeringHasTurnAhead
<1>3. QED
  BY <1>2, Invariance, PTL

\* A Job that waits for a human can be answered, is being answered, or expires
\* (_enter_human_gate, respond_approval, expire_approvals).
THEOREM GateStaysOpen == Spec => []GateCanBeAnswered
<1>1. IInv => GateCanBeAnswered
  BY DEF IInv, FreeInv
<1>2. QED
  BY <1>1, Invariance, PTL

\* A cancellation always has somebody who still has to finish it (cancel, shutdown).
THEOREM CancellationIsDriven == Spec => []CancellationProceeds
<1>1. IInv => CancellationProceeds
  BY DEF IInv, FreeInv
<1>2. QED
  BY <1>1, Invariance, PTL

=============================================================================
