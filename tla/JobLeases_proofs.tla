--------------------------- MODULE JobLeases_proofs -------------------------
(***************************************************************************)
(* Machine-checked proofs about JobLeases, for every set of Jobs, hosts,   *)
(* project sessions and concurrent requests, and every value of the        *)
(* bounds.  Jobs that were put to ASSIGNED although their state had        *)
(* changed since it was read (overtaken) are excepted throughout, as they  *)
(* are in the properties of JobLeases.                                     *)
(***************************************************************************)
EXTENDS JobLeases, TLAPS

USE DEF rows, memory, history, rigid

-----------------------------------------------------------------------------
(* The inductive invariant.                                                *)

Tree(j) == assigned[j] \in Host /\ lease[assigned[j]] = j
Owns(j) == Tree(j) /\ lock[owner[j]] = j
Landless(j) == \A h \in Host : lease[h] # j
Releasing == {"unlock", "unlease"}
Freed(j) ==
    /\ \A h \in Host : lease'[h] # j
    /\ \A i \in Job \ {j}, h \in Host : (lease'[h] = i) <=> (lease[h] = i)
\* The states of a Job that has come to start Codex, and the phases of its task.
BegunState == {"STARTING", "RUNNING", "WAITING_AGENT"} \cup Suspended
BegunPhase == {"starting", "resuming", "turn", "finish", "submit",
               "lost", "unprepared", "unsubmitted"}
\* An actor that creates its Job, and one that has assigned it or gives that up.
Creates(a) ==
    \/ act[a].at \in {"add", "place", "giveback"}
    \/ act[a].at \in {"commit", "queue", "begin"} /\ act[a].from = "QUEUED"
Assigns(a) == act[a].at \in {"session", "rollback", "queue", "begin"}

\* What an actor knows of its Job.
ActOK(a) ==
    /\ act[a].at # "idle" => act[a].job \in Job
    /\ act[a].at \in {"commit", "giveback", "session", "rollback", "queue", "begin"} =>
          act[a].from \in {"QUEUED", "WAITING_HOST", "WAITING_LEASE"}
    /\ act[a].at = "commit" => act[a].host \in Host
    /\ act[a].at \in {"session", "rollback"} => act[a].from # "QUEUED"
    /\ act[a].at = "giveback" => act[a].from = "QUEUED"
    /\ act[a].at = "commit" /\ act[a].held => act[a].from # "QUEUED"
    /\ act[a].mode = "FINALIZE" => act[a].job \in begun
    /\ act[a].at = "add" => state[act[a].job] = "none"
    /\ act[a].at \notin {"idle", "add"} => state[act[a].job] # "none"
    /\ act[a].at \in {"session", "begin"} => state[act[a].job] # "QUEUED"
    /\ act[a].at = "commit" /\ act[a].from # "QUEUED" => state[act[a].job] # "QUEUED"
ActInv == \A a \in Actor : ActOK(a)

\* Nothing runs while the Controller does not.
DownInv ==
    /\ controller # "up" =>
          (\A a \in Actor : act[a] = IdleAct) /\ (\A j \in Job : task[j] = "none")
    /\ controller = "starting" => \A j \in Job, h \in Host : lease[h] = j => Live(j)

\* Which Jobs have come to start Codex.
BegunOK(j) ==
    /\ (state[j] \in BegunState \/ task[j] \in BegunPhase \/ mode[j] = "FINALIZE") =>
          j \in begun
    /\ state[j] \in {"none", "QUEUED"} =>
          j \notin begun /\ assigned[j] = NoHost /\ Landless(j) /\ task[j] = "none"
BegunInv == \A j \in Job : BegunOK(j)

\* No two actors create the same Job.
CreateInv ==
    \A a, b \in Actor : a # b /\ act[a].job = act[b].job => ~(Creates(a) /\ Creates(b))

\* The state in which an actor finds the Job that it creates or assigns.
StateOK(a, j) ==
    LET at == act[a].at created == act[a].from = "QUEUED" IN
    /\ Creates(a) /\ at # "begin" => j \notin begun
    /\ at \in {"place", "giveback"} \/ (at \in {"commit", "queue"} /\ created) =>
          state[j] \in {"QUEUED", "CANCELLING", "CANCELLED"}
    /\ at \in {"session", "rollback", "begin"} \/ (at = "queue" /\ ~created) =>
          state[j] \in {"ASSIGNED", "CANCELLING", "CANCELLED"}
    /\ at \in Releasing => state[j] \in TerminalStates
StateInv == \A a \in Actor, j \in Job \ overtaken : act[a].job = j => StateOK(a, j)

\* One actor or the task has the Job that is ASSIGNED.
AssignInv ==
    \A a, b \in Actor, j \in Job \ overtaken :
        a # b /\ act[a].job = j /\ act[b].job = j /\ Assigns(a) /\ Assigns(b) =>
            state[j] # "ASSIGNED"
NewInv ==
    \A j \in Job \ overtaken : task[j] = "new" =>
        /\ state[j] \in {"ASSIGNED", "CANCELLING", "CANCELLED"}
        /\ state[j] = "ASSIGNED" =>
              Owns(j) /\ \A a \in Actor : act[a].job = j => ~Assigns(a)

\* What the Job holds at each phase of an actor.
HoldOK(a, j) ==
    LET at == act[a].at IN
    /\ at = "commit" /\ act[a].from = "QUEUED" /\ state[j] = "QUEUED" => lock[owner[j]] = j
    /\ at = "commit" /\ act[a].held =>
          act[a].from = "WAITING_HOST" /\ (state[j] = "WAITING_HOST" => ~Landless(j))
    /\ at = "session" /\ state[j] = "ASSIGNED" => Tree(j)
    /\ at = "begin" /\ state[j] = "ASSIGNED" => Owns(j)
    /\ at \in {"rollback", "queue"} => ~(j \in begun /\ Live(j))
    /\ at = "rollback" /\ state[j] = "ASSIGNED" => lock[owner[j]] # j
    /\ at = "queue" /\ state[j] \in {"QUEUED", "ASSIGNED"} =>
          Landless(j) /\ lock[owner[j]] # j
HoldInv == \A a \in Actor, j \in Job \ overtaken : act[a].job = j => HoldOK(a, j)

TaskInv ==
    \A j \in Job \ overtaken : task[j] \in Releasing => state[j] \in TerminalStates

IInv ==
    /\ TypeOK /\ ActInv /\ DownInv /\ BegunInv /\ CreateInv
    /\ StateInv /\ AssignInv /\ NewInv /\ HoldInv /\ TaskInv
    /\ LeaseHeldSinceStart /\ WaitingOwnsNothing /\ NoLeakedLease

-----------------------------------------------------------------------------
(* What the larger actions do.                                             *)

\* A request that places its Job makes it wait, returns, or goes on to assign it.
Waits(a, j, to) ==
    /\ state[j] \notin TerminalStates \cup {"none", "CANCELLING"}
    /\ state' = [state EXCEPT ![j] = to]
    /\ \E x \in Host \cup {NoHost} : assigned' = [assigned EXCEPT ![j] = x]
Enqueues(a) ==
    \/ act' = [act EXCEPT ![a] = IdleAct]
    \/ act' = [act EXCEPT ![a] =
                [at |-> "enqueue", job |-> @.job, host |-> NoHost, from |-> @.from,
                 held |-> @.held, mode |-> @.mode]]
Returns(a) == UNCHANGED <<state, assigned>> /\ act' = [act EXCEPT ![a] = IdleAct]
PlaceMove(a, j) ==
    /\ controller = "up" /\ act[a].at = "place" /\ act[a].job = j
    /\ UNCHANGED <<rigid, mode, lease, lock, controller, repairs, task, history>>
    /\ \/ Returns(a)
       \/ /\ UNCHANGED <<state, assigned>> /\ state[j] = "QUEUED" /\ lock[owner[j]] = j
          /\ \E h \in Host : act' = [act EXCEPT ![a] =
                [at |-> "commit", job |-> j, host |-> h, from |-> "QUEUED",
                 held |-> FALSE, mode |-> "none"]]
       \/ Waits(a, j, "WAITING_HOST") /\ act' = [act EXCEPT ![a].at = "record"]
       \/ Waits(a, j, "WAITING_LEASE") /\ lock[owner[j]] # j /\ Enqueues(a)

\* An assignment gives the tree to its Job, which goes on to its session or begins.
Assigned(a, j) ==
    /\ act'[a].job = j /\ act'[a].from = act[a].from /\ act'[a].mode = act[a].mode
    /\ act'[a].at = IF act[a].from = "QUEUED" \/ act[a].mode = "FINALIZE"
                    THEN "begin" ELSE "session"
    /\ \A c \in Actor \ {a} : act'[c] = act[c]
CommitMove(a, j) ==
    LET h == act[a].host IN
    /\ controller = "up" /\ act[a].at = "commit" /\ act[a].job = j /\ Assigned(a, j)
    /\ state[j] = act[a].from \/ j \in overtaken'
    /\ overtaken \subseteq overtaken' /\ overtaken' \subseteq overtaken \cup {j}
    /\ state'[j] = "ASSIGNED" /\ assigned'[j] = h
    /\ \A i \in Job \ {j} : state'[i] = state[i] /\ assigned'[i] = assigned[i]
    /\ \A g \in Host \ {h} : lease[g] # j /\ lease'[g] = lease[g]
    /\ lease[h] = NoJob \/ act[a].held
    /\ lease'[h] = IF act[a].held THEN lease[h] ELSE j
    /\ UNCHANGED <<rigid, mode, lock, controller, repairs, task, begun, crashes>>

\* A Job that gives up its assignment joins the queue, unless it was cancelled.
QueueMove(a, j) ==
    /\ controller = "up" /\ act[a].at = "queue" /\ act[a].job = j
    /\ UNCHANGED <<rigid, mode, lease, lock, controller, repairs, task, history>>
    /\ Returns(a) \/ (Waits(a, j, "WAITING_LEASE") /\ Enqueues(a))

\* A retry takes the Job as it is, on a host of the system.
RetryMove(a, j) ==
    /\ controller = "up" /\ act[a].at = "idle"
    /\ state[j] \in {"WAITING_LEASE", "WAITING_HOST"}
    /\ UNCHANGED <<rigid, state, assigned, lease, lock, controller, repairs, task, history>>
    /\ \E h \in Host, m \in {"START", "RESUME", "FINALIZE"} :
          /\ m = "FINALIZE" => j \in begun
          /\ mode' = mode \/ mode' = [mode EXCEPT ![j] = m]
          /\ act' = [act EXCEPT ![a] = [at |-> "commit", job |-> j, host |-> h,
                       from |-> state[j], held |-> ~Landless(j), mode |-> m]]

\* Only the lock of this Job may change.
Locks(j) == \A i \in Job \ {j}, s \in Session : (lock'[s] = i) <=> (lock[s] = i)
\* A request for a new Job locks the session of the Job, if it is free.
OpenMove(a, j) ==
    /\ controller = "up" /\ act[a].at = "idle" /\ state[j] = "none" /\ Locks(j)
    /\ \A b \in Actor : act[b].job # j
    /\ act' = [act EXCEPT ![a] = [at |-> "add", job |-> j, host |-> NoHost, from |-> "none",
                                 held |-> FALSE, mode |-> "none"]]
    /\ UNCHANGED <<rigid, state, assigned, mode, lease, controller, repairs, task, history>>
\* A retried Job has its session, or must give the tree back.
AcquireMove(a, j) ==
    /\ controller = "up" /\ act[a].at = "session" /\ act[a].job = j /\ Locks(j)
    /\ \/ lock'[owner[j]] = j /\ act' = [act EXCEPT ![a].at = "begin"]
       \/ /\ lock[owner[j]] \in Job \ {j} /\ UNCHANGED lock
          /\ act' = [act EXCEPT ![a].at = "rollback"]
    /\ UNCHANGED <<rigid, state, assigned, mode, lease, controller, repairs, task, history>>

\* A request gives back the session, or the tree, of its Job.
ReturnMove(a, j) ==
    /\ controller = "up" /\ act[a].job = j
    /\ \/ /\ Locks(j) /\ lock'[owner[j]] # j /\ UNCHANGED lease
          /\ \/ act[a].at = "giveback" /\ act' = [act EXCEPT ![a].at = "queue"]
             \/ act[a].at = "unlock" /\ act' = [act EXCEPT ![a].at = "unlease"]
       \/ /\ Freed(j) /\ UNCHANGED lock
          /\ \/ act[a].at = "rollback" /\ act' = [act EXCEPT ![a].at = "queue"]
             \/ act[a].at = "unlease" /\ act' = [act EXCEPT ![a] = IdleAct]
    /\ UNCHANGED <<rigid, state, assigned, mode, controller, repairs, task, history>>

\* A cancellation waits, is left to a Runner, or is confirmed.
CancelMove(a, j) ==
    /\ controller = "up" /\ act[a].at \in {"stop", "wait"} /\ act[a].job = j
    /\ UNCHANGED <<rigid, assigned, lease, lock, controller, repairs, history>>
    /\ \A i \in Job : task'[i] = task[i] \/ (i = j /\ task[j] = "turn" /\ task'[j] = "none")
    /\ \A i \in Job : mode'[i] = mode[i] \/ (i = j /\ mode'[j] \in {"none", "CANCEL"})
    /\ \/ /\ UNCHANGED state
          /\ act' = [act EXCEPT ![a] = IdleAct] \/ act' = [act EXCEPT ![a].at = "wait"]
       \/ /\ state[j] = "CANCELLING" /\ state' = [state EXCEPT ![j] = "CANCELLED"]
          /\ act' = [act EXCEPT ![a].at = "unlock"]

\* The task of a Job, a request that resumes it and its Runner move only that Job.
TaskMove(j) ==
    LET s == state'[j] t == task'[j] IN
    /\ controller = "up"
    /\ UNCHANGED <<rigid, assigned, controller, repairs, act, overtaken, crashes>>
    /\ \A i \in Job \ {j} : state'[i] = state[i] /\ task'[i] = task[i] /\ mode'[i] = mode[i]
    /\ mode'[j] = "FINALIZE" => j \in begun
    /\ \/ /\ UNCHANGED <<lease, lock>> /\ task[j] \notin Releasing
          /\ t # "new" \/ (task[j] = "new" /\ s = state[j])
          /\ task[j] = "none" /\ s = state[j] => t = "none"
          /\ s \in BegunState \/ t \in BegunPhase => j \in begun'
          /\ s \in TerminalStates /\ s # state[j] => t = "unlock"
          /\ t \in Releasing => s \in TerminalStates
          /\ \/ s = state[j] /\ begun' = begun
             \/ /\ state[j] = "ASSIGNED" /\ s = "STARTING" /\ task[j] = "new"
                /\ begun' = begun \cup {j}
             \/ /\ begun' = begun
                /\ \/ /\ state[j] \in BegunState
                      /\ s \in BegunState \cup TerminalStates \cup {"WAITING_HOST"}
                   \/ state[j] = "CANCELLING" /\ s = "CANCELLED"
                   \/ state[j] = "WAITING_HOST" /\ s = "RUNNING"
                   \/ /\ state[j] \in {"QUEUED", "WAITING_LEASE"} /\ s = "FAILED"
                      /\ task[j] \in {"new"} \cup BegunPhase
       \/ /\ s = state[j] /\ begun' = begun
          /\ \/ task[j] = "unlock" /\ t = "unlease" /\ Locks(j) /\ UNCHANGED lease
             \/ task[j] = "unlease" /\ t = "none" /\ Freed(j) /\ UNCHANGED lock

\* A start gives each tree to the Job that claims it, if any.
StartMove ==
    /\ controller \in {"down", "refused"} /\ controller' = "starting"
    /\ \A j \in Job, h \in Host : (lease'[h] = j) <=> Claims(j, h)
    /\ \A j \in Job, s \in Session : (lock'[s] = j) <=> (lock[s] = j /\ Live(j))
    /\ UNCHANGED <<rigid, state, assigned, mode, act, task, history>>

\* Placing a Job is such a move.
LEMMA PlaceMoves ==
    ASSUME TypeOK, ActInv, NEW a \in Actor, Place(a)
    PROVE  act[a].job \in Job /\ PlaceMove(a, act[a].job)
<1> DEFINE j == act[a].job
<1> USE DEF Returns, Waits, Enqueues
<1>1. controller = "up" /\ act[a].at = "place" /\ j \in Job /\ state[j] # "none"
  BY DEF Place, At, ActInv, ActOK
<1> DEFINE Stays == state[j] \in TerminalStates \cup {"none", "CANCELLING"}
<1>8. CanMove(state[j], "WAITING_HOST") \/ CanMove(state[j], "WAITING_LEASE") => ~Stays
  BY <1>1 DEF CanMove, Allowed, TerminalStates
<1>2. UNCHANGED <<rigid, mode, lease, lock, controller, repairs, task, history>>
  BY DEF Place
<1>3. Chosen(request[j]) \subseteq Host
  BY <1>1, InstanceAssumption DEF Chosen, TypeOK
<1>4. CASE WaitForHost(a)
  <2>1. request[j] \in Host \cup {AutoHost} /\ assigned[j] \in Host \cup {NoHost}
    BY <1>1, InstanceAssumption DEF TypeOK, RowsTypeOK
  <2>2. PICK x \in Host \cup {NoHost} :
           x = IF request[j] = AutoHost THEN assigned[j] ELSE request[j]
    BY <2>1
  <2>3. QED
    BY <1>1, <1>2, <1>4, <1>8, <2>2 DEF PlaceMove, WaitForHost, Moved, Move, Goto, Return
<1>5. ASSUME NEW h \in Host, lock[owner[j]] # j, WaitForLease(a, h)
      PROVE  Returns(a) \/ (Waits(a, j, "WAITING_LEASE") /\ Enqueues(a))
  BY <1>5, <1>8 DEF WaitForLease, Moved, Move, Return
<1>6. ASSUME NEW h \in Host, lock[owner[j]] = j, UNCHANGED <<state, assigned>>,
             IF state[j] = "QUEUED"
             THEN act' = [act EXCEPT ![a] = [IdleAct EXCEPT !.at = "commit",
                                    !.job = j, !.host = h, !.from = "QUEUED"]]
             ELSE Return(a)
      PROVE  /\ UNCHANGED <<state, assigned>>
             /\ \/ act' = [act EXCEPT ![a] = IdleAct]
                \/ /\ state[j] = "QUEUED" /\ lock[owner[j]] = j
                   /\ act' = [act EXCEPT ![a] =
                             [at |-> "commit", job |-> j, host |-> h, from |-> "QUEUED",
                              held |-> FALSE, mode |-> "none"]]
  <2>1. PICK r : r = [IdleAct EXCEPT !.at = "commit", !.job = j, !.host = h,
                                     !.from = "QUEUED"]
    OBVIOUS
  <2>2. r = [at |-> "commit", job |-> j, host |-> h, from |-> "QUEUED",
             held |-> FALSE, mode |-> "none"]
    BY <2>1 DEF IdleAct
  <2>3. CASE state[j] = "QUEUED"
    <3>1. act' = [act EXCEPT ![a] = r]
      BY <1>6, <2>1, <2>3
    <3>2. QED
      BY <1>6, <2>2, <2>3, <3>1
  <2>4. QED
    BY <1>6, <2>3 DEF Return
<1>7. QED
  <2> DEFINE Queues ==
         \E h \in Chosen(request[j]) : lock[owner[j]] # j /\ WaitForLease(a, h)
  <2>1. CASE Queues
    BY <1>1, <1>2, <1>3, <1>5, <2>1 DEF PlaceMove
  <2>2. CASE ~WaitForHost(a) /\ ~Queues
    BY <1>1, <1>2, <1>3, <1>6, <2>2 DEF Place, PlaceMove
  <2>3. QED
    BY <1>4, <2>1, <2>2

\* What an assignment does.
LEMMA CommitMoves ==
    ASSUME TypeOK, ActInv, NEW a \in Actor, AssignCommit(a)
    PROVE  act[a].job \in Job /\ act[a].host \in Host /\ CommitMove(a, act[a].job)
<1> DEFINE j == act[a].job h == act[a].host
<1>1. controller = "up" /\ act[a].at = "commit" /\ j \in Job /\ h \in Host
  BY DEF AssignCommit, At, ActInv, ActOK
<1>2. Assigned(a, j)
  BY DEF AssignCommit, Assigned, TypeOK, MemoryTypeOK
<1>3. /\ state'[j] = "ASSIGNED" /\ assigned'[j] = h
      /\ \A i \in Job \ {j} : state'[i] = state[i] /\ assigned'[i] = assigned[i]
  BY <1>1 DEF AssignCommit, Moved, Move, TypeOK, RowsTypeOK
<1>4. \A g \in Host \ {h} : lease[g] # j /\ lease'[g] = lease[g]
  BY <1>1 DEF AssignCommit, LeaseFree, TypeOK, RowsTypeOK
<1>5. (lease[h] = NoJob \/ act[a].held) /\ lease'[h] = IF act[a].held THEN lease[h] ELSE j
  BY <1>1 DEF AssignCommit, LeaseFree, TypeOK, RowsTypeOK
<1>6. /\ state[j] = act[a].from \/ j \in overtaken'
      /\ overtaken \subseteq overtaken' /\ overtaken' \subseteq overtaken \cup {j}
  <2>1. \A S, T, x : T = S \/ T = S \cup {x} => S \subseteq T /\ T \subseteq S \cup {x}
    OBVIOUS
  <2>2. overtaken' = overtaken \/ overtaken' = overtaken \cup {j}
    BY DEF AssignCommit
  <2>3. overtaken \subseteq overtaken' /\ overtaken' \subseteq overtaken \cup {j}
    BY <2>1, <2>2
  <2>4. state[j] = act[a].from \/ j \in overtaken'
    BY DEF AssignCommit
  <2>5. QED
    BY <2>3, <2>4
<1>7. UNCHANGED <<rigid, mode, lock, controller, repairs, task, begun, crashes>>
  BY DEF AssignCommit
<1>8. QED
  BY <1>1, <1>2, <1>3, <1>4, <1>5, <1>6, <1>7 DEF CommitMove

\* A Job that gives up its assignment makes such a move.
\* A Job that gives up its assignment makes such a move.
LEMMA QueueMoves ==
    ASSUME TypeOK, ActInv, NEW a \in Actor, Queue(a)
    PROVE  act[a].job \in Job /\ QueueMove(a, act[a].job)
<1> DEFINE j == act[a].job
<1>1. controller = "up" /\ act[a].at = "queue" /\ j \in Job /\ state[j] # "none"
  BY DEF Queue, At, ActInv, ActOK
<1>2. act[a].host \in Host \cup {NoHost}
  BY DEF TypeOK, MemoryTypeOK
<1>3. CASE CanMove(state[j], "WAITING_LEASE")
  <2>1. state[j] \notin TerminalStates \cup {"none", "CANCELLING"}
    BY <1>1, <1>3 DEF CanMove, Allowed, TerminalStates
  <2>2. Waits(a, j, "WAITING_LEASE") /\ Enqueues(a)
    BY <1>2, <1>3, <2>1 DEF Queue, Waits, Enqueues, WaitForLease, Moved, Move, Return
  <2>3. QED
    BY <1>1, <2>2 DEF Queue, QueueMove
<1>4. CASE ~CanMove(state[j], "WAITING_LEASE")
  BY <1>1, <1>4 DEF Queue, QueueMove, WaitForLease, Returns, Return
<1>5. QED
  BY <1>3, <1>4

\* A retry by hand and one of the scheduler are such moves.
LEMMA RetryMoves ==
    ASSUME TypeOK, BegunInv, NEW a \in Actor, NEW j \in Job,
           ManualRetry(a, j) \/ (a = Scheduler /\ ScheduledRetry(j))
    PROVE  RetryMove(a, j)
<1>1. ASSUME NEW m, Retry(a, j, m), m = "FINALIZE" => j \in begun,
             mode' = mode \/ mode' = [mode EXCEPT ![j] = m]
      PROVE  /\ state[j] \in {"WAITING_LEASE", "WAITING_HOST"}
             /\ UNCHANGED <<rigid, state, assigned, lease, lock, controller, repairs,
                            task, history>>
             /\ \E h \in Host :
                 /\ m \in {"START", "RESUME", "FINALIZE"}
                 /\ m = "FINALIZE" => j \in begun
                 /\ mode' = mode \/ mode' = [mode EXCEPT ![j] = m]
                 /\ act' = [act EXCEPT ![a] = [at |-> "commit", job |-> j, host |-> h,
                              from |-> state[j], held |-> ~Landless(j), mode |-> m]]
  <2>1. Chosen(AskedHost(j, m)) \subseteq Host
    BY InstanceAssumption, HostAssumption DEF Chosen, AskedHost, TypeOK, RowsTypeOK
  <2>2. (\E g \in Host : lease[g] = j) = ~Landless(j)
    BY DEF Landless
  <2>3. PICK h \in Chosen(AskedHost(j, m)) : act' = [act EXCEPT ![a] =
                    [at |-> "commit", job |-> j, host |-> h, from |-> state[j],
                     held |-> \E g \in Host : lease[g] = j, mode |-> m]]
    BY <1>1 DEF Retry
  <2>4. QED
    BY <1>1, <2>1, <2>2, <2>3 DEF Retry
<1>2. CASE ManualRetry(a, j)
  <2>1. PICK m \in IF mode[j] = "none" THEN OldMode(j) ELSE {mode[j]} :
             Retry(a, j, m) /\ Recorded(j, m)
    BY <1>2 DEF ManualRetry
  <2>2. m = "FINALIZE" => j \in begun
    BY <2>1 DEF OldMode, NewMode, BegunInv, BegunOK
  <2>3. mode' = [mode EXCEPT ![j] = m]
    BY <2>1 DEF Recorded
  <2>4. controller = "up" /\ act[a].at = "idle"
    BY <1>2 DEF ManualRetry, At
  <2>5. QED
    BY <1>1, <2>1, <2>2, <2>3, <2>4 DEF RetryMove
<1>3. CASE a = Scheduler /\ ScheduledRetry(j)
  <2>1. PICK m \in Records(j) : Retry(a, j, m) /\ mode' = mode
    BY <1>3 DEF ScheduledRetry
  <2>2. m = "FINALIZE" => j \in begun
    BY <2>1 DEF Records, OldMode, NewMode, BegunInv, BegunOK
  <2>3. QED
    BY <1>1, <1>3, <2>1, <2>2 DEF RetryMove, ScheduledRetry, At
<1>4. QED
  BY <1>2, <1>3

\* The release of a lease frees the trees of its Job and no other.
LEMMA UnleasedFrees ==
    ASSUME NEW j \in Job, Unleased(j)
    PROVE  Freed(j)
  BY JobAssumption DEF Unleased, Freed

\* The release of a lock gives back the session of its Job and no other.
LEMMA UnlockedFrees ==
    ASSUME NEW j \in Job, TypeOK, Unlocked(j)
    PROVE  Locks(j) /\ lock'[owner[j]] # j
  BY JobAssumption DEF Unlocked, Locks, TypeOK, RowsTypeOK

\* Opening a session moves only the lock of the Job.
\* Opening a session moves only the lock of the Job.
LEMMA OpenMoves ==
    ASSUME TypeOK, NEW a \in Actor, NEW j \in Job, OpenSession(a, j)
    PROVE  OpenMove(a, j)
<1>1. PICK r : r = [IdleAct EXCEPT !.at = "add", !.job = j]
  OBVIOUS
<1>2. r = [at |-> "add", job |-> j, host |-> NoHost, from |-> "none", held |-> FALSE,
           mode |-> "none"]
  BY <1>1 DEF IdleAct
<1>3. Locks(j)
  BY JobAssumption DEF OpenSession, Locks, TypeOK, RowsTypeOK
<1>4. act' = [act EXCEPT ![a] = r]
  BY <1>1 DEF OpenSession
<1>5. QED
  BY <1>2, <1>3, <1>4 DEF OpenSession, OpenMove, At

\* The session of a retried Job is locked for it, or is another Job's.
\* The session of a retried Job is locked for it, or is another Job's.
LEMMA AcquireMoves ==
    ASSUME TypeOK, ActInv, NEW a \in Actor, AcquireSession(a)
    PROVE  act[a].job \in Job /\ AcquireMove(a, act[a].job)
<1>1. act[a].job \in Job
  BY DEF AcquireSession, At, ActInv, ActOK
<1>2. owner[act[a].job] \in Session /\ lock[owner[act[a].job]] \in Job \cup {NoJob}
  BY <1>1 DEF TypeOK, RowsTypeOK
<1>3. Locks(act[a].job)
  BY <1>1, <1>2, JobAssumption DEF AcquireSession, Locks, TypeOK, RowsTypeOK
<1>4. QED
  BY <1>1, <1>2, <1>3 DEF AcquireSession, AcquireMove, At, Goto, TypeOK, RowsTypeOK

\* No two Jobs claim a tree when a start is not refused, so each claim is granted.
LEMMA StartMoves ==
    ASSUME Start
    PROVE  StartMove
<1>0. SUFFICES ASSUME NEW j \in Job, NEW h \in Host PROVE (lease'[h] = j) <=> Claims(j, h)
  BY JobAssumption DEF Start, StartMove
<1>1. lease'[h] = Claimant(h)
  BY DEF Start
<1>2. \A i \in Job : i # j => ~(Claims(i, h) /\ Claims(j, h))
  BY DEF Start, Conflict
<1>3. CASE \E i \in Job : Claims(i, h)
  <2>1. (CHOOSE i \in Job : Claims(i, h)) \in {i \in Job : Claims(i, h)}
    BY <1>3
  <2>2. QED
    BY <1>1, <1>2, <1>3, <2>1 DEF Claimant
<1>4. CASE ~\E i \in Job : Claims(i, h)
  BY <1>1, <1>4, JobAssumption DEF Claimant
<1>5. QED
  BY <1>3, <1>4

\* Giving back the session, rolling the lease back and the releases of a cancellation
\* are such moves.
\* Giving back the session, rolling the lease back and the releases of a cancellation
\* are such moves.
LEMMA ReturnMoves ==
    ASSUME TypeOK, ActInv, NEW a \in Actor,
           GiveBackSession(a) \/ Rollback(a) \/ ReleaseCancelled(a)
    PROVE  act[a].job \in Job /\ ReturnMove(a, act[a].job)
<1>1. act[a].job \in Job
  BY DEF GiveBackSession, Rollback, ReleaseCancelled, At, ActInv, ActOK
<1>2. CASE GiveBackSession(a)
  BY <1>1, <1>2, UnlockedFrees DEF GiveBackSession, At, Goto, ReturnMove
<1>3. CASE Rollback(a)
  BY <1>1, <1>3, UnleasedFrees DEF Rollback, At, Goto, ReturnMove
<1>4. CASE ReleaseCancelled(a)
  BY <1>1, <1>4, UnlockedFrees, UnleasedFrees
     DEF ReleaseCancelled, At, Goto, Return, ReturnMove
<1>5. QED
  BY <1>2, <1>3, <1>4

\* The steps of a cancellation up to its confirmation are such moves.
\* The steps of a cancellation up to its confirmation are such moves.
LEMMA CancelMoves ==
    ASSUME TypeOK, ActInv, NEW a \in Actor, StopTurn(a) \/ NoHandle(a) \/ TaskOver(a)
    PROVE  act[a].job \in Job /\ CancelMove(a, act[a].job)
<1>1. act[a].job \in Job
  BY DEF StopTurn, NoHandle, TaskOver, At, ActInv, ActOK
<1> USE DEF CancelMove, At, TypeOK, RowsTypeOK, MemoryTypeOK
<1>2. CASE StopTurn(a)
  BY <1>1, <1>2 DEF StopTurn, Confirm, Goto, Return, Recorded, Move
<1>3. CASE NoHandle(a)
  BY <1>1, <1>3 DEF NoHandle, Goto
<1>4. CASE TaskOver(a)
  BY <1>1, <1>4 DEF TaskOver, Confirm, Goto, Return, Recorded, Move
<1>5. QED
  BY <1>2, <1>3, <1>4

\* Every step of a task, of a request that resumes the Job and of its Runner is one.
LEMMA TaskMoves ==
    ASSUME TypeOK, BegunInv, NEW j \in Job,
           \/ Work(j) \/ EndTurn(j) \/ Resume(j) \/ ExpireApproval(j) \/ RunnerReport(j)
    PROVE  TaskMove(j)
<1> USE InstanceAssumption
    DEF TaskMove, TypeOK, RowsTypeOK, MemoryTypeOK, BegunInv, BegunOK, BegunState,
        BegunPhase, Releasing, JobState, TerminalStates, WaitingStates, Suspended,
        TaskPhase, Mode, CanMove, Allowed
<1>1. CASE StartTask(j)
  BY <1>1 DEF StartTask, Phase, Move, Then, Fails, Leaves, Ends, SameRows, Kept
<1>2. CASE SpawnTurn(j)
  BY <1>2 DEF SpawnTurn, Phase, Ends, QuotaOut, Fails, Leaves, Then, Move, Recorded,
     SameRows, Remote, Kept
<1>3. CASE ResumeTurn(j)
  BY <1>3 DEF ResumeTurn, Phase, Ends, QuotaOut, Leaves, Then, Move, Recorded,
     SameRows, Remote
<1>4. CASE Finalize(j)
  BY <1>4 DEF Finalize, Phase, Ends, Then, Move, Recorded, SameRows, Remote
<1>5. CASE FinalizeRefused(j)
  BY <1>5 DEF FinalizeRefused, Phase, Fails, Ends, Leaves, Then, Move, Recorded,
     SameRows, Kept
<1>6. CASE RecordLoss(j)
  BY <1>6 DEF RecordLoss, Phase, Recorded, Then, SameRows
<1>7. CASE ReleaseTask(j)
  BY <1>7, UnleasedFrees, UnlockedFrees DEF ReleaseTask, Phase, Then, Recorded
<1>8. CASE EndTurn(j)
  BY <1>8 DEF EndTurn, Phase, Ends, Fails, Leaves, Then, Move, Recorded, SameRows,
     Remote, Kept
<1>9. CASE Resume(j)
  BY <1>9 DEF Resume, Phase, Ends, Then, Move, Recorded, SameRows, Remote
<1>10. CASE ExpireApproval(j)
  BY <1>10 DEF ExpireApproval, Phase, Ends, Then, Move, Recorded, SameRows
<1>11. CASE Adopt(j)
  BY <1>11 DEF Adopt, Phase, Ends, Then, Move, Recorded, SameRows, Remote
<1>12. CASE ConfirmAbsent(j)
  BY <1>12 DEF ConfirmAbsent, Phase, Recorded, SameRows
<1>13. CASE CancelAdopted(j)
  BY <1>13 DEF CancelAdopted, Phase, Move, Recorded, Then, SameRows, Remote
<1>14. QED
  BY <1>1, <1>2, <1>3, <1>4, <1>5, <1>6, <1>7, <1>8, <1>9, <1>10, <1>11, <1>12, <1>13
     DEF Work, RunnerReport

-----------------------------------------------------------------------------
(* The steps of the system, in terms of these moves.                       *)

Placing(a) ==
    \/ AddJob(a) \/ PlaceMove(a, act[a].job) \/ RecordHostWait(a)
    \/ AssignRefused(a) \/ AssignBusy(a) \/ Enqueue(a)
Assigning(a) ==
    \/ AssignCommit(a) \/ AcquireMove(a, act[a].job) \/ QueueMove(a, act[a].job) \/ Begin(a)
Requesting(a, j) == OpenMove(a, j) \/ RetryMove(a, j) \/ CancelRequest(a, j)
Tidying(j) == ForgetFinished(j) \/ Repair(j)
Restarting == Crash \/ RefuseStart \/ StartMove \/ Ready \/ UNCHANGED vars

NextMove ==
    \/ \E a \in Actor :
          \/ Placing(a) \/ Assigning(a)
          \/ act[a].job \in Job /\ (CancelMove(a, act[a].job) \/ ReturnMove(a, act[a].job))
    \/ \E a \in Actor, j \in Job : Requesting(a, j)
    \/ \E j \in Job : TaskMove(j) \/ Tidying(j)
    \/ Restarting

\* Every step of the system is one of these.
\* Every step of the system is one of these.
LEMMA NextMoves ==
    ASSUME TypeOK, ActInv, BegunInv, [Next]_vars
    PROVE  NextMove
<1>1. ASSUME NEW a \in Actor, Proceed(a) PROVE NextMove
  BY <1>1, PlaceMoves, QueueMoves, AcquireMoves, ReturnMoves, CancelMoves
     DEF Proceed, NextMove, Placing, Assigning
<1>2. ASSUME NEW a \in Actor, NEW j \in Job, Request(a, j) PROVE NextMove
  <2>1. Requesting(a, j)
    <3>1. CASE OpenSession(a, j)
      BY <3>1, OpenMoves DEF Requesting
    <3>2. CASE ManualRetry(a, j)
      BY <3>2, RetryMoves DEF Requesting
    <3>3. QED
      BY <1>2, <3>1, <3>2 DEF Request, Requesting
  <2>2. QED
    BY <2>1 DEF NextMove
<1>3. ASSUME NEW j \in Job,
             \/ Work(j) \/ EndTurn(j) \/ Resume(j) \/ ExpireApproval(j) \/ RunnerReport(j)
      PROVE  NextMove
  BY <1>3, TaskMoves DEF NextMove
<1>4. ASSUME NEW j \in Job, ScheduledRetry(j) PROVE NextMove
  BY <1>4, RetryMoves DEF NextMove, Requesting, Actor
<1>5. ASSUME NEW j \in Job, ForgetFinished(j) \/ Repair(j) PROVE NextMove
  BY <1>5 DEF NextMove, Tidying
<1>6. CASE Crash \/ RefuseStart \/ Start \/ Ready \/ UNCHANGED vars
  BY <1>6, StartMoves DEF NextMove, Restarting
<1>7. QED
  BY <1>1, <1>2, <1>3, <1>4, <1>5, <1>6 DEF Next

-----------------------------------------------------------------------------
(* Types.                                                                  *)

\* What an actor is doing, and to which Job.
ActType == [at : ActPhase, job : Job \cup {NoJob}, host : Host \cup {NoHost},
            from : JobState \cup {"none"}, held : BOOLEAN, mode : Mode \cup {"none"}]
\* Everything but the rows and the phases of the actors.
RestTypeOK ==
    /\ owner \in [Job -> Session] /\ request \in [Job -> Requestable]
    /\ controller \in {"down", "starting", "up", "refused"} /\ repairs \subseteq Job
    /\ task \in [Job -> TaskPhase]
    /\ begun \subseteq Job /\ overtaken \subseteq Job /\ crashes \in Nat

\* The rows stay well formed.
LEMMA RowsTyped ==
    ASSUME TypeOK, ActInv, [Next]_vars
    PROVE  RowsTypeOK'
<1> USE JobAssumption, InstanceAssumption, HostAssumption DEF TypeOK, RowsTypeOK,
   MemoryTypeOK, ActInv, ActPhase, TaskPhase, Mode, IdleAct, JobState, TerminalStates,
   WaitingStates, Suspended
<1>1. ASSUME NEW a \in Actor, AddJob(a) \/ RecordHostWait(a) \/ Enqueue(a)
      PROVE  RowsTypeOK'
  BY <1>1 DEF AddJob, Move, Goto, At, RecordHostWait, Recorded, Return, NewMode, Enqueue
<1>2. ASSUME NEW a \in Actor, Place(a)
      PROVE  RowsTypeOK'
  <2>1. act[a].job \in Job /\ PlaceMove(a, act[a].job)
    BY <1>2, PlaceMoves
  <2>2. state' \in [Job -> JobState \cup {"none"}]
    BY <2>1 DEF PlaceMove, Returns, Waits, Enqueues
  <2>3. assigned' \in [Job -> Host \cup {NoHost}]
    BY <2>1 DEF PlaceMove, Returns, Waits, Enqueues
  <2>4. mode' \in [Job -> Mode \cup {"none"}]
    BY <2>1 DEF PlaceMove, Returns, Waits, Enqueues
  <2>5. lease' \in [Host -> Job \cup {NoJob}]
    BY <2>1 DEF PlaceMove, Returns, Waits, Enqueues
  <2>6. lock' \in [Session -> Job \cup {NoJob}]
    BY <2>1 DEF PlaceMove, Returns, Waits, Enqueues
  <2>7. QED
    BY <2>2, <2>3, <2>4, <2>5, <2>6
<1>3. ASSUME NEW a \in Actor,
             AssignCommit(a) \/ AssignRefused(a) \/ AssignBusy(a) \/ GiveBackSession(a)
      PROVE  RowsTypeOK'
  BY <1>3 DEF AssignCommit, LeaseFree, Moved, Move, At, AssignRefused, Return,
     AssignBusy, Goto, GiveBackSession, Unlocked
<1>4. ASSUME NEW a \in Actor, AcquireSession(a) \/ Rollback(a)
      PROVE  RowsTypeOK'
  BY <1>4 DEF AcquireSession, Goto, At, Rollback, Unleased
<1>5. ASSUME NEW a \in Actor, Queue(a) \/ Begin(a)
      PROVE  RowsTypeOK'
  BY <1>5 DEF Queue, WaitForLease, Moved, Move, Return, At, Begin, Then, Recorded, ActOK
<1>6. ASSUME NEW a \in Actor, StopTurn(a) \/ TaskOver(a)
      PROVE  RowsTypeOK'
  BY <1>6 DEF StopTurn, Confirm, Recorded, Move, Goto, Return, At, Remote, TaskOver
<1>7. ASSUME NEW a \in Actor, NoHandle(a) \/ ReleaseCancelled(a)
      PROVE  RowsTypeOK'
  BY <1>7 DEF NoHandle, Goto, At, ReleaseCancelled, Unlocked, Unleased, Return
<1>8. ASSUME NEW a \in Actor, NEW j \in Job,
             OpenSession(a, j) \/ ManualRetry(a, j) \/ CancelRequest(a, j)
      PROVE  RowsTypeOK'
  BY <1>8 DEF OpenSession, At, ManualRetry, Retry, AskedHost, Chosen, Recorded, OldMode,
     NewMode, CancelRequest, Move, Live
<1>9. ASSUME NEW j \in Job, StartTask(j) \/ SpawnTurn(j) \/ ResumeTurn(j)
      PROVE  RowsTypeOK'
  BY <1>9 DEF StartTask, Phase, Move, Then, Fails, Leaves, Ends, SameRows, Kept,
     SpawnTurn, QuotaOut, Recorded, Remote, ResumeTurn
<1>10. ASSUME NEW j \in Job,
             Finalize(j) \/ FinalizeRefused(j) \/ RecordLoss(j) \/ ReleaseTask(j)
      PROVE  RowsTypeOK'
  BY <1>10 DEF Finalize, Phase, Ends, Then, Move, Recorded, SameRows, Remote,
     FinalizeRefused, Fails, Leaves, Kept, RecordLoss, ReleaseTask, Unlocked, Unleased
<1>11. ASSUME NEW j \in Job, EndTurn(j) \/ Resume(j) \/ ExpireApproval(j)
      PROVE  RowsTypeOK'
  BY <1>11 DEF EndTurn, Phase, Ends, Fails, Leaves, Then, Move, Recorded, SameRows,
     Remote, Kept, Resume, ExpireApproval
<1>12. ASSUME NEW j \in Job, Adopt(j) \/ ConfirmAbsent(j) \/ CancelAdopted(j)
      PROVE  RowsTypeOK'
  <2>1. state' \in [Job -> JobState \cup {"none"}]
    BY <1>12 DEF Adopt, Phase, Ends, Then, Move, Recorded, SameRows, Remote,
       ConfirmAbsent, CancelAdopted
  <2>2. assigned' \in [Job -> Host \cup {NoHost}]
    BY <1>12 DEF Adopt, Phase, Ends, Then, Move, Recorded, SameRows, Remote,
       ConfirmAbsent, CancelAdopted
  <2>3. mode' \in [Job -> Mode \cup {"none"}]
    BY <1>12 DEF Adopt, Phase, Ends, Then, Move, Recorded, SameRows, Remote,
       ConfirmAbsent, CancelAdopted
  <2>4. lease' \in [Host -> Job \cup {NoJob}]
    BY <1>12 DEF Adopt, Phase, Ends, Then, Move, Recorded, SameRows, Remote,
       ConfirmAbsent, CancelAdopted
  <2>5. lock' \in [Session -> Job \cup {NoJob}]
    BY <1>12 DEF Adopt, Phase, Ends, Then, Move, Recorded, SameRows, Remote,
       ConfirmAbsent, CancelAdopted
  <2>6. QED
    BY <2>1, <2>2, <2>3, <2>4, <2>5
<1>13. ASSUME NEW j \in Job, ScheduledRetry(j) \/ ForgetFinished(j) \/ Repair(j)
      PROVE  RowsTypeOK'
  <2>1. state' \in [Job -> JobState \cup {"none"}]
    BY <1>13 DEF ScheduledRetry, At, Records, Retry, AskedHost, Chosen, OldMode,
       NewMode, ForgetFinished, Recorded, Live, Repair, Move, Unlocked, Unleased, Remote
  <2>2. assigned' \in [Job -> Host \cup {NoHost}]
    BY <1>13 DEF ScheduledRetry, At, Records, Retry, AskedHost, Chosen, OldMode,
       NewMode, ForgetFinished, Recorded, Live, Repair, Move, Unlocked, Unleased, Remote
  <2>3. mode' \in [Job -> Mode \cup {"none"}]
    BY <1>13 DEF ScheduledRetry, At, Records, Retry, AskedHost, Chosen, OldMode,
       NewMode, ForgetFinished, Recorded, Live, Repair, Move, Unlocked, Unleased, Remote
  <2>4. lease' \in [Host -> Job \cup {NoJob}]
    BY <1>13 DEF ScheduledRetry, At, Records, Retry, AskedHost, Chosen, OldMode,
       NewMode, ForgetFinished, Recorded, Live, Repair, Move, Unlocked, Unleased, Remote
  <2>5. lock' \in [Session -> Job \cup {NoJob}]
    BY <1>13 DEF ScheduledRetry, At, Records, Retry, AskedHost, Chosen, OldMode,
       NewMode, ForgetFinished, Recorded, Live, Repair, Move, Unlocked, Unleased, Remote
  <2>6. QED
    BY <2>1, <2>2, <2>3, <2>4, <2>5
<1>14. CASE Crash \/ RefuseStart \/ Start \/ Ready \/ UNCHANGED vars
  BY <1>14 DEF Crash, RefuseStart, Start, Claimant, Live, Ready, vars
<1>15. QED
  BY <1>1, <1>2, <1>3, <1>4, <1>5, <1>6, <1>7, <1>8, <1>9, <1>10, <1>11, <1>12, <1>13,
     <1>14
     DEF Next, Proceed, Request, Work, RunnerReport

\* So does everything else but the phases of the actors.
LEMMA RestTyped ==
    ASSUME TypeOK, ActInv, [Next]_vars
    PROVE  RestTypeOK'
<1> USE JobAssumption, InstanceAssumption, HostAssumption DEF TypeOK, RowsTypeOK,
   MemoryTypeOK, ActInv, ActPhase, TaskPhase, Mode, IdleAct, JobState, TerminalStates,
   WaitingStates, Suspended, RestTypeOK
<1>1. ASSUME NEW a \in Actor, AddJob(a) \/ RecordHostWait(a) \/ Enqueue(a)
      PROVE  RestTypeOK'
  BY <1>1 DEF AddJob, Move, Goto, At, RecordHostWait, Recorded, Return, NewMode, Enqueue
<1>2. ASSUME NEW a \in Actor, Place(a)
      PROVE  RestTypeOK'
  <2>1. act[a].job \in Job /\ PlaceMove(a, act[a].job)
    BY <1>2, PlaceMoves
  <2>2. owner' \in [Job -> Session] /\ request' \in [Job -> Requestable]
    BY <2>1 DEF PlaceMove, Returns, Waits, Enqueues
  <2>3. controller' \in {"down", "starting", "up", "refused"} /\ repairs' \subseteq Job
    BY <2>1 DEF PlaceMove, Returns, Waits, Enqueues
  <2>4. task' \in [Job -> TaskPhase]
    BY <2>1 DEF PlaceMove, Returns, Waits, Enqueues
  <2>5. begun' \subseteq Job /\ overtaken' \subseteq Job /\ crashes' \in Nat
    BY <2>1 DEF PlaceMove, Returns, Waits, Enqueues
  <2>6. QED
    BY <2>2, <2>3, <2>4, <2>5
<1>3. ASSUME NEW a \in Actor,
             AssignCommit(a) \/ AssignRefused(a) \/ AssignBusy(a) \/ GiveBackSession(a)
      PROVE  RestTypeOK'
  <2>1. CASE AssignCommit(a)
    <3> act[a].job \in Job
      BY <2>1, CommitMoves
    <3>1. owner' \in [Job -> Session] /\ request' \in [Job -> Requestable]
      BY <2>1 DEF AssignCommit, rigid
    <3>2. /\ controller' \in {"down", "starting", "up", "refused"} /\ repairs' \subseteq Job
          /\ task' \in [Job -> TaskPhase]
      BY <2>1 DEF AssignCommit
    <3>3. begun' \subseteq Job /\ crashes' \in Nat
      BY <2>1 DEF AssignCommit
    <3>4. overtaken' \subseteq overtaken \cup {act[a].job}
      BY <2>1, CommitMoves DEF CommitMove
    <3>5. QED
      BY <3>1, <3>2, <3>3, <3>4
  <2>2. CASE AssignRefused(a) \/ AssignBusy(a) \/ GiveBackSession(a)
    BY <2>2 DEF AssignRefused, Return, At, AssignBusy, LeaseFree, Goto, GiveBackSession,
       Unlocked
  <2>3. QED
    BY <1>3, <2>1, <2>2
<1>4. ASSUME NEW a \in Actor, AcquireSession(a) \/ Rollback(a)
      PROVE  RestTypeOK'
  BY <1>4 DEF AcquireSession, Goto, At, Rollback, Unleased
<1>5. ASSUME NEW a \in Actor, Queue(a) \/ Begin(a)
      PROVE  RestTypeOK'
  BY <1>5 DEF Queue, WaitForLease, Moved, Move, Return, At, Begin, Then, Recorded, ActOK
<1>6. ASSUME NEW a \in Actor, StopTurn(a) \/ TaskOver(a)
      PROVE  RestTypeOK'
  BY <1>6 DEF StopTurn, Confirm, Recorded, Move, Goto, Return, At, Remote, TaskOver
<1>7. ASSUME NEW a \in Actor, NoHandle(a) \/ ReleaseCancelled(a)
      PROVE  RestTypeOK'
  BY <1>7 DEF NoHandle, Goto, At, ReleaseCancelled, Unlocked, Unleased, Return
<1>8. ASSUME NEW a \in Actor, NEW j \in Job,
             OpenSession(a, j) \/ ManualRetry(a, j) \/ CancelRequest(a, j)
      PROVE  RestTypeOK'
  BY <1>8 DEF OpenSession, At, ManualRetry, Retry, AskedHost, Chosen, Recorded, OldMode,
     NewMode, CancelRequest, Move, Live
<1>9. ASSUME NEW j \in Job, StartTask(j) \/ SpawnTurn(j) \/ ResumeTurn(j)
      PROVE  RestTypeOK'
  BY <1>9 DEF StartTask, Phase, Move, Then, Fails, Leaves, Ends, SameRows, Kept,
     SpawnTurn, QuotaOut, Recorded, Remote, ResumeTurn
<1>10. ASSUME NEW j \in Job,
             Finalize(j) \/ FinalizeRefused(j) \/ RecordLoss(j) \/ ReleaseTask(j)
      PROVE  RestTypeOK'
  BY <1>10 DEF Finalize, Phase, Ends, Then, Move, Recorded, SameRows, Remote,
     FinalizeRefused, Fails, Leaves, Kept, RecordLoss, ReleaseTask, Unlocked, Unleased
<1>11. ASSUME NEW j \in Job, EndTurn(j) \/ Resume(j) \/ ExpireApproval(j)
      PROVE  RestTypeOK'
  BY <1>11 DEF EndTurn, Phase, Ends, Fails, Leaves, Then, Move, Recorded, SameRows,
     Remote, Kept, Resume, ExpireApproval
<1>12. ASSUME NEW j \in Job, Adopt(j) \/ ConfirmAbsent(j) \/ CancelAdopted(j)
      PROVE  RestTypeOK'
  BY <1>12 DEF Adopt, Phase, Ends, Then, Move, Recorded, SameRows, Remote,
     ConfirmAbsent, CancelAdopted
<1>13. ASSUME NEW j \in Job, ScheduledRetry(j) \/ ForgetFinished(j) \/ Repair(j)
      PROVE  RestTypeOK'
  BY <1>13 DEF ScheduledRetry, At, Records, Retry, AskedHost, Chosen, OldMode, NewMode,
     ForgetFinished, Recorded, Live, Repair, Move, Unlocked, Unleased, Remote
<1>14. CASE Crash \/ RefuseStart \/ Start \/ Ready \/ UNCHANGED vars
  BY <1>14 DEF Crash, RefuseStart, Start, Claimant, Live, Ready, vars
<1>15. QED
  BY <1>1, <1>2, <1>3, <1>4, <1>5, <1>6, <1>7, <1>8, <1>9, <1>10, <1>11, <1>12, <1>13,
     <1>14
     DEF Next, Proceed, Request, Work, RunnerReport

\* The phases of the actors stay well formed.
LEMMA ActTyped ==
    ASSUME TypeOK, ActInv, NextMove
    PROVE  act' \in [Actor -> ActType]
<1> IdleAct \in ActType
  BY DEF IdleAct, ActType, ActPhase
<1> USE DEF TypeOK, RowsTypeOK, MemoryTypeOK, ActInv, ActOK, ActType, ActPhase, Mode,
   JobState, TerminalStates, WaitingStates, Suspended
<1>1. ASSUME NEW a \in Actor, Placing(a) PROVE act' \in [Actor -> ActType]
  <2>1. CASE AddJob(a)
    BY <2>1 DEF AddJob, Move, Goto, At
  <2>2. CASE PlaceMove(a, act[a].job)
    <3>1. \/ act' = [act EXCEPT ![a] = IdleAct] \/ act' = [act EXCEPT ![a].at = "record"]
          \/ act' = [act EXCEPT ![a] =
                   [at |-> "enqueue", job |-> @.job, host |-> NoHost, from |-> @.from,
                    held |-> @.held, mode |-> @.mode]]
          \/ \E h \in Host : act' = [act EXCEPT ![a] =
                [at |-> "commit", job |-> act[a].job, host |-> h, from |-> "QUEUED",
                 held |-> FALSE, mode |-> "none"]]
      BY <2>2 DEF PlaceMove, Returns, Enqueues
    <3>2. act[a].job \in Job \cup {NoJob}
      OBVIOUS
    <3>3. \A h \in Host :
             [at |-> "commit", job |-> act[a].job, host |-> h, from |-> "QUEUED",
              held |-> FALSE, mode |-> "none"] \in ActType
      BY <3>2
    <3>4. CASE \E r \in ActType : act' = [act EXCEPT ![a] = r]
      BY <3>4
    <3>5. CASE \/ act' = [act EXCEPT ![a] = IdleAct]
               \/ act' = [act EXCEPT ![a].at = "record"]
               \/ act' = [act EXCEPT ![a] =
                   [at |-> "enqueue", job |-> @.job, host |-> NoHost, from |-> @.from,
                    held |-> @.held, mode |-> @.mode]]
      BY <3>5
    <3>6. QED
      BY <3>1, <3>3, <3>4, <3>5, Zenon
  <2>3. CASE RecordHostWait(a)
    BY <2>3 DEF RecordHostWait, Recorded, Return, At, NewMode
  <2>4. CASE AssignRefused(a) \/ AssignBusy(a) \/ Enqueue(a)
    BY <2>4 DEF AssignRefused, Return, At, AssignBusy, LeaseFree, Goto, Enqueue,
       Recorded, NewMode
  <2>5. QED
    BY <1>1, <2>1, <2>2, <2>3, <2>4 DEF Placing
<1>2. ASSUME NEW a \in Actor, Assigning(a) PROVE act' \in [Actor -> ActType]
  <2>1. CASE AssignCommit(a)
    BY <2>1 DEF AssignCommit, LeaseFree, Moved, Move, At
  <2>2. CASE AcquireMove(a, act[a].job)
    <3>1. \E p \in {"begin", "rollback"} : act' = [act EXCEPT ![a].at = p]
      BY <2>2 DEF AcquireMove
    <3>2. QED
      BY <3>1
  <2>3. CASE QueueMove(a, act[a].job) \/ Begin(a)
    BY <2>3 DEF QueueMove, Returns, Waits, Enqueues, Begin, Then, Recorded, Move,
       Return, At
  <2>4. QED
    BY <1>2, <2>1, <2>2, <2>3 DEF Assigning
<1>3. ASSUME NEW a \in Actor, act[a].job \in Job, CancelMove(a, act[a].job)
      PROVE  act' \in [Actor -> ActType]
  <2>1. \/ \E p \in {"wait", "unlock"} : act' = [act EXCEPT ![a].at = p]
        \/ act' = [act EXCEPT ![a] = IdleAct]
    BY <1>3 DEF CancelMove
  <2>2. QED
    BY <2>1
<1>4. ASSUME NEW a \in Actor, act[a].job \in Job, ReturnMove(a, act[a].job)
      PROVE  act' \in [Actor -> ActType]
  <2>1. \/ \E p \in {"queue", "unlease"} : act' = [act EXCEPT ![a].at = p]
        \/ act' = [act EXCEPT ![a] = IdleAct]
    BY <1>4 DEF ReturnMove
  <2>2. QED
    BY <2>1
<1>5. ASSUME NEW a \in Actor, NEW j \in Job, Requesting(a, j)
      PROVE  act' \in [Actor -> ActType]
  <2>1. CASE OpenMove(a, j)
    BY <2>1 DEF OpenMove, Locks
  <2>2. CASE RetryMove(a, j)
    BY <2>2 DEF RetryMove
  <2>3. CASE CancelRequest(a, j)
    <3>1. PICK r : r = [IdleAct EXCEPT !.at = "stop", !.job = j]
      OBVIOUS
    <3>2. r = [at |-> "stop", job |-> j, host |-> NoHost, from |-> "none", held |-> FALSE,
               mode |-> "none"]
      BY <3>1 DEF IdleAct
    <3>3. act' = [act EXCEPT ![a] = r]
      BY <2>3, <3>1 DEF CancelRequest
    <3>4. QED
      BY <3>2, <3>3
  <2>4. QED
    BY <1>5, <2>1, <2>2, <2>3 DEF Requesting
<1>6. ASSUME NEW j \in Job, TaskMove(j) PROVE act' \in [Actor -> ActType]
  BY <1>6 DEF TaskMove, Freed, Locks
<1>7. ASSUME NEW j \in Job, Tidying(j) PROVE act' \in [Actor -> ActType]
  BY <1>7, UnleasedFrees, UnlockedFrees DEF Tidying, ForgetFinished, At, Recorded, Live,
     Repair, Move, Remote, NewMode, OldMode, Freed, Locks
<1>8. CASE Restarting
  BY <1>8, HostAssumption DEF Restarting, Crash, RefuseStart, StartMove, Claims, Live,
     Ready, vars
<1>9. QED
  BY <1>1, <1>2, <1>3, <1>4, <1>5, <1>6, <1>7, <1>8 DEF NextMove

\* Every step leaves the whole state well formed.
LEMMA TypeStep ==
    ASSUME TypeOK, ActInv, BegunInv, [Next]_vars
    PROVE  TypeOK'
<1>1. act' \in [Actor -> ActType]
  BY NextMoves, ActTyped
<1>2. QED
  BY <1>1, RowsTyped, RestTyped DEF TypeOK, RowsTypeOK, MemoryTypeOK, RestTypeOK, ActType

-----------------------------------------------------------------------------
(* What a step does to each part of the invariant.                         *)

\* What an actor knows of its Job stays true.
LEMMA ActStep ==
    ASSUME TypeOK, ActInv, DownInv, BegunInv, CreateInv, NextMove
    PROVE  ActInv'
<1> SUFFICES ASSUME NEW b \in Actor PROVE ActOK(b)'
  BY DEF ActInv
<1> USE DEF TypeOK, RowsTypeOK, MemoryTypeOK, ActInv, ActOK, DownInv, IdleAct, BegunInv,
   BegunOK, BegunState, BegunPhase, Landless, CreateInv, Creates, TerminalStates,
   Suspended, Live
<1>1. ASSUME NEW a \in Actor, Placing(a) PROVE ActOK(b)'
  <2>1. CASE AddJob(a) \/ PlaceMove(a, act[a].job)
    BY <2>1 DEF AddJob, Move, Goto, At, PlaceMove, Returns, Waits, Enqueues
  <2>2. CASE RecordHostWait(a)
    BY <2>2 DEF RecordHostWait, Recorded, Return, At, NewMode
  <2>3. CASE AssignRefused(a) \/ AssignBusy(a) \/ Enqueue(a)
    BY <2>3 DEF AssignRefused, Return, At, AssignBusy, LeaseFree, Goto, Enqueue,
       Recorded, NewMode
  <2>4. QED
    BY <1>1, <2>1, <2>2, <2>3 DEF Placing
<1>2. ASSUME NEW a \in Actor, Assigning(a) PROVE ActOK(b)'
  <2>1. CASE AssignCommit(a)
    <3>1. act[a].job \in Job /\ act[a].host \in Host /\ CommitMove(a, act[a].job)
      BY <2>1, CommitMoves
    <3>2. CASE b = a
      BY <3>1, <3>2 DEF CommitMove, Assigned
    <3>3. CASE b # a
      <4>1. act'[b] = act[b] /\ begun' = begun
        BY <3>1, <3>3 DEF CommitMove, Assigned
      <4>2. /\ \A i \in Job \ {act[a].job} : state'[i] = state[i]
            /\ state'[act[a].job] = "ASSIGNED"
        BY <3>1 DEF CommitMove
      <4>3. act[b].at = "add" => act[b].job # act[a].job
        BY <3>1, <3>3 DEF CommitMove
      <4>4. QED
        BY <4>1, <4>2, <4>3
    <3>4. QED
      BY <3>2, <3>3
  <2>2. CASE AcquireMove(a, act[a].job)
    <3>1. \A c \in Actor \ {a} : act'[c] = act[c]
      BY <2>2 DEF AcquireMove
    <3>2. /\ act'[a].job = act[a].job /\ act'[a].from = act[a].from
          /\ act'[a].mode = act[a].mode /\ act'[a].at \in {"begin", "rollback"}
      BY <2>2 DEF AcquireMove
    <3>3. UNCHANGED <<state, begun>> /\ act[a].at = "session"
      BY <2>2 DEF AcquireMove
    <3>4. CASE b = a
      <4>1. ActOK(a)
        OBVIOUS
      <4>2. QED
        BY <3>2, <3>3, <3>4, <4>1
    <3>5. CASE b # a
      <4>1. act'[b] = act[b] /\ ActOK(b)
        BY <3>1, <3>5
      <4>2. QED
        BY <3>3, <4>1
    <3>6. QED
      BY <3>4, <3>5
  <2>3. CASE QueueMove(a, act[a].job)
    <3>1. CASE b # a
      <4>1. act'[b] = act[b] /\ ActOK(b)
        BY <2>3, <3>1 DEF QueueMove, Returns, Enqueues
      <4>2. begun' = begun /\ \A j \in Job : \/ state'[j] = state[j]
                                             \/ state[j] # "none" /\ state'[j] = "WAITING_LEASE"
        BY <2>3 DEF QueueMove, Returns, Waits
      <4>3. QED
        BY <4>1, <4>2
    <3>2. CASE b = a
      <4>1. act'[a].at \in {"idle", "enqueue"} /\ begun' = begun
        BY <2>3 DEF QueueMove, Returns, Enqueues
      <4>2. /\ act'[a].at = "idle" => act'[a].mode = "none"
            /\ act'[a].at = "enqueue" =>
                  /\ act'[a].job = act[a].job /\ act'[a].mode = act[a].mode
                  /\ act[a].job \in Job /\ state'[act[a].job] = "WAITING_LEASE"
        BY <2>3 DEF QueueMove, Returns, Waits, Enqueues
      <4>3. ActOK(a)
        OBVIOUS
      <4>4. QED
        BY <3>2, <4>1, <4>2, <4>3
    <3>3. QED
      BY <3>1, <3>2
  <2>4. CASE Begin(a)
    BY <2>4 DEF Begin, Then, Recorded, Move, Return, At
  <2>5. QED
    BY <1>2, <2>1, <2>2, <2>3, <2>4 DEF Assigning
<1>3. ASSUME NEW a \in Actor, act[a].job \in Job, CancelMove(a, act[a].job)
      PROVE  ActOK(b)'
  <2>1. \A i \in Job : \/ state'[i] = state[i]
                       \/ state[i] = "CANCELLING" /\ state'[i] = "CANCELLED"
    BY <1>3 DEF CancelMove
  <2>2. CASE b = a
    BY <1>3, <2>1, <2>2 DEF CancelMove
  <2>3. CASE b # a
    <3>1. act'[b] = act[b] /\ UNCHANGED begun
      BY <1>3, <2>3 DEF CancelMove
    <3>2. QED
      BY <2>1, <3>1
  <2>4. QED
    BY <2>2, <2>3
<1>4. ASSUME NEW a \in Actor, act[a].job \in Job, ReturnMove(a, act[a].job)
      PROVE  ActOK(b)'
  BY <1>4 DEF ReturnMove, Locks, Freed
<1>5. ASSUME NEW a \in Actor, NEW j \in Job, Requesting(a, j) PROVE ActOK(b)'
  <2>1. CASE OpenMove(a, j)
    BY <2>1 DEF OpenMove, Locks
  <2>2. CASE RetryMove(a, j)
    BY <2>2 DEF RetryMove
  <2>3. CASE CancelRequest(a, j)
    BY <2>3 DEF CancelRequest, Move, At
  <2>4. QED
    BY <1>5, <2>1, <2>2, <2>3 DEF Requesting
<1>6. ASSUME NEW j \in Job, TaskMove(j) PROVE ActOK(b)'
  BY <1>6 DEF TaskMove, Freed, Locks
<1>7. ASSUME NEW j \in Job, Tidying(j) PROVE ActOK(b)'
  BY <1>7, UnleasedFrees, UnlockedFrees DEF Tidying, ForgetFinished, At, Recorded,
     Repair, Move, Remote, NewMode, OldMode, Freed, Locks
<1>8. CASE Restarting
  BY <1>8, HostAssumption DEF Restarting, Crash, RefuseStart, StartMove, Claims, Ready,
     vars
<1>9. QED
  BY <1>1, <1>2, <1>3, <1>4, <1>5, <1>6, <1>7, <1>8 DEF NextMove

\* Nothing runs while the Controller does not.
LEMMA DownStep ==
    ASSUME TypeOK, ActInv, DownInv, NextMove
    PROVE  DownInv'
<1> USE DEF TypeOK, RowsTypeOK, MemoryTypeOK, ActInv, ActOK, DownInv, IdleAct, Landless,
   TerminalStates, Suspended, Live
<1>1. ASSUME NEW a \in Actor, Placing(a) PROVE DownInv'
  <2>1. CASE AddJob(a) \/ PlaceMove(a, act[a].job) \/ RecordHostWait(a)
    BY <2>1 DEF AddJob, Move, Goto, At, PlaceMove, Returns, Waits, Enqueues,
       RecordHostWait, Recorded, Return, NewMode
  <2>2. CASE AssignRefused(a) \/ AssignBusy(a) \/ Enqueue(a)
    BY <2>2 DEF AssignRefused, Return, At, AssignBusy, LeaseFree, Goto, Enqueue,
       Recorded, NewMode
  <2>3. QED
    BY <1>1, <2>1, <2>2 DEF Placing
<1>2. ASSUME NEW a \in Actor, Assigning(a) PROVE DownInv'
  <2>1. CASE AssignCommit(a) \/ AcquireMove(a, act[a].job)
    BY <2>1 DEF AssignCommit, LeaseFree, Moved, Move, At, AcquireMove, Locks
  <2>2. CASE QueueMove(a, act[a].job) \/ Begin(a)
    BY <2>2 DEF QueueMove, Returns, Waits, Enqueues, Begin, Then, Recorded, Move,
       Return, At
  <2>3. QED
    BY <1>2, <2>1, <2>2 DEF Assigning
<1>3. ASSUME NEW a \in Actor, act[a].job \in Job, CancelMove(a, act[a].job)
      PROVE  DownInv'
  BY <1>3 DEF CancelMove
<1>4. ASSUME NEW a \in Actor, act[a].job \in Job, ReturnMove(a, act[a].job)
      PROVE  DownInv'
  BY <1>4 DEF ReturnMove, Locks, Freed
<1>5. ASSUME NEW a \in Actor, NEW j \in Job, Requesting(a, j) PROVE DownInv'
  BY <1>5 DEF Requesting, OpenMove, Locks, RetryMove, CancelRequest, Move, At
<1>6. ASSUME NEW j \in Job, TaskMove(j) PROVE DownInv'
  BY <1>6 DEF TaskMove, Freed, Locks
<1>7. ASSUME NEW j \in Job, Tidying(j) PROVE DownInv'
  <2>1. CASE ForgetFinished(j)
    BY <2>1 DEF ForgetFinished, At, Recorded
  <2>2. CASE Repair(j)
    BY <2>2, UnleasedFrees, UnlockedFrees DEF Repair, Move, Recorded, Remote, NewMode,
       OldMode, Freed, Locks
  <2>3. QED
    BY <1>7, <2>1, <2>2 DEF Tidying
<1>8. CASE Restarting
  <2>1. CASE Crash
    BY <2>1 DEF Crash
  <2>2. CASE RefuseStart
    BY <2>2 DEF RefuseStart
  <2>3. CASE StartMove
    BY <2>3, HostAssumption DEF StartMove, Claims
  <2>4. CASE Ready
    BY <2>4 DEF Ready
  <2>5. CASE UNCHANGED vars
    BY <2>5 DEF vars
  <2>6. QED
    BY <1>8, <2>1, <2>2, <2>3, <2>4, <2>5 DEF Restarting
<1>9. QED
  BY <1>1, <1>2, <1>3, <1>4, <1>5, <1>6, <1>7, <1>8 DEF NextMove

\* Only a Job that has come to start Codex is in a state or a phase of one.
LEMMA BegunStep ==
    ASSUME TypeOK, ActInv, DownInv, BegunInv, NextMove
    PROVE  BegunInv'
<1> SUFFICES ASSUME NEW i \in Job PROVE BegunOK(i)'
  BY DEF BegunInv
<1> USE DEF TypeOK, RowsTypeOK, MemoryTypeOK, ActInv, ActOK, DownInv, IdleAct, BegunInv,
   BegunOK, BegunState, BegunPhase, Landless, TerminalStates, Suspended, Live
<1>1. ASSUME NEW a \in Actor, Placing(a) PROVE BegunOK(i)'
  BY <1>1 DEF Placing, AddJob, Move, Goto, At, PlaceMove, Returns, Waits, Enqueues,
     RecordHostWait, Recorded, Return, NewMode, AssignRefused, AssignBusy, LeaseFree,
     Enqueue
<1>2. ASSUME NEW a \in Actor, Assigning(a) PROVE BegunOK(i)'
  <2>1. CASE AssignCommit(a) \/ AcquireMove(a, act[a].job)
    BY <2>1 DEF AssignCommit, LeaseFree, Moved, Move, At, AcquireMove, Locks
  <2>2. CASE QueueMove(a, act[a].job) \/ Begin(a)
    BY <2>2 DEF QueueMove, Returns, Waits, Enqueues, Begin, Then, Recorded, Move,
       Return, At
  <2>3. QED
    BY <1>2, <2>1, <2>2 DEF Assigning
<1>3. ASSUME NEW a \in Actor, act[a].job \in Job, CancelMove(a, act[a].job)
      PROVE  BegunOK(i)'
  BY <1>3 DEF CancelMove
<1>4. ASSUME NEW a \in Actor, act[a].job \in Job, ReturnMove(a, act[a].job)
      PROVE  BegunOK(i)'
  <2> DEFINE j == act[a].job
  <2>1. Landless(i) => Landless(i)'
    <3>1. CASE UNCHANGED lease
      BY <3>1
    <3>2. CASE Freed(j)
      BY <3>2 DEF Freed
    <3>3. QED
      BY <1>4, <3>1, <3>2 DEF ReturnMove
  <2>2. QED
    BY <1>4, <2>1 DEF ReturnMove
<1>5. ASSUME NEW a \in Actor, NEW j \in Job, Requesting(a, j) PROVE BegunOK(i)'
  BY <1>5 DEF Requesting, OpenMove, Locks, RetryMove, CancelRequest, Move, At
<1>6. ASSUME NEW j \in Job, TaskMove(j) PROVE BegunOK(i)'
  BY <1>6 DEF TaskMove, Freed, Locks
<1>7. ASSUME NEW j \in Job, Tidying(j) PROVE BegunOK(i)'
  BY <1>7, UnleasedFrees, UnlockedFrees DEF Tidying, ForgetFinished, At, Recorded,
     Repair, Move, Remote, NewMode, OldMode, Freed, Locks
<1>8. CASE Restarting
  BY <1>8, HostAssumption DEF Restarting, Crash, RefuseStart, StartMove, Claims, Ready,
     vars
<1>9. QED
  BY <1>1, <1>2, <1>3, <1>4, <1>5, <1>6, <1>7, <1>8 DEF NextMove

\* No two actors come to create the same Job.
LEMMA CreateStep ==
    ASSUME TypeOK, ActInv, DownInv, CreateInv, NextMove
    PROVE  CreateInv'
<1> SUFFICES ASSUME NEW b \in Actor, NEW c \in Actor, b # c, act'[b].job = act'[c].job,
                    Creates(b)', Creates(c)'
             PROVE  FALSE
  BY DEF CreateInv
<1> USE DEF TypeOK, RowsTypeOK, MemoryTypeOK, ActInv, ActOK, CreateInv, Creates,
   IdleAct, DownInv
<1>1. ASSUME NEW a \in Actor, Placing(a) PROVE FALSE
  <2>1. CASE AddJob(a)
    BY <2>1 DEF AddJob, Move, Goto, At
  <2>2. CASE PlaceMove(a, act[a].job)
    <3>1. \A d \in Actor \ {a} : act'[d] = act[d]
      BY <2>2 DEF PlaceMove, Returns, Enqueues
    <3>2. act'[a].job = act[a].job \/ act'[a].job = NoJob
      BY <2>2 DEF PlaceMove, Returns, Enqueues
    <3>3. Creates(a)' => act'[a].job = act[a].job /\ Creates(a)
      BY <2>2 DEF PlaceMove, Returns, Enqueues
    <3>4. QED
      BY <2>2, <3>1, <3>2, <3>3 DEF PlaceMove
  <2>3. CASE RecordHostWait(a)
    BY <2>3 DEF RecordHostWait, Recorded, Return, At, NewMode
  <2>4. CASE AssignRefused(a) \/ AssignBusy(a) \/ Enqueue(a)
    BY <2>4 DEF AssignRefused, Return, At, AssignBusy, LeaseFree, Goto, Enqueue,
       Recorded, NewMode
  <2>5. QED
    BY <1>1, <2>1, <2>2, <2>3, <2>4 DEF Placing
<1>2. ASSUME NEW a \in Actor, Assigning(a) PROVE FALSE
  <2>1. CASE AssignCommit(a)
    BY <2>1 DEF AssignCommit, LeaseFree, Moved, Move, At
  <2>2. CASE AcquireMove(a, act[a].job)
    BY <2>2 DEF AcquireMove, Locks
  <2>3. CASE QueueMove(a, act[a].job)
    BY <2>3 DEF QueueMove, Returns, Waits, Enqueues
  <2>4. CASE Begin(a)
    BY <2>4 DEF Begin, Then, Recorded, Move, Return, At
  <2>5. QED
    BY <1>2, <2>1, <2>2, <2>3, <2>4 DEF Assigning
<1>3. ASSUME NEW a \in Actor, act[a].job \in Job, CancelMove(a, act[a].job)
      PROVE  FALSE
  BY <1>3 DEF CancelMove
<1>4. ASSUME NEW a \in Actor, act[a].job \in Job, ReturnMove(a, act[a].job)
      PROVE  FALSE
  BY <1>4 DEF ReturnMove, Locks, Freed
<1>5. ASSUME NEW a \in Actor, NEW j \in Job, Requesting(a, j) PROVE FALSE
  <2>1. CASE OpenMove(a, j) \/ RetryMove(a, j)
    BY <2>1 DEF OpenMove, Locks, RetryMove
  <2>2. CASE CancelRequest(a, j)
    BY <2>2 DEF CancelRequest, Move, At, Live
  <2>3. QED
    BY <1>5, <2>1, <2>2 DEF Requesting
<1>6. ASSUME NEW j \in Job, TaskMove(j) PROVE FALSE
  BY <1>6 DEF TaskMove, Freed, Locks
<1>7. ASSUME NEW j \in Job, Tidying(j) PROVE FALSE
  BY <1>7, UnleasedFrees, UnlockedFrees DEF Tidying, ForgetFinished, At, Recorded, Live,
     Repair, Move, Remote, NewMode, OldMode, Freed, Locks
<1>8. CASE Restarting
  BY <1>8, HostAssumption DEF Restarting, Crash, RefuseStart, StartMove, Claims, Live,
     Ready, vars
<1>9. QED
  BY <1>1, <1>2, <1>3, <1>4, <1>5, <1>6, <1>7, <1>8 DEF NextMove

\* An actor finds its Job in the states that its phase allows.
LEMMA StateStep ==
    ASSUME TypeOK, ActInv, DownInv, BegunInv, CreateInv, StateInv, AssignInv, NewInv,
       NextMove
    PROVE  StateInv'
<1> SUFFICES ASSUME NEW b \in Actor, NEW i \in Job, i \notin overtaken', act'[b].job = i
             PROVE  StateOK(b, i)'
  BY DEF StateInv
<1> USE DEF TypeOK, RowsTypeOK, MemoryTypeOK, ActInv, ActOK, DownInv, IdleAct, BegunInv,
   BegunOK, BegunState, BegunPhase, Landless, CreateInv, Creates, StateInv, StateOK,
   Releasing, AssignInv, NewInv, Assigns, TerminalStates, Suspended, Live
<1>1. ASSUME NEW a \in Actor, Placing(a) PROVE StateOK(b, i)'
  <2>1. CASE AddJob(a)
    BY <2>1 DEF AddJob, Move, Goto, At
  <2>2. CASE PlaceMove(a, act[a].job)
    <3>1. act[b].job = i /\ i \notin overtaken /\ UNCHANGED begun
      <4>1. b # a => act'[b] = act[b]
        BY <2>2 DEF PlaceMove, Returns, Enqueues
      <4>2. b = a => act'[b].job \in {act[b].job, NoJob}
        BY <2>2 DEF PlaceMove, Returns, Enqueues
      <4>3. QED
        BY <2>2, <4>1, <4>2, JobAssumption DEF PlaceMove
    <3>2. StateOK(b, i) /\ ActOK(b)
      BY <3>1 DEF StateInv, ActInv
    <3>3. CASE b = a
      BY <2>2, <3>1, <3>2, <3>3 DEF PlaceMove, Returns, Waits, Enqueues
    <3>4. CASE b # a
      <4>1. act'[b] = act[b]
        BY <2>2, <3>4 DEF PlaceMove, Returns, Enqueues
      <4>2. CASE act[a].job # i
        <5>1. state'[i] = state[i]
          BY <2>2, <4>2 DEF PlaceMove, Returns, Waits
        <5>2. QED
          BY <3>1, <3>2, <4>1, <5>1
      <4>3. CASE act[a].job = i
        <5>1. ~Creates(b) /\ state[i] \in {"QUEUED", "CANCELLING", "CANCELLED"}
          BY <2>2, <3>1, <3>4, <4>3 DEF PlaceMove
        <5>2. state'[i] = state[i] \/ state[i] = "QUEUED"
          BY <2>2, <5>1 DEF PlaceMove, Returns, Waits
        <5>3. QED
          BY <3>1, <3>2, <4>1, <5>1, <5>2
      <4>4. QED
        BY <4>2, <4>3
    <3>5. QED
      BY <3>3, <3>4
  <2>3. CASE RecordHostWait(a)
    BY <2>3 DEF RecordHostWait, Recorded, Return, At, NewMode
  <2>4. CASE AssignRefused(a) \/ AssignBusy(a) \/ Enqueue(a)
    BY <2>4 DEF AssignRefused, Return, At, AssignBusy, LeaseFree, Goto, Enqueue,
       Recorded, NewMode
  <2>5. QED
    BY <1>1, <2>1, <2>2, <2>3, <2>4 DEF Placing
<1>2. ASSUME NEW a \in Actor, Assigning(a) PROVE StateOK(b, i)'
  <2>1. CASE AssignCommit(a)
    BY <2>1 DEF AssignCommit, LeaseFree, Moved, Move, At
  <2>2. CASE AcquireMove(a, act[a].job)
    <3>1. act[b].job = i /\ i \notin overtaken /\ UNCHANGED <<state, begun>>
      BY <2>2, JobAssumption DEF AcquireMove
    <3>2. StateOK(b, i) /\ ActOK(b)
      BY <3>1 DEF StateInv, ActInv
    <3>3. CASE b = a
      BY <2>2, <3>1, <3>2, <3>3 DEF AcquireMove
    <3>4. CASE b # a
      <4>1. act'[b] = act[b]
        BY <2>2, <3>4 DEF AcquireMove
      <4>2. QED
        BY <3>1, <3>2, <4>1
    <3>5. QED
      BY <3>3, <3>4
  <2>3. CASE QueueMove(a, act[a].job)
    BY <2>3 DEF QueueMove, Returns, Waits, Enqueues
  <2>4. CASE Begin(a)
    BY <2>4 DEF Begin, Then, Recorded, Move, Return, At
  <2>5. QED
    BY <1>2, <2>1, <2>2, <2>3, <2>4 DEF Assigning
<1>3. ASSUME NEW a \in Actor, act[a].job \in Job, CancelMove(a, act[a].job)
      PROVE  StateOK(b, i)'
  <2>1. act[b].job = i /\ i \notin overtaken /\ UNCHANGED begun
    BY <1>3, JobAssumption DEF CancelMove
  <2>2. StateOK(b, i) /\ ActOK(b)
    BY <2>1 DEF StateInv, ActInv
  <2>3. state'[i] = state[i] \/ (state[i] = "CANCELLING" /\ state'[i] = "CANCELLED")
    BY <1>3 DEF CancelMove
  <2>4. CASE b = a
    BY <1>3, <2>1, <2>2, <2>3, <2>4 DEF CancelMove
  <2>5. CASE b # a
    <3>1. act'[b] = act[b]
      BY <1>3, <2>5 DEF CancelMove
    <3>2. QED
      BY <2>1, <2>2, <2>3, <3>1
  <2>6. QED
    BY <2>4, <2>5
<1>4. ASSUME NEW a \in Actor, act[a].job \in Job, ReturnMove(a, act[a].job)
      PROVE  StateOK(b, i)'
  <2>1. act[b].job = i /\ i \notin overtaken /\ UNCHANGED <<state, begun>>
    <3>1. b # a => act'[b] = act[b]
      BY <1>4 DEF ReturnMove
    <3>2. b = a => act'[b].job \in {act[b].job, NoJob}
      BY <1>4 DEF ReturnMove
    <3>3. QED
      BY <1>4, <3>1, <3>2, JobAssumption DEF ReturnMove
  <2>2. StateOK(b, i) /\ ActOK(b)
    BY <2>1 DEF StateInv, ActInv
  <2>3. CASE b = a
    BY <1>4, <2>1, <2>2, <2>3 DEF ReturnMove
  <2>4. CASE b # a
    <3>1. act'[b] = act[b]
      BY <1>4, <2>4 DEF ReturnMove
    <3>2. QED
      BY <2>1, <2>2, <3>1
  <2>5. QED
    BY <2>3, <2>4
<1>5. ASSUME NEW a \in Actor, NEW j \in Job, Requesting(a, j) PROVE StateOK(b, i)'
  <2>1. CASE OpenMove(a, j) \/ RetryMove(a, j)
    BY <2>1 DEF OpenMove, Locks, RetryMove
  <2>2. CASE CancelRequest(a, j)
    BY <2>2 DEF CancelRequest, Move, At
  <2>3. QED
    BY <1>5, <2>1, <2>2 DEF Requesting
<1>6. ASSUME NEW j \in Job, TaskMove(j) PROVE StateOK(b, i)'
  BY <1>6 DEF TaskMove, Freed, Locks
<1>7. ASSUME NEW j \in Job, Tidying(j) PROVE StateOK(b, i)'
  BY <1>7, UnleasedFrees, UnlockedFrees DEF Tidying, ForgetFinished, At, Recorded,
     Repair, Move, Remote, NewMode, OldMode, Freed, Locks
<1>8. CASE Restarting
  BY <1>8, HostAssumption DEF Restarting, Crash, RefuseStart, StartMove, Claims, Ready,
     vars
<1>9. QED
  BY <1>1, <1>2, <1>3, <1>4, <1>5, <1>6, <1>7, <1>8 DEF NextMove

\* At most one actor is between the assignment of a Job and its task.
LEMMA AssignStep ==
    ASSUME TypeOK, ActInv, DownInv, CreateInv, StateInv, AssignInv, NextMove
    PROVE  AssignInv'
<1> SUFFICES ASSUME NEW b \in Actor, NEW c \in Actor, b # c,
                    NEW i \in Job, i \notin overtaken',
                    act'[b].job = i, act'[c].job = i, Assigns(b)', Assigns(c)'
             PROVE  state'[i] # "ASSIGNED"
  BY DEF AssignInv
<1> USE DEF TypeOK, RowsTypeOK, MemoryTypeOK, ActInv, ActOK, DownInv, IdleAct,
   CreateInv, Creates, StateInv, StateOK, Releasing, AssignInv, Assigns, TerminalStates,
   Suspended, Live
<1>1. ASSUME NEW a \in Actor, Placing(a) PROVE state'[i] # "ASSIGNED"
  <2>1. CASE AddJob(a) \/ PlaceMove(a, act[a].job) \/ RecordHostWait(a)
    BY <2>1 DEF AddJob, Move, Goto, At, PlaceMove, Returns, Waits, Enqueues,
       RecordHostWait, Recorded, Return, NewMode
  <2>2. CASE AssignRefused(a) \/ AssignBusy(a) \/ Enqueue(a)
    BY <2>2 DEF AssignRefused, Return, At, AssignBusy, LeaseFree, Goto, Enqueue,
       Recorded, NewMode
  <2>3. QED
    BY <1>1, <2>1, <2>2 DEF Placing
<1>2. ASSUME NEW a \in Actor, Assigning(a) PROVE state'[i] # "ASSIGNED"
  <2>1. CASE AssignCommit(a)
    BY <2>1 DEF AssignCommit, LeaseFree, Moved, Move, At
  <2>2. CASE AcquireMove(a, act[a].job)
    BY <2>2 DEF AcquireMove, Locks
  <2>3. CASE QueueMove(a, act[a].job) \/ Begin(a)
    BY <2>3 DEF QueueMove, Returns, Waits, Enqueues, Begin, Then, Recorded, Move,
       Return, At
  <2>4. QED
    BY <1>2, <2>1, <2>2, <2>3 DEF Assigning
<1>3. ASSUME NEW a \in Actor, act[a].job \in Job, CancelMove(a, act[a].job)
      PROVE  state'[i] # "ASSIGNED"
  BY <1>3 DEF CancelMove
<1>4. ASSUME NEW a \in Actor, act[a].job \in Job, ReturnMove(a, act[a].job)
      PROVE  state'[i] # "ASSIGNED"
  BY <1>4 DEF ReturnMove, Locks, Freed
<1>5. ASSUME NEW a \in Actor, NEW j \in Job, Requesting(a, j)
      PROVE  state'[i] # "ASSIGNED"
  <2>1. CASE OpenMove(a, j) \/ RetryMove(a, j)
    BY <2>1 DEF OpenMove, Locks, RetryMove
  <2>2. CASE CancelRequest(a, j)
    BY <2>2 DEF CancelRequest, Move, At
  <2>3. QED
    BY <1>5, <2>1, <2>2 DEF Requesting
<1>6. ASSUME NEW j \in Job, TaskMove(j) PROVE state'[i] # "ASSIGNED"
  <2>1. (state'[i] = "ASSIGNED" => state[i] = "ASSIGNED") /\ UNCHANGED <<act, overtaken>>
    BY <1>6 DEF TaskMove, BegunState
  <2>2. QED
    BY <2>1
<1>7. ASSUME NEW j \in Job, Tidying(j) PROVE state'[i] # "ASSIGNED"
  BY <1>7, UnleasedFrees, UnlockedFrees DEF Tidying, ForgetFinished, At, Recorded,
     Repair, Move, Remote, NewMode, OldMode, Freed, Locks
<1>8. CASE Restarting
  BY <1>8, HostAssumption DEF Restarting, Crash, RefuseStart, StartMove, Claims, Ready,
     vars
<1>9. QED
  BY <1>1, <1>2, <1>3, <1>4, <1>5, <1>6, <1>7, <1>8 DEF NextMove

\* A task that has not started has the assignment to itself, with tree and session.
LEMMA NewStep ==
    ASSUME TypeOK, ActInv, DownInv, BegunInv, StateInv, AssignInv, NewInv, HoldInv,
       TaskInv, NextMove
    PROVE  NewInv'
<1> DEFINE Apart(i) == \A c \in Actor : act[c].job = i => ~Assigns(c)
<1> SUFFICES ASSUME NEW i \in Job, i \notin overtaken', task'[i] = "new"
             PROVE  /\ state'[i] \in {"ASSIGNED", "CANCELLING", "CANCELLED"}
                    /\ state'[i] = "ASSIGNED" => Owns(i)' /\ Apart(i)'
  BY DEF NewInv
<1> DEFINE Goal == /\ state'[i] \in {"ASSIGNED", "CANCELLING", "CANCELLED"}
                   /\ state'[i] = "ASSIGNED" => Owns(i)' /\ Apart(i)'
<1> USE DEF TypeOK, RowsTypeOK, MemoryTypeOK, ActInv, ActOK, DownInv, IdleAct, BegunInv,
   BegunOK, BegunState, BegunPhase, Landless, StateInv, StateOK, Releasing, AssignInv,
   Assigns, NewInv, HoldInv, HoldOK, TaskInv, Owns, Tree, TerminalStates, Suspended,
   Live
<1>1. ASSUME NEW a \in Actor, Placing(a) PROVE Goal
  <2>1. CASE AddJob(a)
    BY <2>1 DEF AddJob, Move, Goto, At
  <2>2. CASE PlaceMove(a, act[a].job)
    <3>1. /\ task[i] = "new" /\ i \notin overtaken
          /\ state[i] \in {"ASSIGNED", "CANCELLING", "CANCELLED"}
          /\ state[i] = "ASSIGNED" => Owns(i) /\ Apart(i)
      BY <2>2 DEF PlaceMove, NewInv
    <3>2. state'[i] = state[i] /\ assigned'[i] = assigned[i]
      <4>1. CASE UNCHANGED <<state, assigned>>
        BY <4>1
      <4>2. ASSUME NEW s, Waits(a, act[a].job, s)
            PROVE  state'[i] = state[i] /\ assigned'[i] = assigned[i]
        <5>1. i # act[a].job
          BY <2>2, <3>1, <4>2 DEF PlaceMove, Waits
        <5>2. QED
          BY <2>2, <4>2, <5>1 DEF Waits
      <4>3. QED
        BY <2>2, <4>1, <4>2 DEF PlaceMove, Returns
    <3>3. ASSUME NEW c \in Actor, act'[c].job = i, Assigns(c)', state[i] = "ASSIGNED"
          PROVE  act[c].job = i /\ Assigns(c)
      <4>1. c # a => act'[c] = act[c]
        BY <2>2 DEF PlaceMove, Returns, Enqueues
      <4>2. c # a
        BY <2>2, <3>3 DEF PlaceMove, Returns, Enqueues
      <4>3. QED
        BY <3>3, <4>1, <4>2
    <3>4. Owns(i) => Owns(i)'
      BY <2>2, <3>2 DEF PlaceMove
    <3>5. QED
      BY <3>1, <3>2, <3>3, <3>4
  <2>3. CASE RecordHostWait(a)
    BY <2>3 DEF RecordHostWait, Recorded, Return, At, NewMode
  <2>4. CASE AssignRefused(a) \/ AssignBusy(a)
    BY <2>4 DEF AssignRefused, Return, At, AssignBusy, LeaseFree, Goto
  <2>5. CASE Enqueue(a)
    BY <2>5 DEF Enqueue, Recorded, Return, At, NewMode
  <2>6. QED
    BY <1>1, <2>1, <2>2, <2>3, <2>4, <2>5 DEF Placing
<1>2. ASSUME NEW a \in Actor, Assigning(a) PROVE Goal
  <2>1. CASE AssignCommit(a)
    <3>1. act[a].job \in Job /\ act[a].host \in Host /\ CommitMove(a, act[a].job)
      BY <2>1, CommitMoves
    <3> DEFINE j == act[a].job h == act[a].host
    <3>2. state[j] = act[a].from \/ j \in overtaken'
      BY <3>1 DEF CommitMove
    <3>3. overtaken \subseteq overtaken' /\ UNCHANGED <<owner, lock, task, begun>>
      BY <3>1 DEF CommitMove, rigid
    <3>4. ASSUME NEW k \in Job \ {j}, Tree(k) PROVE Tree(k)'
      <4>1. lease[h] # k \/ lease'[h] = lease[h]
        BY <3>1, JobAssumption DEF CommitMove
      <4>2. assigned'[k] = assigned[k] /\ \A g \in Host \ {h} : lease'[g] = lease[g]
        BY <3>1 DEF CommitMove
      <4>3. QED
        BY <3>4, <4>1, <4>2
    <3>5. CASE i = j
      BY <3>1, <3>2, <3>3, <3>5 DEF CommitMove
    <3>6. CASE i # j
      <4>1. state'[i] = state[i] /\ task[i] = "new" /\ i \notin overtaken
        BY <3>1, <3>3, <3>6 DEF CommitMove
      <4>2. Owns(i) => Owns(i)'
        BY <3>3, <3>4, <3>6
      <4>3. ASSUME NEW c \in Actor, act'[c].job = i PROVE act'[c] = act[c]
        BY <3>1, <3>6, <4>3 DEF CommitMove, Assigned
      <4>4. Apart(i) => Apart(i)'
        BY <4>3
      <4>5. QED
        BY <4>1, <4>2, <4>4
    <3>7. QED
      BY <3>5, <3>6
  <2>2. CASE AcquireMove(a, act[a].job)
    <3>1. /\ task[i] = "new" /\ i \notin overtaken
          /\ state[i] \in {"ASSIGNED", "CANCELLING", "CANCELLED"}
          /\ state[i] = "ASSIGNED" => Owns(i) /\ Apart(i)
          /\ UNCHANGED <<owner, state, assigned>>
      BY <2>2 DEF AcquireMove, NewInv
    <3>2. ASSUME state[i] = "ASSIGNED" PROVE Owns(i)'
      <4>1. act[a].job # i
        BY <2>2, <3>1, <3>2 DEF AcquireMove
      <4>2. (Tree(i) => Tree(i)') /\ (lock[owner[i]] = i => lock'[owner[i]] = i)
        BY <2>2, <4>1 DEF AcquireMove, Locks, Freed
      <4>3. QED
        BY <3>1, <3>2, <4>2
    <3>3. ASSUME NEW c \in Actor, act'[c].job = i, Assigns(c)', state[i] = "ASSIGNED"
          PROVE  act[c].job = i /\ Assigns(c)
      <4>1. c # a => act'[c] = act[c]
        BY <2>2 DEF AcquireMove
      <4>2. act[a].job # i
        BY <2>2, <3>1, <3>3 DEF AcquireMove
      <4>3. act'[a].job \in {act[a].job, NoJob}
        BY <2>2 DEF AcquireMove
      <4>4. QED
        BY <3>3, <4>1, <4>2, <4>3, JobAssumption
    <3>4. QED
      BY <3>1, <3>2, <3>3
  <2>3. CASE QueueMove(a, act[a].job)
    <3>1. /\ task[i] = "new" /\ i \notin overtaken
          /\ state[i] \in {"ASSIGNED", "CANCELLING", "CANCELLED"}
          /\ state[i] = "ASSIGNED" => Owns(i) /\ Apart(i)
      BY <2>3 DEF QueueMove, NewInv
    <3>2. state'[i] = state[i] /\ assigned'[i] = assigned[i]
      <4>1. CASE UNCHANGED <<state, assigned>>
        BY <4>1
      <4>2. ASSUME NEW s, Waits(a, act[a].job, s)
            PROVE  state'[i] = state[i] /\ assigned'[i] = assigned[i]
        <5>1. i # act[a].job
          BY <2>3, <3>1, <4>2 DEF QueueMove, Waits
        <5>2. QED
          BY <2>3, <4>2, <5>1 DEF Waits
      <4>3. QED
        BY <2>3, <4>1, <4>2 DEF QueueMove, Returns
    <3>3. ASSUME NEW c \in Actor, act'[c].job = i, Assigns(c)', state[i] = "ASSIGNED"
          PROVE  act[c].job = i /\ Assigns(c)
      <4>1. c # a => act'[c] = act[c]
        BY <2>3 DEF QueueMove, Returns, Enqueues
      <4>2. c # a
        BY <2>3, <3>3 DEF QueueMove, Returns, Enqueues
      <4>3. QED
        BY <3>3, <4>1, <4>2
    <3>4. Owns(i) => Owns(i)'
      BY <2>3, <3>2 DEF QueueMove
    <3>5. QED
      BY <3>1, <3>2, <3>3, <3>4
  <2>4. CASE Begin(a)
    BY <2>4 DEF Begin, Then, Recorded, Move, Return, At
  <2>5. QED
    BY <1>2, <2>1, <2>2, <2>3, <2>4 DEF Assigning
<1>3. ASSUME NEW a \in Actor, act[a].job \in Job, CancelMove(a, act[a].job)
      PROVE  Goal
  <2>1. /\ state'[i] = state[i] \/ (state[i] = "CANCELLING" /\ state'[i] = "CANCELLED")
        /\ task[i] = "new" /\ i \notin overtaken
        /\ UNCHANGED <<assigned, lease, lock, owner>>
    BY <1>3 DEF CancelMove
  <2>2. ASSUME NEW c \in Actor, act'[c].job = i, Assigns(c)'
        PROVE  act[c].job = i /\ Assigns(c)
    BY <1>3, <2>2 DEF CancelMove
  <2>3. /\ state[i] \in {"ASSIGNED", "CANCELLING", "CANCELLED"}
        /\ state[i] = "ASSIGNED" => Owns(i) /\ Apart(i)
    BY <2>1 DEF NewInv
  <2>4. QED
    BY <2>1, <2>2, <2>3
<1>4. ASSUME NEW a \in Actor, act[a].job \in Job, ReturnMove(a, act[a].job)
      PROVE  Goal
  <2>1. /\ task[i] = "new" /\ i \notin overtaken
        /\ state[i] \in {"ASSIGNED", "CANCELLING", "CANCELLED"}
        /\ state[i] = "ASSIGNED" => Owns(i) /\ Apart(i)
        /\ UNCHANGED <<owner, state, assigned>>
    BY <1>4 DEF ReturnMove, NewInv
  <2>2. ASSUME state[i] = "ASSIGNED" PROVE Owns(i)'
    <3>1. act[a].job # i
      BY <1>4, <2>1, <2>2 DEF ReturnMove
    <3>2. (Tree(i) => Tree(i)') /\ (lock[owner[i]] = i => lock'[owner[i]] = i)
      BY <1>4, <3>1 DEF ReturnMove, Locks, Freed
    <3>3. QED
      BY <2>1, <2>2, <3>2
  <2>3. ASSUME NEW c \in Actor, act'[c].job = i, Assigns(c)', state[i] = "ASSIGNED"
        PROVE  act[c].job = i /\ Assigns(c)
    <3>1. c # a => act'[c] = act[c]
      BY <1>4 DEF ReturnMove
    <3>2. act[a].job # i
      BY <1>4, <2>1, <2>3 DEF ReturnMove
    <3>3. act'[a].job \in {act[a].job, NoJob}
      BY <1>4 DEF ReturnMove
    <3>4. QED
      BY <2>3, <3>1, <3>2, <3>3, JobAssumption
  <2>4. QED
    BY <2>1, <2>2, <2>3
<1>5. ASSUME NEW a \in Actor, NEW j \in Job, Requesting(a, j) PROVE Goal
  <2>1. CASE OpenMove(a, j) \/ RetryMove(a, j)
    BY <2>1 DEF OpenMove, Locks, RetryMove
  <2>2. CASE CancelRequest(a, j)
    BY <2>2 DEF CancelRequest, Move, At
  <2>3. QED
    BY <1>5, <2>1, <2>2 DEF Requesting
<1>6. ASSUME NEW j \in Job, TaskMove(j) PROVE Goal
  BY <1>6 DEF TaskMove, Freed, Locks
<1>7. ASSUME NEW j \in Job, Tidying(j) PROVE Goal
  BY <1>7, UnleasedFrees, UnlockedFrees DEF Tidying, ForgetFinished, At, Recorded,
     Repair, Move, Remote, NewMode, OldMode, Freed, Locks
<1>8. CASE Restarting
  BY <1>8, HostAssumption DEF Restarting, Crash, RefuseStart, StartMove, Claims, Ready,
     vars
<1>9. QED
  BY <1>1, <1>2, <1>3, <1>4, <1>5, <1>6, <1>7, <1>8 DEF NextMove

\* A Job holds what each phase of its actor relies on.
LEMMA HoldStep ==
    ASSUME TypeOK, ActInv, DownInv, BegunInv, CreateInv, StateInv, AssignInv, NewInv,
       HoldInv, TaskInv, LeaseHeldSinceStart, WaitingOwnsNothing, NextMove
    PROVE  HoldInv'
<1> SUFFICES ASSUME NEW b \in Actor, NEW i \in Job, i \notin overtaken', act'[b].job = i
             PROVE  HoldOK(b, i)'
  BY DEF HoldInv
<1> USE DEF TypeOK, RowsTypeOK, MemoryTypeOK, ActInv, ActOK, DownInv, IdleAct, BegunInv,
   BegunOK, BegunState, BegunPhase, Landless, CreateInv, Creates, StateInv, StateOK,
   Releasing, AssignInv, Assigns, NewInv, HoldInv, HoldOK, TaskInv, Owns, Tree,
   LeaseHeldSinceStart, WaitingOwnsNothing, TerminalStates, Suspended, Live
<1>1. ASSUME NEW a \in Actor, Placing(a) PROVE HoldOK(b, i)'
  <2>1. CASE AddJob(a)
    BY <2>1 DEF AddJob, Move, Goto, At
  <2>2. CASE PlaceMove(a, act[a].job)
    <3>1. CASE b # a
      <4>1. act'[b] = act[b]
        BY <2>2, <3>1 DEF PlaceMove, Returns, Enqueues
      <4>2. CASE act[a].job # i \/ UNCHANGED <<state, assigned>>
        <5>1. /\ state'[i] = state[i] /\ assigned'[i] = assigned[i]
              /\ UNCHANGED <<rigid, lease, lock, history>>
          BY <2>2, <4>2 DEF PlaceMove, Returns, Waits
        <5>2. HoldOK(b, i)
          BY <4>1, <5>1 DEF history
        <5>3. QED
          BY <4>1, <5>1, <5>2 DEF rigid, history
      <4>3. CASE act[a].job = i /\ ~UNCHANGED <<state, assigned>>
        <5>1. /\ state[i] = "QUEUED" /\ state'[i] \in {"WAITING_HOST", "WAITING_LEASE"}
              /\ i \notin begun' /\ i \notin overtaken
          BY <2>2, <4>3 DEF PlaceMove, Returns, Waits, history
        <5>2. act[b].at = "commit" => ~act[b].held
          BY <4>1, <5>1
        <5>3. QED
          BY <4>1, <5>1, <5>2
      <4>4. QED
        BY <4>2, <4>3
    <3>2. CASE b = a
      BY <2>2, <3>2 DEF PlaceMove, Returns, Waits, Enqueues
    <3>3. QED
      BY <3>1, <3>2
  <2>3. CASE RecordHostWait(a)
    BY <2>3 DEF RecordHostWait, Recorded, Return, At, NewMode
  <2>4. CASE AssignRefused(a) \/ AssignBusy(a) \/ Enqueue(a)
    BY <2>4 DEF AssignRefused, Return, At, AssignBusy, LeaseFree, Goto, Enqueue,
       Recorded, NewMode
  <2>5. QED
    BY <1>1, <2>1, <2>2, <2>3, <2>4 DEF Placing
<1>2. ASSUME NEW a \in Actor, Assigning(a) PROVE HoldOK(b, i)'
  <2>1. CASE AssignCommit(a)
    <3>1. act[a].job \in Job /\ act[a].host \in Host /\ CommitMove(a, act[a].job)
      BY <2>1, CommitMoves
    <3> DEFINE j == act[a].job h == act[a].host
    <3>2. state[j] = act[a].from \/ j \in overtaken'
      BY <3>1 DEF CommitMove
    <3>3. overtaken \subseteq overtaken' /\ UNCHANGED <<owner, lock, task, begun>>
      BY <3>1 DEF CommitMove, rigid
    <3>4. ASSUME NEW k \in Job \ {j}, Tree(k) PROVE Tree(k)'
      <4>1. lease[h] # k \/ lease'[h] = lease[h]
        BY <3>1, JobAssumption DEF CommitMove
      <4>2. assigned'[k] = assigned[k] /\ \A g \in Host \ {h} : lease'[g] = lease[g]
        BY <3>1 DEF CommitMove
      <4>3. QED
        BY <3>4, <4>1, <4>2
    <3>5. CASE i # j
      <4>1. b # a /\ act'[b] = act[b] /\ act[b].job = i /\ i \notin overtaken
        BY <3>1, <3>3, <3>5 DEF CommitMove, Assigned
      <4>2. HoldOK(b, i)
        BY <4>1
      <4>3. Landless(i) <=> Landless(i)'
        <5>1. NoJob # i
          BY JobAssumption
        <5>2. \A g \in Host : (lease'[g] = i) <=> (lease[g] = i)
          BY <3>1, <3>5, <5>1 DEF CommitMove
        <5>3. QED
          BY <5>2
      <4>4. state'[i] = state[i] /\ lock'[owner'[i]] = lock[owner[i]]
        BY <3>1, <3>3, <3>5 DEF CommitMove
      <4>5. Tree(i) => Tree(i)'
        BY <3>4, <3>5
      <4>6. QED
        BY <3>3, <4>1, <4>2, <4>3, <4>4, <4>5
    <3>6. CASE i = j /\ b # a
      <4>1. act'[b] = act[b] /\ act[b].job = j /\ j \notin overtaken /\ state[j] = act[a].from
        BY <3>1, <3>2, <3>3, <3>6 DEF CommitMove, Assigned
      <4>2. state'[j] = "ASSIGNED" /\ act[a].at = "commit"
        BY <3>1 DEF CommitMove
      <4>3. act[b].at \notin {"session", "rollback", "begin", "queue"}
        BY <3>6, <4>1, <4>2
      <4>4. HoldOK(b, j)
        BY <4>1
      <4>5. QED
        BY <3>6, <4>1, <4>2, <4>3, <4>4
    <3>7. CASE i = j /\ b = a
      <4>1. /\ act[a].at = "commit" /\ j \notin overtaken /\ state[j] = act[a].from
            /\ act'[a].at \in {"session", "begin"}
            /\ act'[a].at = "begin" =>
                  act[a].from = "QUEUED" \/ act[a].mode = "FINALIZE"
        BY <3>1, <3>2, <3>3, <3>7 DEF CommitMove, Assigned
      <4>2. HoldOK(a, j)
        BY <3>1, <4>1
      <4>3. Tree(j)'
        BY <3>1, <3>2, <3>3, <3>7, <4>1, <4>2 DEF CommitMove
      <4>4. act'[a].at = "begin" => lock'[owner'[j]] = j
        BY <3>1, <3>3, <4>1, <4>2
      <4>5. QED
        BY <3>7, <4>1, <4>3, <4>4
    <3>8. QED
      BY <3>5, <3>6, <3>7
  <2>2. CASE AcquireMove(a, act[a].job)
    BY <2>2 DEF AcquireMove, Locks
  <2>3. CASE QueueMove(a, act[a].job) \/ Begin(a)
    BY <2>3 DEF QueueMove, Returns, Waits, Enqueues, Begin, Then, Recorded, Move,
       Return, At
  <2>4. QED
    BY <1>2, <2>1, <2>2, <2>3 DEF Assigning
<1>3. ASSUME NEW a \in Actor, act[a].job \in Job, CancelMove(a, act[a].job)
      PROVE  HoldOK(b, i)'
  BY <1>3 DEF CancelMove
<1>4. ASSUME NEW a \in Actor, act[a].job \in Job, ReturnMove(a, act[a].job)
      PROVE  HoldOK(b, i)'
  <2>1. /\ act[b].job = i /\ i \notin overtaken
        /\ UNCHANGED <<state, assigned, begun, owner, overtaken>>
    <3>1. b # a => act'[b] = act[b]
      BY <1>4 DEF ReturnMove
    <3>2. b = a => act'[b].job \in {act[b].job, NoJob}
      BY <1>4 DEF ReturnMove
    <3>3. QED
      BY <1>4, <3>1, <3>2, JobAssumption DEF ReturnMove
  <2>2. HoldOK(b, i) /\ ActOK(b) /\ StateOK(b, i)
    BY <2>1 DEF HoldInv, ActInv, StateInv
  <2>3. CASE b = a
    BY <1>4, <2>1, <2>2, <2>3 DEF ReturnMove, Freed, Locks
  <2>4. CASE b # a
    <3>1. act'[b] = act[b]
      BY <1>4, <2>4 DEF ReturnMove
    <3>2. CASE act[a].job # i
      BY <1>4, <2>1, <2>2, <3>1, <3>2 DEF ReturnMove, Freed, Locks
    <3>3. CASE act[a].job = i
      BY <1>4, <2>1, <2>2, <2>4, <3>1, <3>3 DEF ReturnMove, Freed, Locks
    <3>4. QED
      BY <3>2, <3>3
  <2>5. QED
    BY <2>3, <2>4
<1>5. ASSUME NEW a \in Actor, NEW j \in Job, Requesting(a, j) PROVE HoldOK(b, i)'
  <2>1. CASE OpenMove(a, j)
    BY <2>1 DEF OpenMove, Locks
  <2>2. CASE RetryMove(a, j)
    <3>1. CASE b = a
      <4>1. /\ i = j /\ act'[b].at = "commit" /\ act'[b].from = state[i]
            /\ act'[b].held = ~Landless(i)
        BY <2>2, <3>1 DEF RetryMove
      <4>2. UNCHANGED <<state, lease, assigned, begun>> /\ state[i] # "QUEUED"
        BY <2>2, <4>1 DEF RetryMove
      <4>3. i \notin overtaken /\ state[i] \in {"WAITING_HOST", "WAITING_LEASE"}
        BY <2>2, <4>1 DEF RetryMove
      <4>4. state[i] = "WAITING_LEASE" => Landless(i)
        BY <4>3
      <4>5. QED
        <5>1. act'[b].at = "commit" /\ Landless(i)' = Landless(i) /\ state' = state
          BY <4>1, <4>2
        <5>2. QED
          BY <4>1, <4>2, <4>3, <4>4, <5>1
    <3>2. CASE b # a
      <4>1. HoldOK(b, i) /\ act'[b] = act[b]
        BY <2>2, <3>2 DEF RetryMove
      <4>2. QED
        BY <2>2, <4>1 DEF RetryMove
    <3>3. QED
      BY <3>1, <3>2
  <2>3. CASE CancelRequest(a, j)
    BY <2>3 DEF CancelRequest, Move, At
  <2>4. QED
    BY <1>5, <2>1, <2>2, <2>3 DEF Requesting
<1>6. ASSUME NEW j \in Job, TaskMove(j) PROVE HoldOK(b, i)'
  BY <1>6 DEF TaskMove, Freed, Locks
<1>7. ASSUME NEW j \in Job, Tidying(j) PROVE HoldOK(b, i)'
  BY <1>7, UnleasedFrees, UnlockedFrees DEF Tidying, ForgetFinished, At, Recorded,
     Repair, Move, Remote, NewMode, OldMode, Freed, Locks
<1>8. CASE Restarting
  BY <1>8, HostAssumption DEF Restarting, Crash, RefuseStart, StartMove, Claims, Ready,
     vars
<1>9. QED
  BY <1>1, <1>2, <1>3, <1>4, <1>5, <1>6, <1>7, <1>8 DEF NextMove

\* The task of a Job releases only what a finished Job holds.
LEMMA TaskStep ==
    ASSUME TypeOK, ActInv, DownInv, TaskInv, NextMove
    PROVE  TaskInv'
<1> SUFFICES ASSUME NEW i \in Job, i \notin overtaken', task'[i] \in Releasing
             PROVE  state'[i] \in TerminalStates
  BY DEF TaskInv
<1> USE DEF TypeOK, RowsTypeOK, MemoryTypeOK, ActInv, ActOK, DownInv, TaskInv,
   Releasing, TerminalStates, Suspended, Live
<1>1. ASSUME NEW a \in Actor, Placing(a) PROVE state'[i] \in TerminalStates
  BY <1>1 DEF Placing, AddJob, Move, Goto, At, PlaceMove, Returns, Waits, Enqueues,
     RecordHostWait, Recorded, Return, NewMode, AssignRefused, AssignBusy, LeaseFree,
     Enqueue
<1>2. ASSUME NEW a \in Actor, Assigning(a) PROVE state'[i] \in TerminalStates
  <2>1. CASE AssignCommit(a) \/ AcquireMove(a, act[a].job)
    BY <2>1 DEF AssignCommit, LeaseFree, Moved, Move, At, AcquireMove, Locks
  <2>2. CASE QueueMove(a, act[a].job) \/ Begin(a)
    BY <2>2 DEF QueueMove, Returns, Waits, Enqueues, Begin, Then, Recorded, Move,
       Return, At
  <2>3. QED
    BY <1>2, <2>1, <2>2 DEF Assigning
<1>3. ASSUME NEW a \in Actor, act[a].job \in Job, CancelMove(a, act[a].job)
      PROVE  state'[i] \in TerminalStates
  BY <1>3 DEF CancelMove
<1>4. ASSUME NEW a \in Actor, act[a].job \in Job, ReturnMove(a, act[a].job)
      PROVE  state'[i] \in TerminalStates
  BY <1>4 DEF ReturnMove, Locks, Freed
<1>5. ASSUME NEW a \in Actor, NEW j \in Job, Requesting(a, j)
      PROVE  state'[i] \in TerminalStates
  BY <1>5 DEF Requesting, OpenMove, Locks, RetryMove, CancelRequest, Move, At
<1>6. ASSUME NEW j \in Job, TaskMove(j) PROVE state'[i] \in TerminalStates
  BY <1>6 DEF TaskMove, Freed, Locks
<1>7. ASSUME NEW j \in Job, Tidying(j) PROVE state'[i] \in TerminalStates
  BY <1>7, UnleasedFrees, UnlockedFrees DEF Tidying, ForgetFinished, At, Recorded,
     Repair, Move, Remote, NewMode, OldMode, Freed, Locks
<1>8. CASE Restarting
  BY <1>8, HostAssumption DEF Restarting, Crash, RefuseStart, StartMove, Claims, Ready,
     vars
<1>9. QED
  BY <1>1, <1>2, <1>3, <1>4, <1>5, <1>6, <1>7, <1>8 DEF NextMove

\* A Job that has started keeps its tree and its session.
LEMMA HeldStep ==
    ASSUME TypeOK, ActInv, DownInv, BegunInv, StateInv, NewInv, HoldInv, TaskInv,
       LeaseHeldSinceStart, WaitingOwnsNothing, begun' \subseteq Job, NextMove
    PROVE  LeaseHeldSinceStart'
<1> SUFFICES ASSUME NEW i \in Job, i \in begun', i \notin overtaken', Live(i)'
             PROVE  Owns(i)'
  BY DEF LeaseHeldSinceStart, Owns, Tree, TypeOK
<1> USE DEF TypeOK, RowsTypeOK, MemoryTypeOK, ActInv, ActOK, DownInv, BegunInv, BegunOK,
   BegunState, BegunPhase, Landless, Creates, StateInv, StateOK, Releasing, NewInv,
   HoldInv, HoldOK, TaskInv, Owns, Tree, LeaseHeldSinceStart, WaitingOwnsNothing,
   TerminalStates, Suspended, Live
<1>1. ASSUME NEW a \in Actor, Placing(a) PROVE Owns(i)'
  <2>1. CASE AddJob(a) \/ PlaceMove(a, act[a].job) \/ RecordHostWait(a)
    BY <2>1 DEF AddJob, Move, Goto, At, PlaceMove, Returns, Waits, Enqueues,
       RecordHostWait, Recorded, Return, NewMode
  <2>2. CASE AssignRefused(a) \/ AssignBusy(a) \/ Enqueue(a)
    BY <2>2 DEF AssignRefused, Return, At, AssignBusy, LeaseFree, Goto, Enqueue,
       Recorded, NewMode
  <2>3. QED
    BY <1>1, <2>1, <2>2 DEF Placing
<1>2. ASSUME NEW a \in Actor, Assigning(a) PROVE Owns(i)'
  <2>1. CASE AssignCommit(a)
    <3>1. act[a].job \in Job /\ act[a].host \in Host /\ CommitMove(a, act[a].job)
      BY <2>1, CommitMoves
    <3> DEFINE j == act[a].job h == act[a].host
    <3>2. state[j] = act[a].from \/ j \in overtaken'
      BY <3>1 DEF CommitMove
    <3>3. overtaken \subseteq overtaken' /\ UNCHANGED <<owner, lock, task, begun>>
      BY <3>1 DEF CommitMove, rigid
    <3>4. ASSUME NEW k \in Job \ {j}, Tree(k) PROVE Tree(k)'
      <4>1. lease[h] # k \/ lease'[h] = lease[h]
        BY <3>1, JobAssumption DEF CommitMove
      <4>2. assigned'[k] = assigned[k] /\ \A g \in Host \ {h} : lease'[g] = lease[g]
        BY <3>1 DEF CommitMove
      <4>3. QED
        BY <3>4, <4>1, <4>2
    <3>5. CASE i = j
      <4>1. i \notin overtaken /\ state[i] = act[a].from /\ Live(i) /\ i \in begun
        BY <3>1, <3>2, <3>3, <3>5 DEF CommitMove
      <4>2. Owns(i)
        BY <3>5, <4>1
      <4>3. QED
        BY <3>1, <3>3, <3>5, <4>2 DEF CommitMove
    <3>6. CASE i # j
      <4>1. state'[i] = state[i] /\ i \notin overtaken
        BY <3>1, <3>3, <3>6 DEF CommitMove
      <4>2. Owns(i)
        BY <3>3, <3>6, <4>1
      <4>3. QED
        BY <3>3, <3>4, <3>6, <4>2
    <3>7. QED
      BY <3>5, <3>6
  <2>2. CASE AcquireMove(a, act[a].job)
    BY <2>2 DEF AcquireMove, Locks
  <2>3. CASE QueueMove(a, act[a].job) \/ Begin(a)
    BY <2>3 DEF QueueMove, Returns, Waits, Enqueues, Begin, Then, Recorded, Move,
       Return, At
  <2>4. QED
    BY <1>2, <2>1, <2>2, <2>3 DEF Assigning
<1>3. ASSUME NEW a \in Actor, act[a].job \in Job, CancelMove(a, act[a].job)
      PROVE  Owns(i)'
  <2>1. UNCHANGED <<owner, assigned, lease, lock, begun, overtaken>>
    BY <1>3 DEF CancelMove
  <2>2. Live(i)
    BY <1>3 DEF CancelMove
  <2>3. QED
    BY <2>1, <2>2
<1>4. ASSUME NEW a \in Actor, act[a].job \in Job, ReturnMove(a, act[a].job)
      PROVE  Owns(i)'
  <2>1. /\ UNCHANGED <<owner, state, assigned, begun, overtaken>> /\ Owns(i)
        /\ act[a].at \in {"giveback", "unlock", "rollback", "unlease"}
    BY <1>4 DEF ReturnMove
  <2>2. act[a].job # i
    <3>1. CASE act[a].job = i
      <4>1. HoldOK(a, i) /\ StateOK(a, i)
        BY <2>1, <3>1
      <4>2. QED
        BY <1>4, <2>1, <3>1, <4>1
    <3>2. QED
      BY <3>1
  <2>3. QED
    BY <1>4, <2>1, <2>2 DEF ReturnMove, Locks, Freed
<1>5. ASSUME NEW a \in Actor, NEW j \in Job, Requesting(a, j) PROVE Owns(i)'
  BY <1>5 DEF Requesting, OpenMove, Locks, RetryMove, CancelRequest, Move, At
<1>6. ASSUME NEW j \in Job, TaskMove(j) PROVE Owns(i)'
  BY <1>6 DEF TaskMove, Freed, Locks
<1>7. ASSUME NEW j \in Job, Tidying(j) PROVE Owns(i)'
  BY <1>7, UnleasedFrees, UnlockedFrees DEF Tidying, ForgetFinished, At, Recorded,
     Repair, Move, Remote, NewMode, OldMode, Freed, Locks
<1>8. CASE Restarting
  BY <1>8, HostAssumption DEF Restarting, Crash, RefuseStart, StartMove, Claims, Ready,
     vars
<1>9. QED
  BY <1>1, <1>2, <1>3, <1>4, <1>5, <1>6, <1>7, <1>8 DEF NextMove

\* A queued Job holds nothing.
LEMMA WaitStep ==
    ASSUME TypeOK, ActInv, DownInv, BegunInv, StateInv, HoldInv, TaskInv,
       WaitingOwnsNothing, NextMove
    PROVE  WaitingOwnsNothing'
<1> DEFINE Nothing(i) == Landless(i) /\ lock[owner[i]] # i
<1> SUFFICES ASSUME NEW i \in Job, i \notin overtaken', state'[i] = "WAITING_LEASE"
             PROVE  Nothing(i)'
  BY DEF WaitingOwnsNothing, Landless
<1> USE DEF TypeOK, RowsTypeOK, MemoryTypeOK, ActInv, ActOK, DownInv, BegunInv, BegunOK,
   BegunState, BegunPhase, Landless, StateInv, StateOK, Releasing, HoldInv, HoldOK,
   WaitingOwnsNothing, TerminalStates, Suspended, Live
<1>1. ASSUME NEW a \in Actor, Placing(a) PROVE Nothing(i)'
  <2>1. CASE AddJob(a) \/ PlaceMove(a, act[a].job) \/ RecordHostWait(a)
    BY <2>1 DEF AddJob, Move, Goto, At, PlaceMove, Returns, Waits, Enqueues,
       RecordHostWait, Recorded, Return, NewMode
  <2>2. CASE AssignRefused(a) \/ AssignBusy(a) \/ Enqueue(a)
    BY <2>2 DEF AssignRefused, Return, At, AssignBusy, LeaseFree, Goto, Enqueue,
       Recorded, NewMode
  <2>3. QED
    BY <1>1, <2>1, <2>2 DEF Placing
<1>2. ASSUME NEW a \in Actor, Assigning(a) PROVE Nothing(i)'
  <2>1. CASE AssignCommit(a) \/ AcquireMove(a, act[a].job)
    BY <2>1 DEF AssignCommit, LeaseFree, Moved, Move, At, AcquireMove, Locks
  <2>2. CASE QueueMove(a, act[a].job) \/ Begin(a)
    BY <2>2 DEF QueueMove, Returns, Waits, Enqueues, Begin, Then, Recorded, Move,
       Return, At
  <2>3. QED
    BY <1>2, <2>1, <2>2 DEF Assigning
<1>3. ASSUME NEW a \in Actor, act[a].job \in Job, CancelMove(a, act[a].job)
      PROVE  Nothing(i)'
  BY <1>3 DEF CancelMove
<1>4. ASSUME NEW a \in Actor, act[a].job \in Job, ReturnMove(a, act[a].job)
      PROVE  Nothing(i)'
  BY <1>4 DEF ReturnMove, Locks, Freed
<1>5. ASSUME NEW a \in Actor, NEW j \in Job, Requesting(a, j) PROVE Nothing(i)'
  BY <1>5 DEF Requesting, OpenMove, Locks, RetryMove, CancelRequest, Move, At
<1>6. ASSUME NEW j \in Job, TaskMove(j) PROVE Nothing(i)'
  <2>1. /\ state'[i] = "WAITING_LEASE" => state[i] = "WAITING_LEASE"
        /\ UNCHANGED <<owner, overtaken>>
    BY <1>6 DEF TaskMove, BegunState
  <2>2. task[i] \notin Releasing /\ owner[i] \in Session
    BY <2>1 DEF TaskInv
  <2>3. QED
    BY <1>6, <2>1, <2>2 DEF TaskMove, Freed, Locks
<1>7. ASSUME NEW j \in Job, Tidying(j) PROVE Nothing(i)'
  BY <1>7, UnleasedFrees, UnlockedFrees DEF Tidying, ForgetFinished, At, Recorded,
     Repair, Move, Remote, NewMode, OldMode, Freed, Locks
<1>8. CASE Restarting
  BY <1>8, HostAssumption DEF Restarting, Crash, RefuseStart, StartMove, Claims, Ready,
     vars
<1>9. QED
  BY <1>1, <1>2, <1>3, <1>4, <1>5, <1>6, <1>7, <1>8 DEF NextMove

\* The tree of a finished Job is free, or about to be freed.
LEMMA LeakStep ==
    ASSUME TypeOK, ActInv, DownInv, BegunInv, StateInv, NoLeakedLease, NextMove
    PROVE  NoLeakedLease'
<1> DEFINE Freeing(i) == \/ task[i] \in Releasing
                        \/ \E d \in Actor : act[d].job = i /\ act[d].at \in Releasing
<1> SUFFICES ASSUME controller' = "up", NEW i \in Job, i \notin overtaken', NEW h \in Host,
                    state'[i] \in TerminalStates, lease'[h] = i
             PROVE  Freeing(i)'
  BY DEF NoLeakedLease, Releasing
<1> USE DEF TypeOK, RowsTypeOK, MemoryTypeOK, ActInv, ActOK, DownInv, BegunInv, BegunOK,
   BegunState, BegunPhase, Landless, StateInv, StateOK, Releasing, NoLeakedLease,
   TerminalStates, Suspended, Live
<1>1. ASSUME NEW a \in Actor, Placing(a) PROVE Freeing(i)'
  <2>1. CASE AddJob(a)
    BY <2>1 DEF AddJob, Move, Goto, At
  <2>2. CASE PlaceMove(a, act[a].job)
    <3>1. controller = "up" /\ i \notin overtaken /\ lease[h] = i /\ task'[i] = task[i]
      BY <2>2 DEF PlaceMove
    <3>2. state[i] \in TerminalStates
      <4>1. CASE UNCHANGED state
        BY <4>1
      <4>2. ASSUME NEW s \in {"WAITING_HOST", "WAITING_LEASE"}, Waits(a, act[a].job, s)
            PROVE  state[i] \in TerminalStates
        BY <2>2, <4>2 DEF Waits
      <4>3. QED
        BY <2>2, <4>1, <4>2 DEF PlaceMove, Returns
    <3>3. ASSUME NEW d \in Actor, act[d].job = i, act[d].at \in Releasing
          PROVE  act'[d].job = i /\ act'[d].at \in Releasing
      <4>1. d # a
        BY <2>2, <3>3 DEF PlaceMove
      <4>2. act'[d] = act[d]
        BY <2>2, <4>1 DEF PlaceMove, Returns, Enqueues
      <4>3. QED
        BY <3>3, <4>2
    <3>4. QED
      BY <3>1, <3>2, <3>3 DEF NoLeakedLease
  <2>3. CASE RecordHostWait(a)
    BY <2>3 DEF RecordHostWait, Recorded, Return, At, NewMode
  <2>4. CASE AssignRefused(a)
    BY <2>4 DEF AssignRefused, Return, At
  <2>5. CASE AssignBusy(a)
    <3>1. controller = "up" /\ i \notin overtaken /\ lease[h] = i
      BY <2>5 DEF AssignBusy, At
    <3>2. state[i] \in TerminalStates /\ task'[i] = task[i]
      BY <2>5 DEF AssignBusy
    <3>3. ASSUME NEW d \in Actor, act[d].job = i, act[d].at \in Releasing
          PROVE  act'[d].job = i /\ act'[d].at \in Releasing
      BY <2>5, <3>1, <3>3 DEF AssignBusy, At, Goto, Return
    <3>4. QED
      BY <3>1, <3>2, <3>3 DEF NoLeakedLease
  <2>6. CASE Enqueue(a)
    BY <2>6 DEF Enqueue, Recorded, Return, At, NewMode
  <2>7. QED
    BY <1>1, <2>1, <2>2, <2>3, <2>4, <2>5, <2>6 DEF Placing
<1>2. ASSUME NEW a \in Actor, Assigning(a) PROVE Freeing(i)'
  <2>1. CASE AssignCommit(a)
    BY <2>1 DEF AssignCommit, LeaseFree, Moved, Move, At
  <2>2. CASE AcquireMove(a, act[a].job)
    <3>1. controller = "up" /\ i \notin overtaken /\ lease[h] = i /\ task'[i] = task[i]
      BY <2>2 DEF AcquireMove
    <3>2. state[i] \in TerminalStates
      BY <2>2 DEF AcquireMove
    <3>3. ASSUME NEW d \in Actor, act[d].job = i, act[d].at \in Releasing
          PROVE  act'[d].job = i /\ act'[d].at \in Releasing
      <4>1. d # a
        BY <2>2, <3>3 DEF AcquireMove
      <4>2. act'[d] = act[d]
        BY <2>2, <4>1 DEF AcquireMove
      <4>3. QED
        BY <3>3, <4>2
    <3>4. QED
      BY <3>1, <3>2, <3>3 DEF NoLeakedLease
  <2>3. CASE QueueMove(a, act[a].job)
    <3>1. controller = "up" /\ i \notin overtaken /\ lease[h] = i /\ task'[i] = task[i]
      BY <2>3 DEF QueueMove
    <3>2. state[i] \in TerminalStates
      <4>1. CASE UNCHANGED state
        BY <4>1
      <4>2. ASSUME NEW s \in {"WAITING_HOST", "WAITING_LEASE"}, Waits(a, act[a].job, s)
            PROVE  state[i] \in TerminalStates
        BY <2>3, <4>2 DEF Waits
      <4>3. QED
        BY <2>3, <4>1, <4>2 DEF QueueMove, Returns
    <3>3. ASSUME NEW d \in Actor, act[d].job = i, act[d].at \in Releasing
          PROVE  act'[d].job = i /\ act'[d].at \in Releasing
      <4>1. d # a
        BY <2>3, <3>3 DEF QueueMove
      <4>2. act'[d] = act[d]
        BY <2>3, <4>1 DEF QueueMove, Returns, Enqueues
      <4>3. QED
        BY <3>3, <4>2
    <3>4. QED
      BY <3>1, <3>2, <3>3 DEF NoLeakedLease
  <2>4. CASE Begin(a)
    BY <2>4 DEF Begin, Then, Recorded, Move, Return, At
  <2>5. QED
    BY <1>2, <2>1, <2>2, <2>3, <2>4 DEF Assigning
<1>3. ASSUME NEW a \in Actor, act[a].job \in Job, CancelMove(a, act[a].job)
      PROVE  Freeing(i)'
  <2>1. controller = "up" /\ i \notin overtaken /\ lease[h] = i
    BY <1>3 DEF CancelMove
  <2>2. task[i] \in Releasing => task'[i] \in Releasing
    BY <1>3 DEF CancelMove
  <2>3. ASSUME NEW d \in Actor, act[d].job = i, act[d].at \in Releasing
        PROVE  act'[d].job = i /\ act'[d].at \in Releasing
    <3>1. d # a
      BY <1>3, <2>3 DEF CancelMove
    <3>2. act'[d] = act[d]
      BY <1>3, <3>1 DEF CancelMove
    <3>3. QED
      BY <2>3, <3>2
  <2>4. CASE state[i] \in TerminalStates
    BY <2>1, <2>2, <2>3, <2>4 DEF NoLeakedLease
  <2>5. CASE state[i] \notin TerminalStates
    <3>1. i = act[a].job /\ act' = [act EXCEPT ![a].at = "unlock"]
      BY <1>3, <2>5 DEF CancelMove
    <3>2. act'[a].job = i /\ act'[a].at \in Releasing
      BY <3>1
    <3>3. QED
      BY <3>2
  <2>6. QED
    BY <2>4, <2>5
<1>4. ASSUME NEW a \in Actor, act[a].job \in Job, ReturnMove(a, act[a].job)
      PROVE  Freeing(i)'
  <2>1. controller = "up" /\ i \notin overtaken /\ lease[h] = i
    <3>1. CASE UNCHANGED lease
      BY <1>4, <3>1 DEF ReturnMove
    <3>2. CASE Freed(act[a].job)
      <4>1. i # act[a].job
        BY <3>2 DEF Freed
      <4>2. lease[h] = i
        BY <3>2, <4>1 DEF Freed
      <4>3. QED
        BY <1>4, <4>2 DEF ReturnMove
    <3>3. QED
      BY <1>4, <3>1, <3>2 DEF ReturnMove
  <2>2. state[i] \in TerminalStates /\ task'[i] = task[i]
    BY <1>4 DEF ReturnMove
  <2>3. ASSUME NEW d \in Actor, act[d].job = i, act[d].at \in Releasing
        PROVE  act'[d].job = i /\ act'[d].at \in Releasing
    <3>1. ~Freed(i)
      BY DEF Freed
    <3>2. QED
      BY <1>4, <2>3, <3>1 DEF ReturnMove
  <2>4. QED
    BY <2>1, <2>2, <2>3 DEF NoLeakedLease
<1>5. ASSUME NEW a \in Actor, NEW j \in Job, Requesting(a, j) PROVE Freeing(i)'
  <2>1. CASE OpenMove(a, j)
    BY <2>1 DEF OpenMove, Locks
  <2>2. CASE RetryMove(a, j)
    BY <2>2 DEF RetryMove
  <2>3. CASE CancelRequest(a, j)
    BY <2>3 DEF CancelRequest, Move, At
  <2>4. QED
    BY <1>5, <2>1, <2>2, <2>3 DEF Requesting
<1>6. ASSUME NEW j \in Job, TaskMove(j) PROVE Freeing(i)'
  BY <1>6 DEF TaskMove, Freed, Locks
<1>7. ASSUME NEW j \in Job, Tidying(j) PROVE Freeing(i)'
  BY <1>7, UnleasedFrees, UnlockedFrees DEF Tidying, ForgetFinished, At, Recorded,
     Repair, Move, Remote, NewMode, OldMode, Freed, Locks
<1>8. CASE Restarting
  BY <1>8, HostAssumption DEF Restarting, Crash, RefuseStart, StartMove, Claims, Ready,
     vars
<1>9. QED
  BY <1>1, <1>2, <1>3, <1>4, <1>5, <1>6, <1>7, <1>8 DEF NextMove

-----------------------------------------------------------------------------
(* The invariant and the theorems.                                         *)

\* The invariant holds when the Controller is started for the first time.
LEMMA InvInit == Init => IInv
<1> SUFFICES ASSUME Init PROVE IInv
  OBVIOUS
<1> USE DEF Init, IdleAct
<1>1. TypeOK
  BY DEF TypeOK, RowsTypeOK, MemoryTypeOK, JobState, ActPhase, TaskPhase
<1>2. ActInv /\ CreateInv /\ StateInv /\ AssignInv /\ HoldInv
  BY JobAssumption DEF ActInv, ActOK, CreateInv, Creates, StateInv, AssignInv, HoldInv
<1>3. DownInv /\ NewInv /\ TaskInv
  BY DEF DownInv, NewInv, TaskInv, Releasing
<1>4. BegunInv
  BY JobAssumption DEF BegunInv, BegunOK, BegunState, BegunPhase, Suspended, Landless
<1>5. LeaseHeldSinceStart /\ WaitingOwnsNothing /\ NoLeakedLease
  BY DEF LeaseHeldSinceStart, WaitingOwnsNothing, NoLeakedLease
<1>6. QED
  BY <1>1, <1>2, <1>3, <1>4, <1>5 DEF IInv

\* Every step preserves the invariant.
LEMMA InvStep == IInv /\ [Next]_vars => IInv'
<1> SUFFICES ASSUME IInv, [Next]_vars PROVE IInv'
  OBVIOUS
<1>1. TypeOK' /\ NextMove
  BY TypeStep, NextMoves DEF IInv
<1>2. ActInv' /\ DownInv' /\ BegunInv' /\ CreateInv'
  BY <1>1, ActStep, DownStep, BegunStep, CreateStep DEF IInv
<1>3. StateInv' /\ AssignInv' /\ NewInv' /\ HoldInv' /\ TaskInv'
  BY <1>1, StateStep, AssignStep, NewStep, HoldStep, TaskStep DEF IInv
<1>4. begun' \subseteq Job
  BY <1>1 DEF TypeOK
<1>5. LeaseHeldSinceStart' /\ WaitingOwnsNothing' /\ NoLeakedLease'
  BY <1>1, <1>4, HeldStep, WaitStep, LeakStep DEF IInv
<1>6. QED
  BY <1>1, <1>2, <1>3, <1>5 DEF IInv

\* The invariant of the rows, the requests and the tasks that the other theorems rest on.
THEOREM Invariance == Spec => []IInv
<1>1. QED
  BY InvInit, InvStep, PTL DEF Spec

\* Every row, every record and every phase is of its kind.
THEOREM TypeCorrect == Spec => []TypeOK
<1>1. IInv => TypeOK
  BY DEF IInv
<1>2. QED
  BY <1>1, Invariance, PTL

\* From the start of Codex to its terminal state a Job keeps its tree and its session,
\* through every suspension, lost Runner, crash, restart and retry.
THEOREM StartedJobsKeepTheirTree == Spec => []LeaseHeldSinceStart
<1>1. IInv => LeaseHeldSinceStart
  BY DEF IInv
<1>2. QED
  BY <1>1, Invariance, PTL

\* A Job in the queue holds neither a tree nor a session, however it came there.
THEOREM QueuedJobsHoldNothing == Spec => []WaitingOwnsNothing
<1>1. IInv => WaitingOwnsNothing
  BY DEF IInv
<1>2. QED
  BY <1>1, Invariance, PTL

\* While the Controller is up, whatever a finished Job still leases is about to be freed.
THEOREM FinishedJobsFreeTheirTree == Spec => []NoLeakedLease
<1>1. IInv => NoLeakedLease
  BY DEF IInv
<1>2. QED
  BY <1>1, Invariance, PTL

=============================================================================
