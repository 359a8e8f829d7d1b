------------------------ MODULE RunnerDaemon_proofs -------------------------
(***************************************************************************)
(* Machine-checked proofs about RunnerDaemon, for every set of executions  *)
(* and every value of the bounds.  Each step lemma treats the next-state   *)
(* relation by its groups of actions: start-up, connection, JOB_START      *)
(* handler, end of the process, recovery, commands, end of an execution    *)
(* and the Controller.                                                     *)
(***************************************************************************)
EXTENDS RunnerDaemon, TLAPS

USE DEF Idle, Entry, Persisted, NotPersisted, Killed, TerminationFails,
        Disconnected, SafetyExit, memory, wire, controller, bounds

-----------------------------------------------------------------------------
(* The queue of commands.                                                  *)

Cmd(type, e) == [type |-> type, exec |-> e]
Received ==
    \/ inbox' = inbox
    \/ inbox' = <<>>
    \/ inbox # <<>> /\ inbox' = Tail(inbox)
InboxMove ==
    \/ Received /\ issued' = issued /\ acked' = acked
    \/ \E e \in Exec :
          \/ /\ inbox' = Append(inbox, Cmd("JOB_START", e)) /\ e \notin issued
             /\ issued' = issued \cup {e} /\ acked' = acked
          \/ /\ inbox' = Append(inbox, Cmd("JOB_CANCEL", e))
             /\ issued' = issued /\ acked' = acked
          \/ /\ inbox' = Append(inbox, Cmd("JOB_RESULT_ACK", e))
             /\ issued' = issued /\ acked' = acked \cup {e}

\* Commands are received in order, lost all together, or sent at the back; a
\* JOB_START carries a new id and an ACK is recorded with its command.
LEMMA InboxMoves == [Next]_vars => InboxMove
<1> SUFFICES ASSUME [Next]_vars PROVE InboxMove
  OBVIOUS
<1> USE DEF InboxMove, Received
<1>1. CASE Boot \/ Recovered \/ Connection
  BY <1>1 DEF Boot, Recovered, Connection, Connect, FatalStop, ConnectFails,
              Register, SocketBreaks, ReceiverEnds, HeartbeatFails
<1>2. CASE StartHandler
  BY <1>2 DEF StartHandler, SpawnCodex, StartFails, StartUnsafe, AttachPid,
              CleanUpStart, AcceptJob
<1>3. CASE Stop \/ Exited \/ Crash
  BY <1>3 DEF Stop, Exited, Crash, ProcessGone
<1>4. ASSUME NEW e \in Exec, Recover(e) \/ Finish(e) PROVE InboxMove
  BY <1>4 DEF Recover, RecoverStarting, RecoverRunning, RecoverCompleted,
              Finish, CodexExits, FinishJob, FinishUnsafe, TearDown, RecordFatal
<1>5. ASSUME NEW e \in Exec, HandleCommand(e) PROVE InboxMove
  BY <1>5 DEF HandleCommand, HandleStart, HandleCancel, HandleAck, Handling
<1>6. ASSUME NEW e \in Exec, Controller(e) PROVE InboxMove
  BY <1>6 DEF Controller, SendStart, SendCancel, ReceiveResult, SendAck,
              CanSend, Send, Cmd
<1>7. CASE UNCHANGED vars
  BY <1>7 DEF vars
<1>8. QED
  BY <1>1, <1>2, <1>3, <1>4, <1>5, <1>6, <1>7 DEF Next

\* Every command in the queue stays well formed.
LEMMA InboxTyped == ASSUME InboxTypeOK, InboxMove PROVE InboxTypeOK'
<1> USE DEF InboxTypeOK
<1>1. CASE Received
  <2>1. CASE inbox' = inbox
    BY <2>1
  <2>2. CASE inbox' = <<>>
    BY <2>2
  <2>3. CASE inbox # <<>> /\ inbox' = Tail(inbox)
    BY <2>3
  <2>4. QED
    BY <1>1, <2>1, <2>2, <2>3 DEF Received
<1>2. ASSUME NEW e \in Exec, NEW t \in {"JOB_START", "JOB_CANCEL", "JOB_RESULT_ACK"},
             inbox' = Append(inbox, Cmd(t, e))
      PROVE  InboxTypeOK'
  <2>1. Cmd(t, e) \in Command
    BY DEF Cmd, Command
  <2>2. QED
    BY <1>2, <2>1
<1>3. QED
  BY <1>1, <1>2 DEF InboxMove

\* The execution whose JOB_START is handled was pending at the head of the inbox.
LEMMA StartWasPending ==
    ASSUME InboxTypeOK, NEW e \in Exec, HandleStart(e) PROVE Pending(e)
<1>1. 1 \in 1..Len(inbox) /\ inbox[1] = Head(inbox)
  BY DEF InboxTypeOK, HandleStart, Handling
<1>2. QED
  BY <1>1 DEF HandleStart, Handling, Pending

\* The Runner handles a JOB_RESULT_ACK only for an execution the Controller acked.
LEMMA AckWasSent ==
    ASSUME InboxTypeOK, InboxInv, NEW e \in Exec, HandleAck(e) PROVE e \in acked
<1>1. 1 \in 1..Len(inbox) /\ inbox[1] = Head(inbox)
  BY DEF InboxTypeOK, HandleAck, Handling
<1>2. QED
  BY <1>1 DEF HandleAck, Handling, InboxInv

-----------------------------------------------------------------------------
(* Types.                                                                  *)

\* Every step of the Runner, its Codex processes and the Controller's end keeps
\* every variable in its type.
LEMMA TypeStep == TypeOK /\ [Next]_vars => TypeOK'
<1> SUFFICES ASSUME TypeOK, [Next]_vars PROVE TypeOK'
  OBVIOUS
<1> USE DEF TypeOK
<1>0. InboxTypeOK'
  BY InboxMoves, InboxTyped
<1>1. CASE Boot \/ Recovered
  <2> USE <1>1 DEF Boot, Recovered
  <2>1. JournalTypeOK'
    BY DEF JournalTypeOK, StartTypeOK, EntryState, ProcState
  <2>2. TaskTypeOK'
    BY DEF TaskTypeOK, StartTypeOK
  <2>3. StartTypeOK'
    BY NoExecAssumption DEF StartTypeOK
  <2>4. LinkTypeOK'
    BY DEF LinkTypeOK, TaskTypeOK
  <2>5. BoundsTypeOK'
    BY DEF BoundsTypeOK
  <2>6. QED
    BY <1>0, <2>1, <2>2, <2>3, <2>4, <2>5
<1>2. CASE Connection
  <2> USE <1>2 DEF Connection, Connect, FatalStop, ConnectFails, Register,
       SocketBreaks, ReceiverEnds, HeartbeatFails, AbandonStart
  <2>1. JournalTypeOK'
    BY DEF JournalTypeOK, StartTypeOK, EntryState, ProcState
  <2>2. TaskTypeOK'
    BY DEF TaskTypeOK, StartTypeOK
  <2>3. StartTypeOK'
    BY NoExecAssumption DEF StartTypeOK
  <2>4. LinkTypeOK'
    BY DEF LinkTypeOK, TaskTypeOK
  <2>5. BoundsTypeOK'
    BY DEF BoundsTypeOK
  <2>6. QED
    BY <1>0, <2>1, <2>2, <2>3, <2>4, <2>5
<1>3. CASE StartHandler
  <2> USE <1>3 DEF StartHandler, SpawnCodex, StartFails, StartUnsafe,
       AttachPid, CleanUpStart, AcceptJob
  <2>1. JournalTypeOK'
    BY DEF JournalTypeOK, StartTypeOK, EntryState, ProcState
  <2>2. TaskTypeOK'
    BY DEF TaskTypeOK, StartTypeOK
  <2>3. StartTypeOK'
    BY NoExecAssumption DEF StartTypeOK
  <2>4. LinkTypeOK'
    BY DEF LinkTypeOK, TaskTypeOK
  <2>5. BoundsTypeOK'
    BY DEF BoundsTypeOK
  <2>6. QED
    BY <1>0, <2>1, <2>2, <2>3, <2>4, <2>5
<1>4. CASE Stop \/ Exited \/ Crash
  <2> USE <1>4 DEF Stop, Exited, Crash, AbandonStart, ProcessGone
  <2>1. JournalTypeOK'
    BY DEF JournalTypeOK, StartTypeOK, EntryState, ProcState
  <2>2. TaskTypeOK'
    BY DEF TaskTypeOK, StartTypeOK
  <2>3. StartTypeOK'
    BY NoExecAssumption DEF StartTypeOK
  <2>4. LinkTypeOK'
    BY DEF LinkTypeOK, TaskTypeOK
  <2>5. BoundsTypeOK'
    BY DEF BoundsTypeOK
  <2>6. QED
    BY <1>0, <2>1, <2>2, <2>3, <2>4, <2>5
<1>5. ASSUME NEW e \in Exec, Recover(e) PROVE TypeOK'
  <2> USE <1>5 DEF Recover, RecoverStarting, RecoverRunning, RecoverCompleted
  <2>1. JournalTypeOK'
    BY DEF JournalTypeOK, StartTypeOK, EntryState, ProcState
  <2>2. TaskTypeOK'
    BY DEF TaskTypeOK, StartTypeOK
  <2>3. StartTypeOK'
    BY NoExecAssumption DEF StartTypeOK
  <2>4. LinkTypeOK'
    BY DEF LinkTypeOK, TaskTypeOK
  <2>5. BoundsTypeOK'
    BY DEF BoundsTypeOK
  <2>6. QED
    BY <1>0, <2>1, <2>2, <2>3, <2>4, <2>5
<1>6. ASSUME NEW e \in Exec, HandleCommand(e) PROVE TypeOK'
  <2> USE <1>6 DEF HandleCommand, HandleStart, HandleCancel, HandleAck,
       Handling
  <2>1. JournalTypeOK'
    BY DEF JournalTypeOK, StartTypeOK, EntryState, ProcState
  <2>2. TaskTypeOK'
    BY DEF TaskTypeOK, StartTypeOK
  <2>3. StartTypeOK'
    BY NoExecAssumption DEF StartTypeOK
  <2>4. LinkTypeOK'
    BY DEF LinkTypeOK, TaskTypeOK
  <2>5. BoundsTypeOK'
    BY DEF BoundsTypeOK
  <2>6. QED
    BY <1>0, <2>1, <2>2, <2>3, <2>4, <2>5
<1>7. ASSUME NEW e \in Exec, Finish(e) PROVE TypeOK'
  <2> USE <1>7 DEF Finish, CodexExits, FinishJob, FinishUnsafe, TearDown,
       RecordFatal
  <2>1. JournalTypeOK'
    BY DEF JournalTypeOK, StartTypeOK, EntryState, ProcState
  <2>2. TaskTypeOK'
    BY DEF TaskTypeOK, StartTypeOK
  <2>3. StartTypeOK'
    BY NoExecAssumption DEF StartTypeOK
  <2>4. LinkTypeOK'
    BY DEF LinkTypeOK, TaskTypeOK
  <2>5. BoundsTypeOK'
    BY DEF BoundsTypeOK
  <2>6. QED
    BY <1>0, <2>1, <2>2, <2>3, <2>4, <2>5
<1>8. ASSUME NEW e \in Exec, Controller(e) PROVE TypeOK'
  <2> USE <1>8 DEF Controller, SendStart, SendCancel, ReceiveResult, SendAck,
       CanSend, Send
  <2>1. JournalTypeOK'
    BY DEF JournalTypeOK, StartTypeOK, EntryState, ProcState
  <2>2. TaskTypeOK'
    BY DEF TaskTypeOK, StartTypeOK
  <2>3. StartTypeOK'
    BY NoExecAssumption DEF StartTypeOK
  <2>4. LinkTypeOK'
    BY DEF LinkTypeOK, TaskTypeOK
  <2>5. BoundsTypeOK'
    BY DEF BoundsTypeOK
  <2>6. QED
    BY <1>0, <2>1, <2>2, <2>3, <2>4, <2>5
<1>9. CASE UNCHANGED vars
  <2> USE <1>9 DEF vars
  <2>1. JournalTypeOK'
    BY DEF JournalTypeOK, StartTypeOK, EntryState, ProcState
  <2>2. TaskTypeOK'
    BY DEF TaskTypeOK, StartTypeOK
  <2>3. StartTypeOK'
    BY NoExecAssumption DEF StartTypeOK
  <2>4. LinkTypeOK'
    BY DEF LinkTypeOK, TaskTypeOK
  <2>5. BoundsTypeOK'
    BY DEF BoundsTypeOK
  <2>6. QED
    BY <1>0, <2>1, <2>2, <2>3, <2>4, <2>5
<1>10. QED
  BY <1>1, <1>2, <1>3, <1>4, <1>5, <1>6, <1>7, <1>8, <1>9 DEF Next

\* A fresh Runner with an empty journal has every variable in its type.
LEMMA InitTyped == Init => TypeOK
<1> SUFFICES ASSUME Init PROVE TypeOK
  OBVIOUS
<1> USE DEF Init
<1>1. JournalTypeOK
  BY DEF JournalTypeOK, EntryState, ProcState
<1>2. TaskTypeOK
  BY DEF TaskTypeOK
<1>3. StartTypeOK
  BY NoExecAssumption DEF StartTypeOK
<1>4. LinkTypeOK
  BY DEF LinkTypeOK
<1>5. InboxTypeOK
  BY DEF InboxTypeOK
<1>6. BoundsTypeOK
  BY DEF BoundsTypeOK
<1>7. QED
  BY <1>1, <1>2, <1>3, <1>4, <1>5, <1>6 DEF TypeOK

\* The types of every variable hold in every state the Runner, its journal, its
\* Codex processes and its connection can reach.
THEOREM TypeCorrect == Spec => []TypeOK
<1>1. QED
  BY InitTyped, TypeStep, PTL DEF Spec

-----------------------------------------------------------------------------
(* Live processes and finished executions.                                 *)

\* A live Codex keeps its open entry, on disk and in memory.
LEMMA OpenStep == CoreInv /\ [Next]_vars => OpenInv'
<1> SUFFICES ASSUME CoreInv, [Next]_vars PROVE OpenInv'
  OBVIOUS
<1> USE NoExecAssumption DEF CoreInv, OpenInv, DeadInv, FreshInv, InboxInv,
       StartInv, Open, Loaded, Alive, TypeOK, JournalTypeOK, TaskTypeOK,
       StartTypeOK, LinkTypeOK, EntryState, ProcState
<1>1. CASE Boot \/ Recovered
  BY <1>1 DEF Boot, Recovered
<1>2. CASE Connection
  BY <1>2 DEF Connection, Connect, FatalStop, ConnectFails, Register,
     SocketBreaks, ReceiverEnds, HeartbeatFails, AbandonStart
<1>3. CASE StartHandler
  BY <1>3 DEF StartHandler, SpawnCodex, StartFails, StartUnsafe, AttachPid,
     CleanUpStart, AcceptJob
<1>4. CASE Stop \/ Exited \/ Crash
  BY <1>4 DEF Stop, Exited, Crash, AbandonStart, ProcessGone
<1>5. ASSUME NEW e \in Exec, Recover(e) PROVE OpenInv'
  BY <1>5 DEF Recover, RecoverStarting, RecoverRunning, RecoverCompleted
<1>6. ASSUME NEW e \in Exec, HandleCommand(e) PROVE OpenInv'
  BY <1>6 DEF HandleCommand, HandleStart, HandleCancel, HandleAck, Handling
<1>7. ASSUME NEW e \in Exec, Finish(e) PROVE OpenInv'
  BY <1>7 DEF Finish, CodexExits, FinishJob, FinishUnsafe, TearDown,
     RecordFatal
<1>8. ASSUME NEW e \in Exec, Controller(e) PROVE OpenInv'
  BY <1>8 DEF Controller, SendStart, SendCancel, ReceiveResult, SendAck,
     CanSend, Send
<1>9. CASE UNCHANGED vars
  BY <1>9 DEF vars
<1>10. QED
  BY <1>1, <1>2, <1>3, <1>4, <1>5, <1>6, <1>7, <1>8, <1>9 DEF Next

\* A completed entry or a reported result belongs to a dead process.
LEMMA DeadStep == CoreInv /\ [Next]_vars => DeadInv'
<1> SUFFICES ASSUME CoreInv, [Next]_vars PROVE DeadInv'
  OBVIOUS
<1> USE NoExecAssumption DEF CoreInv, OpenInv, DeadInv, FreshInv, InboxInv,
       StartInv, Open, Loaded, Alive, TypeOK, JournalTypeOK, TaskTypeOK,
       StartTypeOK, LinkTypeOK, EntryState, ProcState
<1>1. CASE Boot \/ Recovered
  BY <1>1 DEF Boot, Recovered
<1>2. CASE Connection
  BY <1>2 DEF Connection, Connect, FatalStop, ConnectFails, Register,
     SocketBreaks, ReceiverEnds, HeartbeatFails, AbandonStart
<1>3. CASE StartHandler
  BY <1>3 DEF StartHandler, SpawnCodex, StartFails, StartUnsafe, AttachPid,
     CleanUpStart, AcceptJob
<1>4. CASE Stop \/ Exited \/ Crash
  BY <1>4 DEF Stop, Exited, Crash, AbandonStart, ProcessGone
<1>5. ASSUME NEW e \in Exec, Recover(e) PROVE DeadInv'
  BY <1>5 DEF Recover, RecoverStarting, RecoverRunning, RecoverCompleted
<1>6. ASSUME NEW e \in Exec, HandleCommand(e) PROVE DeadInv'
  BY <1>6 DEF HandleCommand, HandleStart, HandleCancel, HandleAck, Handling
<1>7. ASSUME NEW e \in Exec, Finish(e) PROVE DeadInv'
  BY <1>7 DEF Finish, CodexExits, FinishJob, FinishUnsafe, TearDown,
     RecordFatal
<1>8. ASSUME NEW e \in Exec, Controller(e) PROVE DeadInv'
  BY <1>8 DEF Controller, SendStart, SendCancel, ReceiveResult, SendAck,
     CanSend, Send
<1>9. CASE UNCHANGED vars
  BY <1>9 DEF vars
<1>10. QED
  BY <1>1, <1>2, <1>3, <1>4, <1>5, <1>6, <1>7, <1>8, <1>9 DEF Next

\* A JOB_START handler past its reservation runs on a live connection.
LEMMA StartStep == CoreInv /\ [Next]_vars => StartInv'
<1> SUFFICES ASSUME CoreInv, [Next]_vars PROVE StartInv'
  OBVIOUS
<1> USE NoExecAssumption DEF CoreInv, OpenInv, DeadInv, FreshInv, InboxInv,
       StartInv, Open, Loaded, Alive, TypeOK, JournalTypeOK, TaskTypeOK,
       StartTypeOK, LinkTypeOK, EntryState, ProcState
<1>1. CASE Boot \/ Recovered
  BY <1>1 DEF Boot, Recovered
<1>2. CASE Connection
  BY <1>2 DEF Connection, Connect, FatalStop, ConnectFails, Register,
     SocketBreaks, ReceiverEnds, HeartbeatFails, AbandonStart
<1>3. CASE StartHandler
  BY <1>3 DEF StartHandler, SpawnCodex, StartFails, StartUnsafe, AttachPid,
     CleanUpStart, AcceptJob
<1>4. CASE Stop \/ Exited \/ Crash
  BY <1>4 DEF Stop, Exited, Crash, AbandonStart, ProcessGone
<1>5. ASSUME NEW e \in Exec, Recover(e) PROVE StartInv'
  BY <1>5 DEF Recover, RecoverStarting, RecoverRunning, RecoverCompleted
<1>6. ASSUME NEW e \in Exec, HandleCommand(e) PROVE StartInv'
  <2>1. CASE HandleStart(e)
    <3>1. Pending(e)
      BY <2>1, StartWasPending
    <3>2. QED
      BY <2>1, <3>1 DEF HandleStart, Handling
  <2>2. CASE HandleCancel(e)
    BY <2>2 DEF HandleCancel, Handling
  <2>3. CASE HandleAck(e)
    BY <2>3 DEF HandleAck, Handling
  <2>4. QED
    BY <1>6, <2>1, <2>2, <2>3 DEF HandleCommand
<1>7. ASSUME NEW e \in Exec, Finish(e) PROVE StartInv'
  BY <1>7 DEF Finish, CodexExits, FinishJob, FinishUnsafe, TearDown,
     RecordFatal
<1>8. ASSUME NEW e \in Exec, Controller(e) PROVE StartInv'
  BY <1>8 DEF Controller, SendStart, SendCancel, ReceiveResult, SendAck,
     CanSend, Send
<1>9. CASE UNCHANGED vars
  BY <1>9 DEF vars
<1>10. QED
  BY <1>1, <1>2, <1>3, <1>4, <1>5, <1>6, <1>7, <1>8, <1>9 DEF Next

-----------------------------------------------------------------------------
(* Executions the Runner has not seen.                                     *)

\* The body of FreshInv.
Fresh(x) ==
    /\ proc[x] = "none" /\ disk[x] = "none" /\ entries[x] = "none"
    /\ x \notin running /\ x \notin finisher /\ x # start.exec

\* A JOB_START pending after a step was pending before it, or was just sent.
LEMMA PendingBefore ==
    ASSUME InboxTypeOK, InboxMove, NEW x \in Exec, Pending(x)'
    PROVE  Pending(x) \/ (x \notin issued /\ issued' = issued \cup {x})
<1> DEFINE m == [type |-> "JOB_START", exec |-> x]
<1> USE DEF InboxTypeOK
<1>1. PICK i \in 1..Len(inbox') : inbox'[i] = m
  BY DEF Pending
<1>2. CASE inbox' = inbox
  BY <1>1, <1>2 DEF Pending
<1>3. CASE inbox' = <<>>
  BY <1>1, <1>3
<1>4. CASE inbox # <<>> /\ inbox' = Tail(inbox)
  <2>1. i + 1 \in 1..Len(inbox) /\ inbox[i + 1] = m
    BY <1>1, <1>4
  <2>2. QED
    BY <2>1 DEF Pending
<1>5. ASSUME NEW c, inbox' = Append(inbox, c) PROVE Pending(x) \/ c = m
  <2>1. CASE i \in 1..Len(inbox)
    BY <1>1, <1>5, <2>1 DEF Pending
  <2>2. CASE i \notin 1..Len(inbox)
    BY <1>1, <1>5, <2>2
  <2>3. QED
    BY <2>1, <2>2
<1>6. QED
  BY <1>2, <1>3, <1>4, <1>5 DEF InboxMove, Received, Cmd

\* The execution whose JOB_START is handled is no longer pending: an id is
\* dispatched once.
LEMMA HandledNotPending ==
    ASSUME InboxTypeOK, InboxInv, NEW e \in Exec, HandleStart(e)
    PROVE  ~Pending(e)'
<1> SUFFICES ASSUME Pending(e)' PROVE FALSE
  OBVIOUS
<1> DEFINE m == [type |-> "JOB_START", exec |-> e]
<1>1. inbox # <<>> /\ inbox[1] = m /\ inbox' = Tail(inbox) /\ inbox \in Seq(Command)
  BY DEF HandleStart, Handling, InboxTypeOK
<1>2. PICK i \in 1..Len(inbox') : inbox'[i] = m
  BY DEF Pending
<1>3. i + 1 \in 1..Len(inbox) /\ inbox[i + 1] = m /\ 1 \in 1..Len(inbox)
  BY <1>1, <1>2
<1>4. QED
  BY <1>1, <1>3 DEF InboxInv

\* No step touches an execution that is unused or whose JOB_START is still
\* pending, except the handler of that JOB_START.
LEMMA FreshKept ==
    ASSUME CoreInv, [Next]_vars, NEW x \in Exec, Fresh(x),
           x \notin issued \/ Pending(x), ~HandleStart(x)
    PROVE  Fresh(x)'

<1> USE NoExecAssumption DEF CoreInv, Fresh, StartInv, InboxInv, DeadInv,
       TypeOK, JournalTypeOK, TaskTypeOK, StartTypeOK, LinkTypeOK, EntryState,
       ProcState
<1>1. CASE Boot \/ Recovered
  BY <1>1 DEF Boot, Recovered
<1>2. CASE Connection
  BY <1>2 DEF Connection, Connect, FatalStop, ConnectFails, Register,
     SocketBreaks, ReceiverEnds, HeartbeatFails, AbandonStart
<1>3. CASE StartHandler
  BY <1>3 DEF StartHandler, SpawnCodex, StartFails, StartUnsafe, AttachPid,
     CleanUpStart, AcceptJob
<1>4. CASE Stop \/ Exited \/ Crash
  BY <1>4 DEF Stop, Exited, Crash, AbandonStart, ProcessGone
<1>5. ASSUME NEW e \in Exec, Recover(e) PROVE Fresh(x)'
  BY <1>5 DEF Recover, RecoverStarting, RecoverRunning, RecoverCompleted
<1>6. ASSUME NEW e \in Exec, HandleCommand(e) PROVE Fresh(x)'
  <2>1. CASE HandleStart(e)
    BY <2>1 DEF HandleStart, Handling
  <2>2. CASE HandleCancel(e)
    BY <2>2 DEF HandleCancel, Handling
  <2>3. CASE HandleAck(e)
    BY <2>3 DEF HandleAck, Handling
  <2>4. QED
    BY <1>6, <2>1, <2>2, <2>3 DEF HandleCommand
<1>7. ASSUME NEW e \in Exec, Finish(e) PROVE Fresh(x)'
  <2>1. CASE CodexExits(e)
    BY <2>1 DEF CodexExits, Alive
  <2>2. CASE FinishJob(e)
    BY <2>2 DEF FinishJob, RecordFatal
  <2>3. CASE FinishUnsafe(e)
    BY <2>3 DEF FinishUnsafe, RecordFatal
  <2>4. CASE TearDown(e)
    BY <2>4 DEF TearDown
  <2>5. QED
    BY <1>7, <2>1, <2>2, <2>3, <2>4 DEF Finish
<1>8. ASSUME NEW e \in Exec, Controller(e) PROVE Fresh(x)'
  BY <1>8 DEF Controller, SendStart, SendCancel, ReceiveResult, SendAck,
     CanSend, Send
<1>9. CASE UNCHANGED vars
  BY <1>9 DEF vars
<1>10. QED
  BY <1>1, <1>2, <1>3, <1>4, <1>5, <1>6, <1>7, <1>8, <1>9 DEF Next

\* An id that was never handled is unused everywhere.
LEMMA FreshStep == CoreInv /\ [Next]_vars => FreshInv'
<1> SUFFICES ASSUME CoreInv, [Next]_vars, NEW x \in Exec,
                    x \notin issued' \/ Pending(x)'
             PROVE  Fresh(x)'
  BY DEF FreshInv, Fresh
<1>1. InboxTypeOK /\ InboxInv /\ InboxMove
  BY InboxMoves DEF CoreInv, TypeOK
<1>2. x \notin issued \/ Pending(x)
  BY <1>1, PendingBefore DEF InboxMove
<1>3. Fresh(x)
  BY <1>2 DEF CoreInv, FreshInv, Fresh
<1>4. ~HandleStart(x)
  <2>1. ASSUME HandleStart(x) PROVE FALSE
    <3>1. ~Pending(x)'
      BY <1>1, <2>1, HandledNotPending
    <3>2. Pending(x) /\ issued' = issued
      BY <1>1, <2>1, StartWasPending DEF HandleStart
    <3>3. x \in issued
      BY <1>1, <3>2 DEF Pending, InboxInv
    <3>4. QED
      BY <3>1, <3>2, <3>3
  <2>2. QED
    BY <2>1
<1>5. QED
  BY <1>2, <1>3, <1>4, FreshKept

\* Commands in flight stay justified, and no JOB_START is there twice.
LEMMA InboxStep == CoreInv /\ [Next]_vars => InboxInv'
<1> SUFFICES ASSUME CoreInv, [Next]_vars PROVE InboxInv'
  OBVIOUS
<1>1. InboxTypeOK /\ InboxInv /\ InboxMove /\ FreshInv
  BY InboxMoves DEF CoreInv, TypeOK
<1>2. CASE (inbox' = inbox \/ inbox' = <<>>) /\ issued' = issued /\ acked' = acked
  BY <1>1, <1>2 DEF InboxInv
<1>3. CASE inbox # <<>> /\ inbox' = Tail(inbox) /\ issued' = issued /\ acked' = acked
  <2>1. \A i \in 1..Len(inbox') : i + 1 \in 1..Len(inbox) /\ inbox'[i] = inbox[i + 1]
    BY <1>1, <1>3 DEF InboxTypeOK
  <2>2. QED
    BY <1>1, <1>3, <2>1 DEF InboxInv
<1>4. ASSUME NEW e \in Exec, NEW t \in {"JOB_START", "JOB_CANCEL", "JOB_RESULT_ACK"},
             inbox' = Append(inbox, Cmd(t, e)),
             issued \subseteq issued', acked \subseteq acked',
             t = "JOB_START" => e \in issued' /\ e \notin issued,
             t = "JOB_RESULT_ACK" => e \in acked'
      PROVE  InboxInv'
  <2>1. \A i \in 1..Len(inbox') :
           \/ i \in 1..Len(inbox) /\ inbox'[i] = inbox[i]
           \/ i = Len(inbox) + 1 /\ inbox'[i] = Cmd(t, e)
    BY <1>1, <1>4 DEF InboxTypeOK
  <2>2. \A i \in 1..Len(inbox) : inbox[i] = Cmd("JOB_START", e) => e \in issued
    BY <1>1 DEF InboxInv, Cmd
  <2>3. \A i \in 1..Len(inbox') :
           /\ inbox'[i].type = "JOB_START" => inbox'[i].exec \in issued'
           /\ inbox'[i].type = "JOB_RESULT_ACK" => inbox'[i].exec \in acked'
    BY <1>1, <1>4, <2>1 DEF InboxInv, Cmd
  <2>4. ASSUME NEW i \in 1..Len(inbox'), NEW j \in 1..Len(inbox'),
               inbox'[i].type = "JOB_START", inbox'[i] = inbox'[j]
        PROVE  i = j
    <3>1. CASE i \in 1..Len(inbox) /\ j \in 1..Len(inbox)
               /\ inbox'[i] = inbox[i] /\ inbox'[j] = inbox[j]
      BY <1>1, <2>4, <3>1 DEF InboxInv
    <3>2. CASE inbox'[i] = Cmd(t, e)
      BY <1>4, <2>1, <2>2, <2>4, <3>2 DEF Cmd
    <3>3. CASE inbox'[j] = Cmd(t, e)
      BY <1>4, <2>1, <2>2, <2>4, <3>3 DEF Cmd
    <3>4. QED
      BY <2>1, <3>1, <3>2, <3>3
  <2>5. QED
    BY <2>3, <2>4 DEF InboxInv
<1>5. QED
  BY <1>1, <1>2, <1>3, <1>4 DEF InboxMove, Received

\* Every step of Next keeps the core of the journal invariant.
LEMMA CoreStep == CoreInv /\ [Next]_vars => CoreInv'
<1>1. CoreInv => TypeOK
  BY DEF CoreInv
<1>2. QED
  BY <1>1, TypeStep, OpenStep, DeadStep, StartStep, FreshStep, InboxStep DEF CoreInv

\* An empty journal and an empty inbox satisfy the core invariant.
LEMMA InitCore == Init => CoreInv
<1> SUFFICES ASSUME Init PROVE CoreInv
  OBVIOUS
<1>1. TypeOK
  BY InitTyped
<1>2. OpenInv /\ DeadInv /\ FreshInv /\ InboxInv /\ StartInv
  BY NoExecAssumption DEF Init, OpenInv, DeadInv, FreshInv, InboxInv, StartInv, Alive
<1>3. QED
  BY <1>1, <1>2 DEF CoreInv

\* A Codex process that may be alive always has a durable open entry, whatever
\* crashes, failed journal writes, failed terminations and lost connections
\* happen: a restarted Runner always finds it.
THEOREM LiveProcessesAreJournaled == Spec => []LiveProcessJournaled
<1>1. CoreInv => LiveProcessJournaled
  BY DEF CoreInv, OpenInv, Open, LiveProcessJournaled
<1>2. QED
  BY InitCore, CoreStep, <1>1, PTL DEF Spec

-----------------------------------------------------------------------------
(* What the journal remembers of an execution.                             *)

\* A started or finishing execution keeps its open entry and has no result.
LEMMA HandleStep == JournalInv /\ [Next]_vars => HandleInv'
<1> SUFFICES ASSUME JournalInv, [Next]_vars PROVE HandleInv'
  OBVIOUS
<1> USE NoExecAssumption DEF JournalInv, HandleInv, RecordInv, SpawnedInv,
       CoreInv, OpenInv, DeadInv, FreshInv, InboxInv, StartInv, Open, Loaded,
       Alive, TypeOK, JournalTypeOK, TaskTypeOK, StartTypeOK, LinkTypeOK,
       EntryState, ProcState, Pending
<1>1. CASE Boot \/ Recovered
  BY <1>1 DEF Boot, Recovered
<1>2. CASE Connection
  BY <1>2 DEF Connection, Connect, FatalStop, ConnectFails, Register,
     SocketBreaks, ReceiverEnds, HeartbeatFails, AbandonStart
<1>3. CASE StartHandler
  BY <1>3 DEF StartHandler, SpawnCodex, StartFails, StartUnsafe, AttachPid,
     CleanUpStart, AcceptJob
<1>4. CASE Stop \/ Exited \/ Crash
  BY <1>4 DEF Stop, Exited, Crash, AbandonStart, ProcessGone
<1>5. ASSUME NEW e \in Exec, Recover(e) PROVE HandleInv'
  BY <1>5 DEF Recover, RecoverStarting, RecoverRunning, RecoverCompleted
<1>6. ASSUME NEW e \in Exec, HandleCommand(e) PROVE HandleInv'
  <2>1. CASE HandleStart(e)
    <3>1. Pending(e)
      BY <2>1, StartWasPending
    <3>2. QED
      BY <2>1, <3>1 DEF HandleStart, Handling
  <2>2. CASE HandleCancel(e)
    BY <2>2 DEF HandleCancel, Handling
  <2>3. CASE HandleAck(e)
    <3>1. e \in acked
      BY <2>3, AckWasSent
    <3>2. QED
      BY <2>3, <3>1 DEF HandleAck, Handling
  <2>4. QED
    BY <1>6, <2>1, <2>2, <2>3 DEF HandleCommand
<1>7. ASSUME NEW e \in Exec, Finish(e) PROVE HandleInv'
  <2>1. CASE CodexExits(e)
    BY <2>1 DEF CodexExits
  <2>2. CASE FinishJob(e)
    BY <2>2 DEF FinishJob, RecordFatal
  <2>3. CASE FinishUnsafe(e)
    BY <2>3 DEF FinishUnsafe, RecordFatal
  <2>4. CASE TearDown(e)
    BY <2>4 DEF TearDown
  <2>5. QED
    BY <1>7, <2>1, <2>2, <2>3, <2>4 DEF Finish
<1>8. ASSUME NEW e \in Exec, Controller(e) PROVE HandleInv'
  BY <1>8 DEF Controller, SendStart, SendCancel, ReceiveResult, SendAck,
     CanSend, Send
<1>9. CASE UNCHANGED vars
  BY <1>9 DEF vars
<1>10. QED
  BY <1>1, <1>2, <1>3, <1>4, <1>5, <1>6, <1>7, <1>8, <1>9 DEF Next

\* A completed entry is forgotten only after its acknowledgement.
LEMMA RecordStep == JournalInv /\ [Next]_vars => RecordInv'
<1> SUFFICES ASSUME JournalInv, [Next]_vars PROVE RecordInv'
  OBVIOUS
<1> USE NoExecAssumption DEF JournalInv, HandleInv, RecordInv, SpawnedInv,
       CoreInv, OpenInv, DeadInv, FreshInv, InboxInv, StartInv, Open, Loaded,
       Alive, TypeOK, JournalTypeOK, TaskTypeOK, StartTypeOK, LinkTypeOK,
       EntryState, ProcState, Pending
<1>1. CASE Boot \/ Recovered
  BY <1>1 DEF Boot, Recovered
<1>2. CASE Connection
  BY <1>2 DEF Connection, Connect, FatalStop, ConnectFails, Register,
     SocketBreaks, ReceiverEnds, HeartbeatFails, AbandonStart
<1>3. CASE StartHandler
  BY <1>3 DEF StartHandler, SpawnCodex, StartFails, StartUnsafe, AttachPid,
     CleanUpStart, AcceptJob
<1>4. CASE Stop \/ Exited \/ Crash
  BY <1>4 DEF Stop, Exited, Crash, AbandonStart, ProcessGone
<1>5. ASSUME NEW e \in Exec, Recover(e) PROVE RecordInv'
  BY <1>5 DEF Recover, RecoverStarting, RecoverRunning, RecoverCompleted
<1>6. ASSUME NEW e \in Exec, HandleCommand(e) PROVE RecordInv'
  <2>1. CASE HandleStart(e)
    <3>1. Pending(e)
      BY <2>1, StartWasPending
    <3>2. QED
      BY <2>1, <3>1 DEF HandleStart, Handling
  <2>2. CASE HandleCancel(e)
    BY <2>2 DEF HandleCancel, Handling
  <2>3. CASE HandleAck(e)
    <3>1. e \in acked
      BY <2>3, AckWasSent
    <3>2. QED
      BY <2>3, <3>1 DEF HandleAck, Handling
  <2>4. QED
    BY <1>6, <2>1, <2>2, <2>3 DEF HandleCommand
<1>7. ASSUME NEW e \in Exec, Finish(e) PROVE RecordInv'
  <2>1. CASE CodexExits(e)
    BY <2>1 DEF CodexExits
  <2>2. CASE FinishJob(e)
    BY <2>2 DEF FinishJob, RecordFatal
  <2>3. CASE FinishUnsafe(e)
    BY <2>3 DEF FinishUnsafe, RecordFatal
  <2>4. CASE TearDown(e)
    BY <2>4 DEF TearDown
  <2>5. QED
    BY <1>7, <2>1, <2>2, <2>3, <2>4 DEF Finish
<1>8. ASSUME NEW e \in Exec, Controller(e) PROVE RecordInv'
  BY <1>8 DEF Controller, SendStart, SendCancel, ReceiveResult, SendAck,
     CanSend, Send
<1>9. CASE UNCHANGED vars
  BY <1>9 DEF vars
<1>10. QED
  BY <1>1, <1>2, <1>3, <1>4, <1>5, <1>6, <1>7, <1>8, <1>9 DEF Next

\* An entry past its reservation belongs to a process that was spawned.
LEMMA SpawnedStep == JournalInv /\ [Next]_vars => SpawnedInv'
<1> SUFFICES ASSUME JournalInv, [Next]_vars PROVE SpawnedInv'
  OBVIOUS
<1> USE NoExecAssumption DEF JournalInv, HandleInv, RecordInv, SpawnedInv,
       CoreInv, OpenInv, DeadInv, FreshInv, InboxInv, StartInv, Open, Loaded,
       Alive, TypeOK, JournalTypeOK, TaskTypeOK, StartTypeOK, LinkTypeOK,
       EntryState, ProcState, Pending
<1>1. CASE Boot \/ Recovered
  BY <1>1 DEF Boot, Recovered
<1>2. CASE Connection
  BY <1>2 DEF Connection, Connect, FatalStop, ConnectFails, Register,
     SocketBreaks, ReceiverEnds, HeartbeatFails, AbandonStart
<1>3. CASE StartHandler
  BY <1>3 DEF StartHandler, SpawnCodex, StartFails, StartUnsafe, AttachPid,
     CleanUpStart, AcceptJob
<1>4. CASE Stop \/ Exited \/ Crash
  BY <1>4 DEF Stop, Exited, Crash, AbandonStart, ProcessGone
<1>5. ASSUME NEW e \in Exec, Recover(e) PROVE SpawnedInv'
  BY <1>5 DEF Recover, RecoverStarting, RecoverRunning, RecoverCompleted
<1>6. ASSUME NEW e \in Exec, HandleCommand(e) PROVE SpawnedInv'
  <2>1. CASE HandleStart(e)
    <3>1. Pending(e)
      BY <2>1, StartWasPending
    <3>2. QED
      BY <2>1, <3>1 DEF HandleStart, Handling
  <2>2. CASE HandleCancel(e)
    BY <2>2 DEF HandleCancel, Handling
  <2>3. CASE HandleAck(e)
    <3>1. e \in acked
      BY <2>3, AckWasSent
    <3>2. QED
      BY <2>3, <3>1 DEF HandleAck, Handling
  <2>4. QED
    BY <1>6, <2>1, <2>2, <2>3 DEF HandleCommand
<1>7. ASSUME NEW e \in Exec, Finish(e) PROVE SpawnedInv'
  <2>1. CASE CodexExits(e)
    BY <2>1 DEF CodexExits
  <2>2. CASE FinishJob(e)
    BY <2>2 DEF FinishJob, RecordFatal
  <2>3. CASE FinishUnsafe(e)
    BY <2>3 DEF FinishUnsafe, RecordFatal
  <2>4. CASE TearDown(e)
    BY <2>4 DEF TearDown
  <2>5. QED
    BY <1>7, <2>1, <2>2, <2>3, <2>4 DEF Finish
<1>8. ASSUME NEW e \in Exec, Controller(e) PROVE SpawnedInv'
  BY <1>8 DEF Controller, SendStart, SendCancel, ReceiveResult, SendAck,
     CanSend, Send
<1>9. CASE UNCHANGED vars
  BY <1>9 DEF vars
<1>10. QED
  BY <1>1, <1>2, <1>3, <1>4, <1>5, <1>6, <1>7, <1>8, <1>9 DEF Next

\* Every step of Next keeps the whole journal invariant.
LEMMA JournalStep == JournalInv /\ [Next]_vars => JournalInv'
<1>1. QED
  BY CoreStep, HandleStep, RecordStep, SpawnedStep DEF JournalInv

\* A fresh Runner satisfies the whole journal invariant.
LEMMA InitJournal == Init => JournalInv
<1> SUFFICES ASSUME Init PROVE JournalInv
  OBVIOUS
<1>1. CoreInv
  BY InitCore
<1>2. HandleInv /\ RecordInv /\ SpawnedInv
  BY NoExecAssumption DEF Init, HandleInv, RecordInv, SpawnedInv
<1>3. QED
  BY <1>1, <1>2 DEF JournalInv

\* The journal, the processes, the tasks and the messages of a Runner agree with
\* one another at every instant: the inductive invariant of the component.
THEOREM JournalInvariant == Spec => []JournalInv
<1>1. QED
  BY InitJournal, JournalStep, PTL DEF Spec

-----------------------------------------------------------------------------
(* No orphan beside a serving Runner.                                      *)

\* Start-up leaves no process of an earlier boot alive.
LEMMA OrphanStep == CoreInv /\ NoOrphanWhileServing /\ [Next]_vars => NoOrphanWhileServing'
<1> SUFFICES ASSUME CoreInv /\ NoOrphanWhileServing, [Next]_vars PROVE NoOrphanWhileServing'
  OBVIOUS
<1> USE NoExecAssumption DEF CoreInv, OpenInv, DeadInv, FreshInv, InboxInv,
       StartInv, Open, Loaded, Alive, TypeOK, JournalTypeOK, TaskTypeOK,
       StartTypeOK, LinkTypeOK, EntryState, ProcState, NoOrphanWhileServing
<1>1. CASE Boot \/ Recovered
  BY <1>1 DEF Boot, Recovered
<1>2. CASE Connection
  BY <1>2 DEF Connection, Connect, FatalStop, ConnectFails, Register,
     SocketBreaks, ReceiverEnds, HeartbeatFails, AbandonStart
<1>3. CASE StartHandler
  BY <1>3 DEF StartHandler, SpawnCodex, StartFails, StartUnsafe, AttachPid,
     CleanUpStart, AcceptJob
<1>4. CASE Stop \/ Exited \/ Crash
  BY <1>4 DEF Stop, Exited, Crash, AbandonStart, ProcessGone
<1>5. ASSUME NEW e \in Exec, Recover(e) PROVE NoOrphanWhileServing'
  BY <1>5 DEF Recover, RecoverStarting, RecoverRunning, RecoverCompleted
<1>6. ASSUME NEW e \in Exec, HandleCommand(e) PROVE NoOrphanWhileServing'
  BY <1>6 DEF HandleCommand, HandleStart, HandleCancel, HandleAck, Handling
<1>7. ASSUME NEW e \in Exec, Finish(e) PROVE NoOrphanWhileServing'
  BY <1>7 DEF Finish, CodexExits, FinishJob, FinishUnsafe, TearDown,
     RecordFatal
<1>8. ASSUME NEW e \in Exec, Controller(e) PROVE NoOrphanWhileServing'
  BY <1>8 DEF Controller, SendStart, SendCancel, ReceiveResult, SendAck,
     CanSend, Send
<1>9. CASE UNCHANGED vars
  BY <1>9 DEF vars
<1>10. QED
  BY <1>1, <1>2, <1>3, <1>4, <1>5, <1>6, <1>7, <1>8, <1>9 DEF Next

\* A Runner that accepts work has no live Codex of an earlier boot beside it.
THEOREM NoOrphans == Spec => []NoOrphanWhileServing
<1>1. Init => NoOrphanWhileServing
  BY DEF Init, NoOrphanWhileServing
<1>2. QED
  BY <1>1, InitCore, CoreStep, OrphanStep, PTL DEF Spec

-----------------------------------------------------------------------------
(* Results are durable until acknowledged.                                 *)

\* A reported result stays in the journal until its acknowledgement.
LEMMA DurableStep == JournalInv /\ ReportedResultIsDurable /\ [Next]_vars => ReportedResultIsDurable'
<1> SUFFICES ASSUME JournalInv /\ ReportedResultIsDurable, [Next]_vars PROVE ReportedResultIsDurable'
  OBVIOUS
<1> USE NoExecAssumption DEF JournalInv, HandleInv, RecordInv, SpawnedInv,
       CoreInv, OpenInv, DeadInv, FreshInv, InboxInv, StartInv, Open, Loaded,
       Alive, TypeOK, JournalTypeOK, TaskTypeOK, StartTypeOK, LinkTypeOK,
       EntryState, ProcState, Pending, ReportedResultIsDurable
<1>1. CASE Boot \/ Recovered
  BY <1>1 DEF Boot, Recovered
<1>2. CASE Connection
  BY <1>2 DEF Connection, Connect, FatalStop, ConnectFails, Register,
     SocketBreaks, ReceiverEnds, HeartbeatFails, AbandonStart
<1>3. CASE StartHandler
  BY <1>3 DEF StartHandler, SpawnCodex, StartFails, StartUnsafe, AttachPid,
     CleanUpStart, AcceptJob
<1>4. CASE Stop \/ Exited \/ Crash
  BY <1>4 DEF Stop, Exited, Crash, AbandonStart, ProcessGone
<1>5. ASSUME NEW e \in Exec, Recover(e) PROVE ReportedResultIsDurable'
  BY <1>5 DEF Recover, RecoverStarting, RecoverRunning, RecoverCompleted
<1>6. ASSUME NEW e \in Exec, HandleCommand(e) PROVE ReportedResultIsDurable'
  <2>1. CASE HandleStart(e)
    <3>1. Pending(e)
      BY <2>1, StartWasPending
    <3>2. e \notin completed \cup results \cup received /\ disk[e] = "none"
      BY <3>1
    <3>3. QED
      BY <2>1, <3>2 DEF HandleStart, Handling
  <2>2. CASE HandleCancel(e)
    BY <2>2 DEF HandleCancel, Handling
  <2>3. CASE HandleAck(e)
    <3>1. e \in acked
      BY <2>3, AckWasSent
    <3>2. QED
      BY <2>3, <3>1 DEF HandleAck, Handling
  <2>4. QED
    BY <1>6, <2>1, <2>2, <2>3 DEF HandleCommand
<1>7. ASSUME NEW e \in Exec, Finish(e) PROVE ReportedResultIsDurable'
  <2>1. CASE CodexExits(e)
    BY <2>1 DEF CodexExits
  <2>2. CASE FinishJob(e)
    BY <2>2 DEF FinishJob, RecordFatal
  <2>3. CASE FinishUnsafe(e)
    BY <2>3 DEF FinishUnsafe, RecordFatal
  <2>4. CASE TearDown(e)
    BY <2>4 DEF TearDown
  <2>5. QED
    BY <1>7, <2>1, <2>2, <2>3, <2>4 DEF Finish
<1>8. ASSUME NEW e \in Exec, Controller(e) PROVE ReportedResultIsDurable'
  BY <1>8 DEF Controller, SendStart, SendCancel, ReceiveResult, SendAck,
     CanSend, Send
<1>9. CASE UNCHANGED vars
  BY <1>9 DEF vars
<1>10. QED
  BY <1>1, <1>2, <1>3, <1>4, <1>5, <1>6, <1>7, <1>8, <1>9 DEF Next

\* What the Controller was told or is being told about a result survives any
\* crash of the Runner until the Controller has acknowledged it.
THEOREM ResultsAreDurable == Spec => []ReportedResultIsDurable
<1>1. Init => ReportedResultIsDurable
  BY DEF Init, ReportedResultIsDurable
<1>2. QED
  BY <1>1, InitJournal, JournalStep, DurableStep, PTL DEF Spec

-----------------------------------------------------------------------------
(* The Runner implements RunnerContract.                                   *)

ProcessMove(x) ==
    \/ proc'[x] = proc[x]
    \/ proc[x] = "none" /\ proc'[x] = "child" /\ disk[x] \in Open /\ disk'[x] \in Open
    \/ proc[x] = "child" /\ proc'[x] = "orphan"
    \/ Alive(x) /\ proc'[x] = "exited"
RecordMove(x) ==
    \/ disk'[x] = disk[x]
    \/ disk[x] \in Open /\ disk'[x] \in Open
    \/ disk[x] = "none" /\ disk'[x] \in Open /\ ~Alive(x)'
    \/ disk[x] \in Open /\ disk'[x] = "none" /\ ~Alive(x)'
    \/ disk[x] \in Open /\ disk'[x] = "COMPLETED" /\ proc'[x] = "exited"
    \/ disk[x] = "COMPLETED" /\ disk'[x] = "none" /\ x \in acked
AckMove(x) ==
    /\ x \in acked => x \in acked'
    /\ x \in acked' \ acked => proc[x] = "exited"

\* How a Codex process may change in one step.
LEMMA ProcessMoves == ASSUME JournalInv, [Next]_vars, NEW x \in Exec PROVE ProcessMove(x)
<1> USE NoExecAssumption DEF ProcessMove, JournalInv, HandleInv, RecordInv,
       SpawnedInv, CoreInv, OpenInv, DeadInv, FreshInv, InboxInv, StartInv,
       Open, Loaded, Alive, TypeOK, JournalTypeOK, TaskTypeOK, StartTypeOK,
       LinkTypeOK, EntryState, ProcState, Pending
<1>1. CASE Boot \/ Recovered
  BY <1>1 DEF Boot, Recovered
<1>2. CASE Connection
  BY <1>2 DEF Connection, Connect, FatalStop, ConnectFails, Register,
     SocketBreaks, ReceiverEnds, HeartbeatFails, AbandonStart
<1>3. CASE StartHandler
  BY <1>3 DEF StartHandler, SpawnCodex, StartFails, StartUnsafe, AttachPid,
     CleanUpStart, AcceptJob
<1>4. CASE Stop \/ Exited \/ Crash
  BY <1>4 DEF Stop, Exited, Crash, AbandonStart, ProcessGone
<1>5. ASSUME NEW e \in Exec, Recover(e) PROVE ProcessMove(x)
  <2>1. CASE RecoverRunning(e)
    <3>1. proc[e] # "none"
      BY <2>1 DEF RecoverRunning
    <3>2. QED
      BY <2>1, <3>1 DEF RecoverRunning
  <2>2. CASE RecoverStarting(e) \/ RecoverCompleted(e)
    BY <2>2 DEF RecoverStarting, RecoverCompleted
  <2>3. QED
    BY <1>5, <2>1, <2>2 DEF Recover
<1>6. ASSUME NEW e \in Exec, HandleCommand(e) PROVE ProcessMove(x)
  <2>1. CASE HandleStart(e)
    <3>1. Pending(e)
      BY <2>1, StartWasPending
    <3>2. QED
      BY <2>1, <3>1 DEF HandleStart, Handling
  <2>2. CASE HandleCancel(e)
    BY <2>2 DEF HandleCancel, Handling
  <2>3. CASE HandleAck(e)
    <3>1. e \in acked
      BY <2>3, AckWasSent
    <3>2. QED
      BY <2>3, <3>1 DEF HandleAck, Handling
  <2>4. QED
    BY <1>6, <2>1, <2>2, <2>3 DEF HandleCommand
<1>7. ASSUME NEW e \in Exec, Finish(e) PROVE ProcessMove(x)
  <2>1. CASE CodexExits(e)
    BY <2>1 DEF CodexExits
  <2>2. CASE FinishJob(e)
    BY <2>2 DEF FinishJob, RecordFatal
  <2>3. CASE FinishUnsafe(e)
    BY <2>3 DEF FinishUnsafe, RecordFatal
  <2>4. CASE TearDown(e)
    BY <2>4 DEF TearDown
  <2>5. QED
    BY <1>7, <2>1, <2>2, <2>3, <2>4 DEF Finish
<1>8. ASSUME NEW e \in Exec, Controller(e) PROVE ProcessMove(x)
  BY <1>8 DEF Controller, SendStart, SendCancel, ReceiveResult, SendAck,
     CanSend, Send
<1>9. CASE UNCHANGED vars
  BY <1>9 DEF vars
<1>10. QED
  BY <1>1, <1>2, <1>3, <1>4, <1>5, <1>6, <1>7, <1>8, <1>9 DEF Next

\* How the durable entry of an execution may change in one step.
LEMMA RecordMoves == ASSUME JournalInv, [Next]_vars, NEW x \in Exec PROVE RecordMove(x)
<1> USE NoExecAssumption DEF RecordMove, JournalInv, HandleInv, RecordInv,
       SpawnedInv, CoreInv, OpenInv, DeadInv, FreshInv, InboxInv, StartInv,
       Open, Loaded, Alive, TypeOK, JournalTypeOK, TaskTypeOK, StartTypeOK,
       LinkTypeOK, EntryState, ProcState, Pending
<1>1. CASE Boot \/ Recovered
  BY <1>1 DEF Boot, Recovered
<1>2. CASE Connection
  BY <1>2 DEF Connection, Connect, FatalStop, ConnectFails, Register,
     SocketBreaks, ReceiverEnds, HeartbeatFails, AbandonStart
<1>3. CASE StartHandler
  BY <1>3 DEF StartHandler, SpawnCodex, StartFails, StartUnsafe, AttachPid,
     CleanUpStart, AcceptJob
<1>4. CASE Stop \/ Exited \/ Crash
  BY <1>4 DEF Stop, Exited, Crash, AbandonStart, ProcessGone
<1>5. ASSUME NEW e \in Exec, Recover(e) PROVE RecordMove(x)
  <2>1. CASE RecoverRunning(e)
    <3>1. proc[e] # "none"
      BY <2>1 DEF RecoverRunning
    <3>2. QED
      BY <2>1, <3>1 DEF RecoverRunning
  <2>2. CASE RecoverStarting(e) \/ RecoverCompleted(e)
    BY <2>2 DEF RecoverStarting, RecoverCompleted
  <2>3. QED
    BY <1>5, <2>1, <2>2 DEF Recover
<1>6. ASSUME NEW e \in Exec, HandleCommand(e) PROVE RecordMove(x)
  <2>1. CASE HandleStart(e)
    <3>1. Pending(e)
      BY <2>1, StartWasPending
    <3>2. QED
      BY <2>1, <3>1 DEF HandleStart, Handling
  <2>2. CASE HandleCancel(e)
    BY <2>2 DEF HandleCancel, Handling
  <2>3. CASE HandleAck(e)
    <3>1. e \in acked
      BY <2>3, AckWasSent
    <3>2. QED
      BY <2>3, <3>1 DEF HandleAck, Handling
  <2>4. QED
    BY <1>6, <2>1, <2>2, <2>3 DEF HandleCommand
<1>7. ASSUME NEW e \in Exec, Finish(e) PROVE RecordMove(x)
  <2>1. CASE CodexExits(e)
    BY <2>1 DEF CodexExits
  <2>2. CASE FinishJob(e)
    BY <2>2 DEF FinishJob, RecordFatal
  <2>3. CASE FinishUnsafe(e)
    BY <2>3 DEF FinishUnsafe, RecordFatal
  <2>4. CASE TearDown(e)
    BY <2>4 DEF TearDown
  <2>5. QED
    BY <1>7, <2>1, <2>2, <2>3, <2>4 DEF Finish
<1>8. ASSUME NEW e \in Exec, Controller(e) PROVE RecordMove(x)
  BY <1>8 DEF Controller, SendStart, SendCancel, ReceiveResult, SendAck,
     CanSend, Send
<1>9. CASE UNCHANGED vars
  BY <1>9 DEF vars
<1>10. QED
  BY <1>1, <1>2, <1>3, <1>4, <1>5, <1>6, <1>7, <1>8, <1>9 DEF Next

\* An acknowledgement is never taken back and never premature.
LEMMA AckMoves == ASSUME JournalInv, [Next]_vars, NEW x \in Exec PROVE AckMove(x)
<1> USE NoExecAssumption DEF AckMove, JournalInv, HandleInv, RecordInv,
       SpawnedInv, CoreInv, OpenInv, DeadInv, FreshInv, InboxInv, StartInv,
       Open, Loaded, Alive, TypeOK, JournalTypeOK, TaskTypeOK, StartTypeOK,
       LinkTypeOK, EntryState, ProcState, Pending
<1>1. CASE Boot \/ Recovered
  BY <1>1 DEF Boot, Recovered
<1>2. CASE Connection
  BY <1>2 DEF Connection, Connect, FatalStop, ConnectFails, Register,
     SocketBreaks, ReceiverEnds, HeartbeatFails, AbandonStart
<1>3. CASE StartHandler
  BY <1>3 DEF StartHandler, SpawnCodex, StartFails, StartUnsafe, AttachPid,
     CleanUpStart, AcceptJob
<1>4. CASE Stop \/ Exited \/ Crash
  BY <1>4 DEF Stop, Exited, Crash, AbandonStart, ProcessGone
<1>5. ASSUME NEW e \in Exec, Recover(e) PROVE AckMove(x)
  <2>1. CASE RecoverRunning(e)
    <3>1. proc[e] # "none"
      BY <2>1 DEF RecoverRunning
    <3>2. QED
      BY <2>1, <3>1 DEF RecoverRunning
  <2>2. CASE RecoverStarting(e) \/ RecoverCompleted(e)
    BY <2>2 DEF RecoverStarting, RecoverCompleted
  <2>3. QED
    BY <1>5, <2>1, <2>2 DEF Recover
<1>6. ASSUME NEW e \in Exec, HandleCommand(e) PROVE AckMove(x)
  <2>1. CASE HandleStart(e)
    <3>1. Pending(e)
      BY <2>1, StartWasPending
    <3>2. QED
      BY <2>1, <3>1 DEF HandleStart, Handling
  <2>2. CASE HandleCancel(e)
    BY <2>2 DEF HandleCancel, Handling
  <2>3. CASE HandleAck(e)
    <3>1. e \in acked
      BY <2>3, AckWasSent
    <3>2. QED
      BY <2>3, <3>1 DEF HandleAck, Handling
  <2>4. QED
    BY <1>6, <2>1, <2>2, <2>3 DEF HandleCommand
<1>7. ASSUME NEW e \in Exec, Finish(e) PROVE AckMove(x)
  <2>1. CASE CodexExits(e)
    BY <2>1 DEF CodexExits
  <2>2. CASE FinishJob(e)
    BY <2>2 DEF FinishJob, RecordFatal
  <2>3. CASE FinishUnsafe(e)
    BY <2>3 DEF FinishUnsafe, RecordFatal
  <2>4. CASE TearDown(e)
    BY <2>4 DEF TearDown
  <2>5. QED
    BY <1>7, <2>1, <2>2, <2>3, <2>4 DEF Finish
<1>8. ASSUME NEW e \in Exec, Controller(e) PROVE AckMove(x)
  BY <1>8 DEF Controller, SendStart, SendCancel, ReceiveResult, SendAck,
     CanSend, Send
<1>9. CASE UNCHANGED vars
  BY <1>9 DEF vars
<1>10. QED
  BY <1>1, <1>2, <1>3, <1>4, <1>5, <1>6, <1>7, <1>8, <1>9 DEF Next

\* The durable record of an execution covers the life of its Codex process, is
\* finished only after the exit and dropped only after the acknowledgement.
THEOREM RunnerKeepsContract == Spec => KeepsContract
<1>1. Init => Contract!Init
  BY DEF Init, Contract!Init, RecordOf, ProcessOf
<1>2. ASSUME JournalInv, [Next]_vars PROVE Contract!Next
  <2>1. JournalTypeOK /\ JournalTypeOK' /\ LinkTypeOK'
    BY <1>2, JournalStep DEF JournalInv, CoreInv, TypeOK
  <2>2. ASSUME NEW x \in Exec PROVE Contract!ProcessStep(x)
    BY <1>2, <2>1, ProcessMoves DEF Contract!ProcessStep, ProcessMove, ProcessOf,
       RecordOf, Open, Alive, JournalTypeOK, EntryState, ProcState
  <2>3. ASSUME NEW x \in Exec PROVE Contract!RecordStep(x)
    BY <1>2, <2>1, RecordMoves DEF Contract!RecordStep, RecordMove, ProcessOf,
       RecordOf, Open, Alive, JournalTypeOK, EntryState, ProcState
  <2>4. ASSUME NEW x \in Exec PROVE Contract!AckStep(x)
    BY <1>2, <2>1, AckMoves DEF Contract!AckStep, AckMove, ProcessOf,
       JournalTypeOK, ProcState
  <2>5. /\ \A x \in Exec : RecordOf(disk'[x]) \in {"absent", "active", "finished"}
        /\ \A x \in Exec : ProcessOf(proc'[x]) \in {"none", "alive", "exited"}
        /\ acked' \subseteq Exec
    BY <2>1 DEF RecordOf, ProcessOf, JournalTypeOK, LinkTypeOK, EntryState, ProcState
  <2>6. QED
    BY <2>2, <2>3, <2>4, <2>5 DEF Contract!Next
<1>3. QED
  BY <1>1, <1>2, InitJournal, JournalStep, PTL
     DEF Spec, KeepsContract, Contract!Spec

=============================================================================
