--------------------------- MODULE JobQueue_proofs --------------------------
(***************************************************************************)
(* Machine-checked proofs about JobQueue, for every number of Jobs, every  *)
(* set of owners, sessions and concurrent requests, and every value of the *)
(* bounds.                                                                 *)
(***************************************************************************)
EXTENDS JobQueue, TLAPS, FiniteSetTheorems, WellFoundedInduction

USE DEF rows, memory, bounds

-----------------------------------------------------------------------------
(* The inductive invariant.                                                *)

Waiting == {"WAITING_LEASE", "WAITING_HOST"}
Live(j) == state[j] # "ended"
Keeps(a) == act[a].at \in {"lock", "reopen"}

\* An actor, from the lock of its owner to the task of its Job, has the Job to itself.
Drives(a) ==
    \/ act[a].at \in {"session", "lock", "row", "giveback", "refresh", "rollback", "wait",
                     "begin"}
    \/ act[a].at = "assign" /\ act[a].from = "QUEUED"
DrivenState(a) ==
    IF act[a].from = "none" THEN "none"
    ELSE IF act[a].from = "QUEUED" /\ act[a].at # "begin" THEN "QUEUED" ELSE "ASSIGNED"

ActOK(a) ==
    /\ act[a].at \notin {"idle", "reopen"} => act[a].job \in Job
    /\ act[a].at \in {"session", "lock"} => act[a].from # "QUEUED"
    /\ act[a].at = "row" => act[a].from = "none"
    /\ act[a].at = "giveback" => act[a].from = "QUEUED"
    /\ act[a].at \in {"refresh", "rollback"} => act[a].from \in Waiting
    /\ act[a].at \in {"assign", "wait", "begin"} => act[a].from # "none"
    /\ Drives(a) => state[act[a].job] = DrivenState(a)
                    \/ (act[a].from # "none" /\ state[act[a].job] = "ended")
ActInv == \A a \in Actor : ActOK(a)

DownInv ==
    up # "up" =>
        /\ \A a \in Actor : act[a] = Idle
        /\ due = <<>>
        /\ \A j \in Job : task[j] = "none" /\ closing[j] = "none"

AloneInv ==
    \A a, b \in Actor :
        a # b /\ Drives(a) /\ Drives(b) /\ act[a].job = act[b].job => ~Live(act[a].job)

EndInv ==
    \A j \in Job :
        /\ task[j] # "none" => state[j] \in {"RUNNING", "ended"}
        /\ closing[j] # "none" => state[j] = "ended"

\* Sessions and the lock of their owner.
SingleInv ==
    \A s, t \in Session :
        session[s].status = "open" /\ session[t].status = "open"
        /\ session[s].owner = session[t].owner => s = t
KeepOK(a) ==
    /\ act[a].at = "lock" => Open(owner[act[a].job]) # {}
    /\ act[a].at = "reopen" =>
          /\ act[a].target \in Session
          /\ \A s \in Open(SessionOwner(a)) : s = act[a].target /\ session[s].lock = None
KeepInv ==
    /\ \A a, b \in Actor : a # b /\ Keeps(a) /\ Keeps(b) => SessionOwner(a) # SessionOwner(b)
    /\ \A a \in Actor : KeepOK(a)

\* A Job that goes on to its task has its owner's session, with its thread.
Has(j, t) == \E s \in Open(owner[j]) : session[s].lock = j /\ session[s].thread = t
ThreadOK(a) ==
    LET j == act[a].job IN
    /\ act[a].at = "row" => \A s \in Open(owner[j]) :
          session[s].lock = j => session[s].thread = thread[j]
    /\ act[a].at = "begin" \/ (act[a].at = "assign" /\ act[a].from = "QUEUED") =>
          (Live(j) => Has(j, thread[j]))
    /\ act[a].at = "refresh" => (Live(j) => Has(j, act[a].thread))
ThreadInv == \A a \in Actor : ThreadOK(a)

\* Places, as long as none was replaced while it was written back.
Writes(a) == act[a].at = "write" /\ Live(act[a].job)
PlaceInv ==
    stale = 0 =>
        /\ \A i, j \in Job : i # j /\ Live(i) /\ Live(j) /\ place[i] # 0 => place[i] # place[j]
        /\ \A j \in Job : Live(j) /\ place[j] # 0 => j \in known
        /\ \A a \in Actor : Writes(a) => place[act[a].job] = act[a].place /\ act[a].place # 0

\* A Job that is to wait does not have the tree.
TreeInv ==
    /\ \A j \in Job : state[j] \in {"none", "QUEUED", "WAITING_LEASE"} => tree # j
    /\ \A a \in Actor : act[a].at = "wait" /\ Live(act[a].job) => tree # act[a].job

\* The tick takes up Jobs that wait, and never creates one.
TickInv == act[Tick].at # "idle" => act[Tick].from \in Waiting

\* The records that the tick has read are in the order of their places, and a Job that
\* it has passed by waits for the tree, or came behind.
Current(i) == act[Tick].at = "assign" /\ act[Tick].job = i
Listed == {due[n] : n \in DOMAIN due}
Coming(i) == i \in Listed \/ Current(i)
KnownInv == \A j \in Job : Coming(j) /\ Live(j) => j \in known
SortedInv ==
    ~disturbed => \A m, n \in DOMAIN due :
        m < n /\ due[m] \in Lane /\ due[n] \in Lane => place[due[m]] <= place[due[n]]
CurrentInv ==
    ~disturbed => \A i, j \in Lane :
        Current(i) /\ j \in Listed => place[i] <= place[j]
PassedInv ==
    ~disturbed /\ tree = None => \A i, j \in Lane :
        Coming(i) /\ ~Coming(j) => place[i] <= place[j]

IInv ==
    /\ TypeOK /\ ActInv /\ DownInv /\ AloneInv /\ EndInv
    /\ SingleInv /\ KeepInv /\ ThreadInv /\ RunsInSession /\ PlaceInv
    /\ TreeInv /\ TickInv /\ KnownInv /\ SortedInv /\ CurrentInv /\ PassedInv

\* Among zero and finitely many numbers there is a greatest one.
LEMMA MaxExists ==
    ASSUME NEW N \in Nat, NEW f \in [1..N -> Nat]
    PROVE  \E p \in {0} \cup {f[j] : j \in 1..N} : \A j \in 1..N : f[j] <= p
<1> DEFINE Values(n) == {0} \cup {f[j] : j \in 1..n}
           Bad == {n \in 0..N : \A p \in Values(n) : \E j \in 1..n : ~(f[j] <= p)}
           Less == {ss \in Nat \X Nat : ss[1] < ss[2]}
<1>1. SUFFICES ASSUME Bad # {} PROVE FALSE
  <2>1. N \notin Bad
    BY <1>1
  <2>2. QED
    BY <2>1
<1>2. PICK n \in Bad : \A m \in Bad : ~(<<m, n>> \in Less)
  <2>1. IsWellFoundedOn(Less, Nat)
    BY NatLessThanWellFounded DEF OpToRel
  <2>2. Bad \subseteq Nat
    OBVIOUS
  <2> HIDE DEF Bad, Less
  <2>3. QED
    BY <1>1, <2>1, <2>2, WFMin
<1>3. ASSUME NEW m \in Bad PROVE ~(m < n)
  <2>1. <<m, n>> \notin Less
    BY <1>2
  <2>2. <<m, n>> \in Nat \X Nat
    OBVIOUS
  <2>3. QED
    BY <2>1, <2>2
<1>4. n # 0
  <2>1. \A p \in Values(n) : \E j \in 1..n : ~(f[j] <= p)
    OBVIOUS
  <2>2. \E j \in 1..n : ~(f[j] <= 0)
    BY <2>1
  <2>3. QED
    BY <2>2
<1>5. n \in 1..N /\ n - 1 \in 0..N /\ n - 1 \notin Bad
  <2>1. n \in 1..N /\ n - 1 \in 0..N /\ n - 1 < n
    BY <1>4
  <2>2. QED
    BY <1>3, <2>1
<1>6. PICK p \in Values(n - 1) : \A j \in 1..(n - 1) : f[j] <= p
  <2>1. ~\A p \in Values(n - 1) : \E j \in 1..(n - 1) : ~(f[j] <= p)
    BY <1>5
  <2>2. QED
    BY <2>1
<1>7. p \in Nat /\ p \in Values(n) /\ f[n] \in Nat /\ f[n] \in Values(n)
  <2>1. 1..(n - 1) \subseteq 1..n /\ 1..n \subseteq 1..N
    BY <1>5
  <2>2. QED
    BY <1>5, <2>1
<1>8. ASSUME NEW q \in Values(n), p <= q, f[n] <= q PROVE FALSE
  <2>1. \A j \in 1..n : j \in 1..(n - 1) \/ j = n
    BY <1>5
  <2>2. \A j \in 1..(n - 1) : f[j] \in Nat
    BY <1>5
  <2>3. q \in Nat
    BY <1>5
  <2>4. \A j \in 1..n : f[j] <= q
    BY <1>6, <1>7, <1>8, <2>1, <2>2, <2>3
  <2>5. QED
    BY <2>4
<1>9. p <= f[n] \/ f[n] <= p
  BY <1>7
<1>10. QED
  BY <1>7, <1>8, <1>9

\* A set of Jobs that is not empty has a latest one.
LEMMA LatestJob ==
    ASSUME NEW S \in SUBSET Job, S # {}
    PROVE  \E i \in S : \A k \in S : k <= i
<1> DEFINE f == [j \in Job |-> IF j \in S THEN j ELSE 0]
<1>1. MaxJob \in Nat /\ f \in [1..MaxJob -> Nat]
  BY BoundAssumption DEF Job
<1>2. PICK p \in {0} \cup {f[j] : j \in 1..MaxJob} : \A j \in 1..MaxJob : f[j] <= p
  <2> HIDE DEF f
  <2>1. QED
    BY <1>1, MaxExists
<1>3. \A k \in S : k \in Job /\ k \in 1..MaxJob /\ f[k] = k /\ k <= p
  BY <1>2 DEF Job
<1>4. p \in S
  <2>1. p # 0
    <3>1. PICK k \in S : k \in 1..MaxJob /\ k <= p
      BY <1>3
    <3>2. QED
      BY <1>1, <3>1
  <2>2. PICK j \in Job : p = f[j]
    BY <1>2, <2>1 DEF Job
  <2>3. QED
    BY <2>1, <2>2
<1>5. QED
  BY <1>3, <1>4

\* The next place is behind every other.
LEMMA NextPlaceIsLast ==
    ASSUME place \in [Job -> Nat]
    PROVE  NextPlace \in Nat \ {0} /\ \A j \in Job : place[j] < NextPlace
<1>1. MaxJob \in Nat
  BY BoundAssumption
<1>2. \E p \in {0} \cup {place[j] : j \in Job} : \A j \in Job : place[j] <= p
  BY <1>1, MaxExists DEF Job
<1> DEFINE last == CHOOSE p \in {0} \cup {place[j] : j \in Job} : \A j \in Job : place[j] <= p
<1>3. last \in {0} \cup {place[j] : j \in Job} /\ \A j \in Job : place[j] <= last
  BY <1>2
<1>4. last \in Nat /\ NextPlace = 1 + last
  BY <1>3 DEF NextPlace
<1> HIDE DEF last
<1>5. QED
  BY <1>3, <1>4

\* Jobs without a place have ranks, from one, that differ.
LEMMA RankIsPositive ==
    \A j \in Job : ~Placed(j) => Rank(j) \in Nat /\ 1 <= Rank(j)
<1> SUFFICES ASSUME NEW j \in Job, ~Placed(j) PROVE Rank(j) \in Nat /\ 1 <= Rank(j)
  OBVIOUS
<1> DEFINE S == {k \in Job : k <= j /\ ~Placed(k)}
<1>1. IsFiniteSet(Job) /\ S \in SUBSET Job
  BY BoundAssumption, FS_Interval DEF Job
<1>2. IsFiniteSet(S) /\ j \in S
  BY <1>1, BoundAssumption, FS_Subset DEF Job
<1>3. Rank(j) = Cardinality(S)
  BY DEF Rank
<1> HIDE DEF S
<1>4. Cardinality(S) \in Nat /\ Cardinality(S) # 0
  BY <1>2, FS_CardinalityType, FS_EmptySet
<1>5. QED
  BY <1>3, <1>4

LEMMA RanksDiffer ==
    ASSUME NEW i \in Job, NEW j \in Job, ~Placed(i), ~Placed(j), i < j
    PROVE  Rank(i) # Rank(j)
<1> DEFINE S(m) == {k \in Job : k <= m /\ ~Placed(k)}
<1>1. IsFiniteSet(Job) /\ \A m \in Job : S(m) \in SUBSET Job
  BY BoundAssumption, FS_Interval DEF Job
<1>2. IsFiniteSet(S(i)) /\ IsFiniteSet(S(j))
  BY <1>1, FS_Subset
<1>3. j \in S(j) /\ j \notin S(i) /\ S(i) \subseteq S(j)
  BY BoundAssumption DEF Job
<1>4. Rank(i) = Cardinality(S(i)) /\ Rank(j) = Cardinality(S(j))
  BY DEF Rank
<1> HIDE DEF S
<1>5. QED
  BY <1>2, <1>3, <1>4, FS_Subset

-----------------------------------------------------------------------------
(* What the actions do, as far as the invariant can tell.                  *)

\* Acquire, when no session of the owner is open.
OpenMove(a, j) ==
    /\ up = "up" /\ act[a].at = "session" /\ act[a].job = j
    /\ SessionFree(owner[j]) /\ Open(owner[j]) = {}
    /\ \E s \in Session, t \in Thread :
          /\ session[s].status = "none" /\ \A b \in Actor : act[b].target # s
          /\ session' = [session EXCEPT ![s] =
                [status |-> "open", owner |-> owner[j], thread |-> t, lock |-> None]]
    /\ act' = [act EXCEPT ![a].at = "lock"]
    /\ UNCHANGED <<owner, state, bound, thread, known, place, tree, up, due, task, closing,
                   disturbed, stale>>

\* Acquire and LockNew, with the open session, which is free or not.
Locks(a, j, s) ==
    /\ session[s].lock \in {None, j} /\ session' = [session EXCEPT ![s].lock = j]
    /\ \/ /\ act[a].from = "none" /\ thread' = [thread EXCEPT ![j] = session[s].thread]
          /\ act' = [act EXCEPT ![a] =
                        Doing("row", j, act[a].from, session[s].thread, act[a].place)]
       \/ /\ act[a].from # "none" /\ UNCHANGED thread
          /\ act' = [act EXCEPT ![a] =
                        Doing("refresh", j, act[a].from, session[s].thread, act[a].place)]
FindsBusy(a, j, s) ==
    /\ session[s].lock \notin {None, j} /\ UNCHANGED session
    /\ \/ /\ act[a].from = "none" /\ thread' = [thread EXCEPT ![j] = session[s].thread]
          /\ act' = [act EXCEPT ![a].at = "row"]
       \/ /\ act[a].from # "none" /\ UNCHANGED thread
          /\ act' = [act EXCEPT ![a].at = "rollback"]
LockMove(a, j) ==
    /\ up = "up" /\ act[a].job = j
    /\ act[a].at = "lock" \/ (act[a].at = "session" /\ SessionFree(owner[j]))
    /\ \E s \in Open(owner[j]) : Locks(a, j, s) \/ FindsBusy(a, j, s)
    /\ UNCHANGED <<owner, state, bound, known, place, tree, up, due, task, closing,
                   disturbed, stale>>

AddMove(a, j) ==
    /\ up = "up" /\ act[a].at = "row" /\ act[a].job = j
    /\ state' = [state EXCEPT ![j] = "QUEUED"]
    /\ \/ /\ Holds(j)
          /\ act' = [act EXCEPT ![a] = Doing("assign", j, "QUEUED", act[a].thread, act[a].place)]
       \/ act' = [act EXCEPT ![a] = Doing("wait", j, "QUEUED", act[a].thread, act[a].place)]
    /\ UNCHANGED <<owner, bound, thread, known, place, session, tree, up, due, task, closing,
                   disturbed, stale>>

\* Only locks of this Job are given back.
Unlocks(j) ==
    /\ session' \in [Session -> [status : {"none", "open", "closed"}, owner : Owner,
                                 thread : Thread, lock : Job \cup {None}]]
    /\ \A s \in Session :
          /\ session'[s].status = session[s].status /\ session'[s].owner = session[s].owner
          /\ session'[s].thread = session[s].thread
          /\ \/ session'[s].lock = session[s].lock
             \/ session[s].lock = j /\ session'[s].lock = None
GiveMove(a, j) ==
    /\ up = "up" /\ act[a].job = j /\ act[a].at = "giveback"
    /\ Unlocks(j) /\ act' = [act EXCEPT ![a].at = "wait"] /\ disturbed' = TRUE
    /\ UNCHANGED <<owner, state, bound, thread, known, place, tree, up, due, task, closing,
                   stale>>
RollMove(a, j) ==
    /\ up = "up" /\ act[a].job = j /\ act[a].at = "rollback"
    /\ tree' # j /\ (tree' = tree \/ tree' = None)
    /\ act' = [act EXCEPT ![a].at = "wait"] /\ disturbed' = TRUE
    /\ UNCHANGED <<owner, state, bound, thread, known, place, session, up, due, task, closing,
                   stale>>

\* Assign, with the tree and without it.
TakeMove(a, j) ==
    /\ up = "up" /\ act[a].job = j /\ act[a].at = "assign" /\ state[j] = act[a].from
    /\ tree \in {None, j} /\ tree' = j
    /\ state' = [state EXCEPT ![j] = "ASSIGNED"] /\ bound' = bound \cup {j}
    /\ \/ act[a].from = "QUEUED" /\ act' = [act EXCEPT ![a].at = "begin"]
       \/ act[a].from # "QUEUED" /\ act' = [act EXCEPT ![a].at = "session"]
    /\ UNCHANGED <<owner, thread, known, place, session, up, due, task, closing, disturbed,
                   stale>>
BusyMove(a, j) ==
    /\ up = "up" /\ act[a].job = j /\ act[a].at = "assign" /\ tree \notin {None, j}
    /\ \/ act[a].from = "QUEUED" /\ act' = [act EXCEPT ![a].at = "giveback"]
       \/ act[a].from # "QUEUED" /\ act' = [act EXCEPT ![a] = Idle]
    /\ UNCHANGED <<owner, state, bound, thread, known, place, session, tree, up, due, task,
                   closing, disturbed, stale>>

\* An exception.
Raises(a) ==
    /\ act' = [act EXCEPT ![a] = Idle]
    /\ \/ a = Tick /\ due' = <<>>
       \/ a # Tick /\ due' = due
RaiseMove(a, j) ==
    /\ up = "up" /\ act[a].job = j /\ act[a].at \in {"assign", "wait"} /\ Raises(a)
    /\ disturbed' = disturbed \/ disturbed' = TRUE
    /\ UNCHANGED <<owner, state, bound, thread, known, place, session, tree, up, task,
                   closing, stale>>

WaitMove(a, j) ==
    /\ up = "up" /\ act[a].job = j /\ act[a].at = "wait" /\ state[j] \in {"QUEUED", "ASSIGNED"}
    /\ state' = [state EXCEPT ![j] = "WAITING_LEASE"] /\ bound' = bound \cup {j}
    /\ \/ act' = [act EXCEPT ![a] = Idle]
       \/ /\ place[j] = 0
          /\ act' = [act EXCEPT ![a] = Doing("enqueue", j, act[a].from, act[a].thread, 0)]
       \/ /\ place[j] # 0
          /\ act' = [act EXCEPT ![a] = Doing("write", j, act[a].from, act[a].thread, place[j])]
    /\ disturbed' = TRUE
    /\ UNCHANGED <<owner, thread, known, place, session, tree, up, due, task, closing, stale>>

\* A place behind all others.
Appended(j) ==
    \E p \in Nat \ {0} :
        (\A i \in Job : place[i] < p) /\ place' = [place EXCEPT ![j] = p]
EnqueueMove(a, j) ==
    /\ up = "up" /\ act[a].job = j /\ act[a].at = "enqueue"
    /\ (place[j] # 0 /\ UNCHANGED place) \/ (place[j] = 0 /\ Appended(j))
    /\ known' = known \cup {j} /\ act' = [act EXCEPT ![a] = Idle] /\ disturbed' = TRUE
    /\ UNCHANGED <<owner, state, bound, thread, session, tree, up, due, task, closing, stale>>
WriteMove(a, j) ==
    /\ up = "up" /\ act[a].job = j /\ act[a].at = "write"
    /\ place' = [place EXCEPT ![j] = act[a].place]
    /\ known' = known \cup {j} /\ act' = [act EXCEPT ![a] = Idle] /\ disturbed' = TRUE
    /\ UNCHANGED <<owner, state, bound, thread, session, tree, up, due, task, closing, stale>>
RefreshMove(a, j) ==
    /\ up = "up" /\ act[a].job = j /\ act[a].at = "refresh"
    /\ thread' = [thread EXCEPT ![j] = act[a].thread]
    /\ act' = [act EXCEPT ![a].at = "begin"]
    /\ UNCHANGED <<owner, state, bound, known, place, session, tree, up, due, task, closing,
                   disturbed, stale>>

\* Begin, of a Job that is still ASSIGNED or not.
Replaces(js) ==
    \/ stale' = stale /\ \A b \in Actor : act[b].at = "write" => act[b].job \notin js
    \/ stale' = stale + 1
Leaves(a, j) ==
    \/ act[a].from = "WAITING_LEASE" /\ place' = [place EXCEPT ![j] = 0] /\ Replaces({j})
    \/ act[a].from # "WAITING_LEASE" /\ UNCHANGED <<place, stale>>
BeginMove(a, j) ==
    /\ up = "up" /\ act[a].job = j /\ act[a].at = "begin" /\ Leaves(a, j)
    /\ known' = known \/ known' = known \cup {j}
    /\ \/ /\ state[j] = "ASSIGNED" /\ state' = [state EXCEPT ![j] = "RUNNING"]
          /\ task' = [task EXCEPT ![j] = "turn"] /\ act' = [act EXCEPT ![a] = Idle]
          /\ UNCHANGED due
       \/ state[j] # "ASSIGNED" /\ Raises(a) /\ UNCHANGED <<state, task>>
    /\ UNCHANGED <<owner, bound, thread, session, tree, up, closing, disturbed>>

\* A tick reads the records, and looks at the next one.
ListMove ==
    /\ up = "up" /\ act[Tick].at = "idle" /\ due = <<>> /\ due' \in Seq(Job)
    /\ known = {due'[n] : n \in DOMAIN due'}
    /\ \A m, n \in DOMAIN due' :
          m < n /\ place[due'[n]] # 0 => place[due'[m]] <= place[due'[n]]
    /\ disturbed' = FALSE
    /\ UNCHANGED <<owner, rows, up, act, task, closing, stale>>
Retries(a, j) ==
    /\ state[j] \in Waiting
    /\ act' = [act EXCEPT ![a] = Doing("assign", j, state[j], None, 0)]
LookMove(j) ==
    /\ up = "up" /\ act[Tick].at = "idle" /\ due' \in Seq(Job)
    /\ 1 \in DOMAIN due /\ j = due[1]
    /\ \A n \in DOMAIN due' : n \in Nat /\ n + 1 \in DOMAIN due /\ due'[n] = due[n + 1]
    /\ \A n \in DOMAIN due :
          n = 1 \/ (n \in Nat /\ n - 1 \in DOMAIN due' /\ due'[n - 1] = due[n])
    /\ \/ /\ state[j] = "ended" /\ UNCHANGED act
          /\ known' = known \ {j} /\ place' = [place EXCEPT ![j] = 0]
       \/ Retries(Tick, j) /\ UNCHANGED <<known, place>>
       \/ state[j] \notin Waiting /\ UNCHANGED <<act, known, place>>
    /\ UNCHANGED <<owner, state, bound, thread, session, tree, up, task, closing,
                   disturbed, stale>>

\* What users ask for.
CreateMove(a, j) ==
    /\ up = "up" /\ act[a].at = "idle" /\ a # Tick /\ state[j] = "none"
    /\ \A b \in Actor : act[b].job # j
    /\ act' = [act EXCEPT ![a] = Doing("session", j, "none", None, 0)]
    /\ UNCHANGED <<owner, rows, up, due, task, closing, disturbed, stale>>
RetryMove(a, j) ==
    /\ up = "up" /\ act[a].at = "idle" /\ a # Tick /\ Retries(a, j)
    /\ known' = known \cup {j}
    /\ \/ UNCHANGED place /\ (state[j] = "WAITING_HOST" \/ j \in known)
       \/ state[j] = "WAITING_LEASE" /\ j \notin known /\ Appended(j)
    /\ UNCHANGED <<owner, state, bound, thread, session, tree, up, due, task, closing,
                   disturbed, stale>>
SwitchMove(a, o, s) ==
    /\ up = "up" /\ act[a].at = "idle" /\ a # Tick /\ SessionFree(o)
    /\ \/ session[s].status = "none" /\ \A b \in Actor : act[b].target # s
       \/ session[s].owner = o /\ session[s].lock = None
    /\ \A t \in Open(o) : session[t].lock = None
    /\ session' \in [Session -> [status : {"none", "open", "closed"}, owner : Owner,
                                 thread : Thread, lock : Job \cup {None}]]
    /\ \A t \in Session :
          /\ session'[t].thread = session[t].thread /\ session'[t].lock = session[t].lock
          /\ session'[t].owner = IF t = s THEN o ELSE session[t].owner
          /\ session'[t].status = IF t \in Open(o) /\ t # s THEN "closed" ELSE session[t].status
    /\ act' = [act EXCEPT ![a] = [at |-> "reopen", job |-> None, from |-> "none",
                                 thread |-> None, place |-> 0, target |-> s]]
    /\ UNCHANGED <<owner, state, bound, thread, known, place, tree, up, due, task, closing,
                   disturbed, stale>>
ReopenMove(a, s) ==
    /\ up = "up" /\ act[a].at = "reopen" /\ act[a].target = s
    /\ session' = [session EXCEPT ![s] =
           [status |-> "open", owner |-> session[s].owner, thread |-> session[s].thread,
            lock |-> None]]
    /\ act' = [act EXCEPT ![a] = Idle]
    /\ UNCHANGED <<owner, state, bound, thread, known, place, tree, up, due, task, closing,
                   disturbed, stale>>
SwapMove(i, j) ==
    /\ up = "up" /\ i # j /\ place[i] # 0 /\ place[j] # 0 /\ i \in known /\ j \in known
    /\ state[i] = "WAITING_LEASE" /\ state[j] = "WAITING_LEASE" /\ Replaces({i, j})
    /\ place' = [place EXCEPT ![i] = place[j], ![j] = place[i]]
    /\ disturbed' = TRUE
    /\ UNCHANGED <<owner, state, bound, thread, known, session, tree, memory>>

\* The task of a Job.
LearnMove(j) ==
    /\ up = "up" /\ task[j] = "turn" /\ state[j] = "RUNNING"
    /\ \E t \in Thread : thread' = [thread EXCEPT ![j] = t]
    /\ task' = [task EXCEPT ![j] = "bind"]
    /\ UNCHANGED <<owner, state, bound, known, place, session, tree, up, act, due, closing,
                   disturbed, stale>>
BindMove(j) ==
    /\ up = "up" /\ task[j] = "bind" /\ SessionFree(owner[j])
    /\ \E s \in Open(owner[j]) :
          \/ /\ session[s].lock \in {None, j}
             /\ session' = [session EXCEPT ![s] =
                   [status |-> "open", owner |-> owner[j], thread |-> thread[j], lock |-> j]]
          \/ session[s].lock \notin {None, j} /\ UNCHANGED session
    /\ \/ state[j] = "RUNNING" /\ task' = [task EXCEPT ![j] = "bound"]
       \/ state[j] # "RUNNING" /\ task' = [task EXCEPT ![j] = "none"]
    /\ UNCHANGED <<owner, state, bound, thread, known, place, tree, up, act, due, closing,
                   disturbed, stale>>
EndMove(j) ==
    /\ up = "up" /\ state[j] \notin {"none", "ended"}
    /\ state' = [state EXCEPT ![j] = "ended"] /\ closing' = [closing EXCEPT ![j] = "unlock"]
    /\ \/ task[j] # "bind" /\ task' = [task EXCEPT ![j] = "none"]
       \/ UNCHANGED task /\ task[j] = "bind"
    /\ UNCHANGED <<owner, bound, thread, known, place, session, tree, up, act, due,
                   disturbed, stale>>
UnlockMove(j) ==
    /\ up = "up" /\ closing[j] = "unlock" /\ Unlocks(j)
    /\ closing' = [closing EXCEPT ![j] = "unlease"] /\ disturbed' = TRUE
    /\ UNCHANGED <<owner, state, bound, thread, known, place, tree, up, act, due, task, stale>>
UnleaseMove(j) ==
    /\ up = "up" /\ closing[j] = "unlease" /\ closing' = [closing EXCEPT ![j] = "none"]
    /\ tree' = tree \/ tree' = None
    /\ known' = known \ {j} /\ place' = [place EXCEPT ![j] = 0] /\ disturbed' = TRUE
    /\ UNCHANGED <<owner, state, bound, thread, session, up, act, due, task, stale>>

\* Crash and restart.
CrashMove ==
    /\ up = "up" /\ up' = "down" /\ act' = [a \in Actor |-> Idle] /\ due' = <<>>
    /\ task' = [j \in Job |-> "none"] /\ closing' = [j \in Job |-> "none"]
    /\ UNCHANGED <<owner, rows, disturbed, stale>>
RefuseMove ==
    /\ up = "down" /\ up' = "refused"
    /\ UNCHANGED <<owner, rows, act, due, task, closing, disturbed, stale>>
Repaired(j) == state[j] \in {"QUEUED", "ASSIGNED", "RUNNING"}
StartMove ==
    /\ up = "down" /\ up' = "up"
    /\ \/ tree' = None
       \/ tree' \in Job /\ state[tree'] \in {"ASSIGNED", "RUNNING", "WAITING_HOST"}
    /\ session' \in [Session -> [status : {"none", "open", "closed"}, owner : Owner,
                                 thread : Thread, lock : Job \cup {None}]]
    /\ \A s \in Session :
          /\ session'[s].status = session[s].status /\ session'[s].owner = session[s].owner
          /\ session'[s].thread = session[s].thread
          /\ session'[s].lock = session[s].lock \/ session'[s].lock = None
    /\ state' \in [Job -> JobState] /\ place' \in [Job -> Nat]
    /\ \A j \in Job :
          /\ Repaired(j) => state'[j] = "WAITING_HOST"
          /\ ~Repaired(j) => state'[j] = state[j]
    /\ known' = known \cup {j \in Job : state[j] \notin {"none", "ended"}}
    /\ \A j \in Job :
          /\ Placed(j) => place'[j] = place[j]
          /\ ~Placed(j) => \A i \in Job :
                place[i] < place'[j] /\ (i # j /\ ~Placed(i) => place'[i] # place'[j])
    /\ UNCHANGED <<owner, bound, thread, act, due, task, closing, disturbed, stale>>

\* A session is opened with the thread of the owner's last Job.
LEMMA OpenMoves ==
    ASSUME TypeOK, ActInv, NEW a \in Actor, Acquire(a), Open(owner[act[a].job]) = {}
    PROVE  act[a].job \in Job /\ OpenMove(a, act[a].job)
<1> DEFINE j == act[a].job
<1>1. up = "up" /\ act[a].at = "session" /\ j \in Job /\ SessionFree(owner[j])
  BY DEF Acquire, At, ActInv, ActOK
<1>2. Seed(j) \in Thread
  <2> DEFINE mine == {i \in Job : owner[i] = owner[j] /\ state[i] # "none"}
  <2>1. mine # {} => \E i \in mine : \A k \in mine : k <= i
    BY LatestJob
  <2>2. mine # {} => (CHOOSE i \in mine : \A k \in mine : k <= i) \in Job
    BY <2>1
  <2>3. thread \in [Job -> Thread]
    BY DEF TypeOK, RowsTypeOK
  <2>4. QED
    BY <1>1, <2>2, <2>3 DEF Seed
<1>3. \A s \in NewRow : s \in Session /\ session[s].status = "none"
                        /\ \A b \in Actor : act[b].target # s
  BY DEF NewRow, Unused
<1>4. QED
  BY <1>1, <1>2, <1>3 DEF Acquire, OpenMove, Goto

\* The open session is locked, or is another Job's.
LEMMA LockMoves ==
    ASSUME TypeOK, ActInv, KeepInv, NEW a \in Actor,
           LockNew(a) \/ (Acquire(a) /\ Open(owner[act[a].job]) # {})
    PROVE  act[a].job \in Job /\ LockMove(a, act[a].job)
<1> DEFINE j == act[a].job
<1>1. /\ up = "up" /\ j \in Job
      /\ act[a].at = "lock" \/ (act[a].at = "session" /\ SessionFree(owner[j]))
  BY DEF Acquire, LockNew, At, ActInv, ActOK
<1>2. Open(owner[j]) # {}
  BY DEF KeepInv, KeepOK, LockNew, At
<1>3. Lock(a) /\ UNCHANGED <<owner, state, bound, known, place, tree, up, due, task, closing,
                             disturbed, bounds>>
  BY DEF Acquire, LockNew
<1> DEFINE s == CHOOSE s \in Open(owner[j]) : TRUE
<1>4. s \in Open(owner[j])
  BY <1>2
<1>5. CASE session[s].lock \in {None, j}
  <2>1. Locks(a, j, s)
    BY <1>3, <1>5 DEF Lock, Locks
  <2>2. QED
    BY <1>1, <1>3, <1>4, <2>1 DEF LockMove
<1>6. CASE session[s].lock \notin {None, j}
  <2>1. FindsBusy(a, j, s)
    BY <1>3, <1>6 DEF Lock, FindsBusy, Goto
  <2>2. QED
    BY <1>1, <1>3, <1>4, <2>1 DEF LockMove
<1>7. QED
  BY <1>5, <1>6

\* release_for_job frees the sessions of this Job only.
LEMMA UnlockedFrees ==
    ASSUME TypeOK, NEW j \in Job, Unlocked(j)
    PROVE  Unlocks(j)
<1>1. \A s \in Session :
         [session[s] EXCEPT !.lock = None] =
            [status |-> session[s].status, owner |-> session[s].owner,
             thread |-> session[s].thread, lock |-> None]
  BY DEF TypeOK, RowsTypeOK
<1>2. QED
  BY <1>1 DEF TypeOK, RowsTypeOK, Unlocked, Unlocks

\* The steps of a request between its lock and its Job's place in the queue.
LEMMA PlacingMoves ==
    ASSUME TypeOK, ActInv, NEW a \in Actor,
           AddJob(a) \/ Assign(a) \/ GiveBack(a) \/ Rollback(a) \/ Wait(a) \/ Enqueue(a)
    PROVE  /\ act[a].job \in Job
           /\ \/ AddMove(a, act[a].job) \/ TakeMove(a, act[a].job) \/ BusyMove(a, act[a].job)
              \/ RaiseMove(a, act[a].job) \/ GiveMove(a, act[a].job) \/ RollMove(a, act[a].job)
              \/ WaitMove(a, act[a].job) \/ EnqueueMove(a, act[a].job)
<1> DEFINE j == act[a].job
<1>1. up = "up" /\ j \in Job
  BY DEF AddJob, Assign, GiveBack, Rollback, Wait, Enqueue, At, ActInv, ActOK
<1>2. CASE AddJob(a)
  BY <1>1, <1>2 DEF AddJob, AddMove, At, Move
<1>3. CASE Assign(a)
  <2>1. CASE state[j] # act[a].from
    BY <1>1, <1>3, <2>1 DEF Assign, RaiseMove, Raises, Raise, Return, At
  <2>2. CASE state[j] = act[a].from /\ tree \in {None, j}
    BY <1>1, <1>3, <2>2 DEF Assign, TakeMove, Goto, Move, At
  <2>3. CASE state[j] = act[a].from /\ tree \notin {None, j}
    BY <1>1, <1>3, <2>3 DEF Assign, BusyMove, Goto, Return, At
  <2>4. QED
    BY <2>1, <2>2, <2>3
<1>4. CASE GiveBack(a)
  BY <1>1, <1>4, UnlockedFrees DEF GiveBack, GiveMove, Goto, At
<1>5. CASE Rollback(a)
  BY <1>1, <1>5 DEF Rollback, RollMove, Unleased, Goto, At, Job, None
<1>6. CASE Wait(a)
  <2>1. CASE state[j] \in {"QUEUED", "ASSIGNED"}
    BY <1>1, <1>6, <2>1 DEF Wait, WaitMove, Move, Return, At
  <2>2. CASE state[j] \notin {"QUEUED", "ASSIGNED"}
    BY <1>1, <1>6, <2>2 DEF Wait, RaiseMove, Raises, Raise, Return, At
  <2>3. QED
    BY <2>1, <2>2
<1>7. CASE Enqueue(a)
  <2>1. place \in [Job -> Nat]
    BY DEF TypeOK, RowsTypeOK
  <2>2. CASE place[j] = 0
    <3>1. place' = [place EXCEPT ![j] = NextPlace]
      BY <1>1, <1>7, <2>2 DEF Enqueue
    <3>2. Appended(j)
      BY <2>1, <3>1, NextPlaceIsLast DEF Appended
    <3>3. QED
      BY <1>1, <1>7, <2>2, <3>2 DEF Enqueue, EnqueueMove, Return, At
  <2>3. CASE place[j] # 0
    <3>1. place' = place
      BY <1>1, <1>7, <2>1, <2>3 DEF Enqueue
    <3>2. QED
      BY <1>1, <1>7, <2>3, <3>1 DEF Enqueue, EnqueueMove, Return, At
  <2>4. QED
    BY <2>2, <2>3
<1>8. QED
  BY <1>1, <1>2, <1>3, <1>4, <1>5, <1>6, <1>7

\* A place is replaced while no one is about to write it back, or it is counted.
LEMMA OverwritesReplace ==
    ASSUME NEW js, Overwrites(js)
    PROVE  Replaces(js)
BY DEF Overwrites, Replaces, Written

LEMMA StartingMoves ==
    ASSUME TypeOK, ActInv, NEW a \in Actor,
           WriteBack(a) \/ Refresh(a) \/ Begin(a)
    PROVE  /\ act[a].job \in Job
           /\ \/ WriteMove(a, act[a].job) \/ RefreshMove(a, act[a].job)
              \/ BeginMove(a, act[a].job)
<1> DEFINE j == act[a].job
<1>1. up = "up" /\ j \in Job
  BY DEF WriteBack, Refresh, Begin, At, ActInv, ActOK
<1>2. CASE WriteBack(a)
  BY <1>1, <1>2 DEF WriteBack, WriteMove, Return, At
<1>3. CASE Refresh(a)
  BY <1>1, <1>3 DEF Refresh, RefreshMove, Goto, At
<1>4. CASE Begin(a)
  <2>1. Leaves(a, j)
    BY <1>4, OverwritesReplace DEF Begin, Leaves
  <2>2. QED
    BY <1>1, <1>4, <2>1 DEF Begin, BeginMove, Raises, Raise, Return, Move, At
<1>5. QED
  BY <1>1, <1>2, <1>3, <1>4

\* The list of a tick has every record, in the order of their places.
LEMMA ListMoves ==
    ASSUME TypeOK, List
    PROVE  ListMove
<1>1. PICK records \in SetToSeqs(known) : InOrder(records) /\ due' = records
  BY DEF List
<1> DEFINE n == Cardinality(known)
<1>2. IsFiniteSet(known) /\ n \in Nat /\ known \subseteq Job
  <2>1. IsFiniteSet(Job) /\ known \in SUBSET Job
    BY BoundAssumption, FS_Interval DEF Job, TypeOK, RowsTypeOK
  <2>2. QED
    BY <2>1, FS_Subset, FS_CardinalityType
<1>3. records \in [1..n -> known] /\ \A x, y \in 1..n : x # y => records[x] # records[y]
  BY <1>1 DEF SetToSeqs
<1>4. records \in Seq(Job) /\ DOMAIN records = 1..n
  BY <1>2, <1>3
<1>5. known = {records[x] : x \in 1..n}
  <2>1. IsFiniteSet(1..n) /\ Cardinality(1..n) = n
    BY <1>2, FS_Interval
  <2>2. records \in Injection(1..n, known)
    BY <1>3 DEF Injection, IsInjective
  <2>3. records \in Surjection(1..n, known)
    BY <1>2, <2>1, <2>2, FS_Injection
  <2>4. QED
    BY <1>3, <2>3 DEF Surjection
<1>6. \A x, y \in DOMAIN due' :
         x < y /\ place[due'[y]] # 0 => place[due'[x]] <= place[due'[y]]
  <2> SUFFICES ASSUME NEW x \in DOMAIN records, NEW y \in DOMAIN records, x < y,
                      place[records[y]] # 0
               PROVE  place[records[x]] <= place[records[y]]
    BY <1>1
  <2>1. place[records[x]] \in 1..place[records[y]]
    BY <1>1 DEF InOrder
  <2>2. QED
    BY <2>1
<1>7. QED
  BY <1>1, <1>4, <1>5, <1>6 DEF List, ListMove, At

\* A retry starts with a fresh record of what the actor is doing.
LEMMA RetriedRetries ==
    ASSUME NEW a \in Actor, NEW j \in Job, Retried(a, j), state[j] \in Waiting
    PROVE  Retries(a, j)
BY DEF Retried, Retries

LEMMA LookMoves ==
    ASSUME TypeOK, Look
    PROVE  \E j \in Job : LookMove(j)
<1> DEFINE j == Head(due)
<1>1. due \in Seq(Job) /\ due # <<>>
  BY DEF TypeOK, MemoryTypeOK, Look
<1>2. j \in Job /\ j = due[1] /\ 1 \in DOMAIN due /\ Tail(due) \in Seq(Job)
  BY <1>1
<1>3. Len(due) \in Nat /\ DOMAIN due = 1..Len(due) /\ Len(Tail(due)) = Len(due) - 1
      /\ DOMAIN Tail(due) = 1..(Len(due) - 1)
  BY <1>1
<1>4. \A n \in 1..(Len(due) - 1) : Tail(due)[n] = due[n + 1]
  BY <1>1
<1>5. \A n \in DOMAIN due' : n \in Nat /\ n + 1 \in DOMAIN due /\ due'[n] = due[n + 1]
  BY <1>3, <1>4 DEF Look
<1>6. \A n \in DOMAIN due :
         n = 1 \/ (n \in Nat /\ n - 1 \in DOMAIN due' /\ due'[n - 1] = due[n])
  <2> SUFFICES ASSUME NEW n \in 1..Len(due), n # 1
               PROVE  n - 1 \in 1..(Len(due) - 1) /\ Tail(due)[n - 1] = due[n]
    BY <1>3 DEF Look
  <2>1. n - 1 \in 1..(Len(due) - 1) /\ (n - 1) + 1 = n
    BY <1>3
  <2>2. QED
    BY <1>4, <2>1
<1>7. Tick \in Actor
  BY DEF Actor
<1>8. \/ /\ state[j] = "ended" /\ UNCHANGED act
         /\ known' = known \ {j} /\ place' = [place EXCEPT ![j] = 0]
      \/ Retries(Tick, j) /\ UNCHANGED <<known, place>>
      \/ state[j] \notin Waiting /\ UNCHANGED <<act, known, place>>
  BY <1>2, <1>7, RetriedRetries DEF Look, Waiting
<1>9. up = "up" /\ act[Tick].at = "idle" /\ due' \in Seq(Job)
  BY <1>2 DEF Look, At
<1>10. QED
  BY <1>2, <1>5, <1>6, <1>8, <1>9 DEF Look, LookMove

\* What users ask for.
LEMMA RequestMoves ==
    ASSUME TypeOK, NEW a \in Request, NEW j \in Job, Create(a, j) \/ ManualRetry(a, j)
    PROVE  a \in Actor /\ (CreateMove(a, j) \/ RetryMove(a, j))
<1>1. a \in Actor /\ a # Tick
  BY ActorAssumption DEF Actor
<1>2. CASE Create(a, j)
  BY <1>1, <1>2 DEF Create, CreateMove, At
<1>3. CASE ManualRetry(a, j)
  <2>1. Retries(a, j)
    BY <1>1, <1>3, RetriedRetries DEF ManualRetry, Waiting
  <2>2. CASE state[j] = "WAITING_LEASE" /\ j \notin known
    <3>1. Appended(j)
      BY <1>3, <2>2, NextPlaceIsLast DEF ManualRetry, Appended, TypeOK, RowsTypeOK
    <3>2. QED
      BY <1>1, <1>3, <2>1, <2>2, <3>1 DEF ManualRetry, RetryMove, At
  <2>3. CASE ~(state[j] = "WAITING_LEASE" /\ j \notin known)
    BY <1>1, <1>3, <2>1, <2>3 DEF ManualRetry, RetryMove, At
  <2>4. QED
    BY <2>2, <2>3
<1>4. QED
  BY <1>2, <1>3

LEMMA SwitchMoves ==
    ASSUME TypeOK, NEW a \in Request, NEW o \in Owner, NEW s \in Session, Switch(a, o, s)
    PROVE  a \in Actor /\ SwitchMove(a, o, s)
<1>1. a \in Actor /\ a # Tick
  BY ActorAssumption DEF Actor
<1>2. PICK r : r = [Doing("reopen", None, "none", None, 0) EXCEPT !.target = s]
  OBVIOUS
<1>3. r = [at |-> "reopen", job |-> None, from |-> "none", thread |-> None, place |-> 0,
           target |-> s]
  BY <1>2 DEF Doing
<1>4. act' = [act EXCEPT ![a] = r]
  BY <1>2 DEF Switch
<1>5. \A t \in Session :
         /\ [session[t] EXCEPT !.status = "closed"] =
               [status |-> "closed", owner |-> session[t].owner,
                thread |-> session[t].thread, lock |-> session[t].lock]
         /\ [session[t] EXCEPT !.owner = o] =
               [status |-> session[t].status, owner |-> o,
                thread |-> session[t].thread, lock |-> session[t].lock]
  BY DEF TypeOK, RowsTypeOK
<1>6. session' = [t \in Session |->
           IF t \in Open(o) \ {s} THEN [session[t] EXCEPT !.status = "closed"]
           ELSE IF t = s THEN [session[t] EXCEPT !.owner = o] ELSE session[t]]
  BY DEF Switch
<1>7. session' \in [Session -> [status : {"none", "open", "closed"}, owner : Owner,
                                 thread : Thread, lock : Job \cup {None}]]
  <2> DEFINE Row == [status : {"none", "open", "closed"}, owner : Owner, thread : Thread,
                     lock : Job \cup {None}]
  <2>1. \A t \in Session : session[t] \in Row
    BY DEF TypeOK, RowsTypeOK
  <2>2. ASSUME NEW t \in Session
        PROVE  [session[t] EXCEPT !.status = "closed"] \in Row
               /\ [session[t] EXCEPT !.owner = o] \in Row
    BY <1>5, <2>1
  <2> HIDE DEF Row
  <2>3. \A t \in Session :
           (IF t \in Open(o) \ {s} THEN [session[t] EXCEPT !.status = "closed"]
            ELSE IF t = s THEN [session[t] EXCEPT !.owner = o] ELSE session[t]) \in Row
    BY <2>1, <2>2
  <2>4. session' \in [Session -> Row]
    BY <1>6, <2>3
  <2>5. QED
    BY <2>4 DEF Row
<1>8. \A t \in Session :
         /\ session'[t].thread = session[t].thread /\ session'[t].lock = session[t].lock
         /\ session'[t].owner = IF t = s THEN o ELSE session[t].owner
         /\ session'[t].status = IF t \in Open(o) /\ t # s THEN "closed" ELSE session[t].status
  BY <1>5, <1>6 DEF Open
<1>9. \/ session[s].status = "none" /\ \A b \in Actor : act[b].target # s
      \/ session[s].owner = o /\ session[s].lock = None
  BY DEF Switch, NewRow, Unused
<1>10. QED
  BY <1>1, <1>3, <1>4, <1>7, <1>8, <1>9 DEF Switch, SwitchMove, At

LEMMA SwapMoves ==
    ASSUME TypeOK, NEW i \in Job, NEW j \in Job, Reorder(i, j)
    PROVE  SwapMove(i, j)
<1>1. i # j
  BY DEF Reorder, TypeOK, RowsTypeOK
<1>2. QED
  BY <1>1, OverwritesReplace DEF Reorder, SwapMove, Lane

\* The task of a Job, its cancellation and its end.
LEMMA TaskMoves ==
    ASSUME TypeOK, EndInv, NEW j \in Job, Work(j) \/ Cancel(j)
    PROVE  LearnMove(j) \/ BindMove(j) \/ EndMove(j) \/ UnlockMove(j) \/ UnleaseMove(j)
<1>1. CASE Learn(j)
  <2>1. {j} \cup ({thread[j]} \ {None}) \subseteq Thread
    BY DEF TypeOK, RowsTypeOK, Thread
  <2>2. QED
    BY <1>1, <2>1 DEF Learn, LearnMove
<1>2. CASE Bind(j)
  <2> DEFINE s == CHOOSE s \in Open(owner[j]) : TRUE
  <2>1. s \in Open(owner[j])
    BY <1>2 DEF Bind
  <2>2. QED
    BY <1>2, <2>1 DEF Bind, BindMove
<1>3. CASE End(j)
  BY <1>3 DEF End, EndMove, Move
<1>4. CASE Cancel(j)
  <2>1. CASE task[j] = "bind"
    <3>1. UNCHANGED task
      BY <1>4, <2>1 DEF Cancel, TypeOK, MemoryTypeOK
    <3>2. QED
      BY <1>4, <2>1, <3>1 DEF Cancel, EndMove, Move
  <2>2. CASE task[j] # "bind"
    BY <1>4, <2>2 DEF Cancel, EndMove, Move
  <2>3. QED
    BY <2>1, <2>2
<1>5. CASE Release(j)
  BY <1>5, UnlockedFrees DEF Release, UnlockMove, UnleaseMove, Unleased
<1>6. QED
  BY <1>1, <1>2, <1>3, <1>4, <1>5 DEF Work

\* A start repairs the rows, and gives every queued Job a place of its own.
LEMMA StartMoves ==
    ASSUME TypeOK, Restart, up' = "up"
    PROVE  StartMove
<1>1. /\ up = "down"
      /\ UNCHANGED <<owner, bound, thread, act, due, task, closing, disturbed, bounds>>
  BY DEF Restart
<1>2. ~(Cardinality({j \in Job : Claims(j)}) > 1)
  BY DEF Restart
<1>3. \/ tree' = None
      \/ tree' \in Job /\ state[tree'] \in {"ASSIGNED", "RUNNING", "WAITING_HOST"}
  BY <1>2 DEF Restart, Claims
<1>4. session' = [s \in Session |->
         IF session[s].lock # None /\ state[session[s].lock] \in {"none", "ended"}
         THEN [session[s] EXCEPT !.lock = None] ELSE session[s]]
  BY <1>2 DEF Restart
<1>5. \A s \in Session :
         [session[s] EXCEPT !.lock = None] =
            [status |-> session[s].status, owner |-> session[s].owner,
             thread |-> session[s].thread, lock |-> None]
  BY DEF TypeOK, RowsTypeOK
<1>6. session' \in [Session -> [status : {"none", "open", "closed"}, owner : Owner,
                                 thread : Thread, lock : Job \cup {None}]]
  BY <1>4, <1>5 DEF TypeOK, RowsTypeOK
<1>7. \A s \in Session :
         /\ session'[s].status = session[s].status /\ session'[s].owner = session[s].owner
         /\ session'[s].thread = session[s].thread
         /\ session'[s].lock = session[s].lock \/ session'[s].lock = None
  BY <1>4, <1>5
<1>8. state' \in [Job -> JobState] /\ \A j \in Job :
          /\ Repaired(j) => state'[j] = "WAITING_HOST"
          /\ ~Repaired(j) => state'[j] = state[j]
  BY <1>2 DEF Restart, Repaired, TypeOK, RowsTypeOK, JobState
<1>9. known' = known \cup {j \in Job : state[j] \notin {"none", "ended"}}
  BY <1>2 DEF Restart
<1>10. place' = [j \in Job |-> PlaceAtStart(j)] /\ place \in [Job -> Nat]
  BY <1>2 DEF Restart, TypeOK, RowsTypeOK
<1>11. NextPlace \in Nat /\ \A i \in Job : place[i] < NextPlace
  BY <1>10, NextPlaceIsLast
<1>12. \A j \in Job : ~Placed(j) => Rank(j) \in Nat /\ 1 <= Rank(j)
  BY RankIsPositive
<1>13. \A i, j \in Job : ~Placed(i) /\ ~Placed(j) /\ i # j => Rank(i) # Rank(j)
  <2> SUFFICES ASSUME NEW i \in Job, NEW j \in Job, ~Placed(i), ~Placed(j), i < j
               PROVE  Rank(i) # Rank(j)
    BY BoundAssumption DEF Job
  <2>1. QED
    BY RanksDiffer
<1>14. \A j \in Job : PlaceAtStart(j) = IF Placed(j) THEN place[j] ELSE NextPlace + Rank(j) - 1
  BY DEF PlaceAtStart
<1>15. \A j \in Job : place'[j] \in Nat /\ (Placed(j) => place'[j] = place[j])
  BY <1>10, <1>11, <1>12, <1>14
<1>16. ASSUME NEW j \in Job, ~Placed(j), NEW i \in Job
       PROVE  place[i] < place'[j] /\ (i # j /\ ~Placed(i) => place'[i] # place'[j])
  <2>1. place'[j] = NextPlace + Rank(j) - 1 /\ Rank(j) \in Nat /\ 1 <= Rank(j)
    BY <1>10, <1>12, <1>14, <1>16
  <2>2. place[i] \in Nat /\ place[i] < NextPlace
    BY <1>10, <1>11
  <2>3. ASSUME ~Placed(i), i # j PROVE place'[i] # place'[j]
    <3>1. place'[i] = NextPlace + Rank(i) - 1 /\ Rank(i) \in Nat
      BY <1>10, <1>12, <1>14, <2>3
    <3>2. Rank(i) # Rank(j)
      BY <1>13, <1>16, <2>3
    <3>3. \A p, m, n \in Nat : m # n => p + m - 1 # p + n - 1
      OBVIOUS
    <3>4. NextPlace \in Nat /\ Rank(j) \in Nat
      BY <1>11, <2>1
    <3>5. NextPlace + Rank(i) - 1 # NextPlace + Rank(j) - 1
      BY <3>1, <3>2, <3>3, <3>4
    <3>6. QED
      BY <2>1, <3>1, <3>5
  <2>4. place[i] < place'[j]
    BY <1>11, <2>1, <2>2
  <2>5. QED
    BY <2>3, <2>4
<1>17. place' \in [Job -> Nat]
  BY <1>10, <1>15
<1>18. QED
  BY <1>1, <1>3, <1>6, <1>7, <1>8, <1>9, <1>15, <1>16, <1>17 DEF StartMove

-----------------------------------------------------------------------------
(* The steps of the system, in terms of these moves.                       *)

Creating(a, j) ==
    OpenMove(a, j) \/ LockMove(a, j) \/ AddMove(a, j) \/ GiveMove(a, j) \/ RollMove(a, j)
Assigning(a, j) == TakeMove(a, j) \/ BusyMove(a, j) \/ RaiseMove(a, j) \/ WaitMove(a, j)
Starting(a, j) == EnqueueMove(a, j) \/ WriteMove(a, j) \/ RefreshMove(a, j) \/ BeginMove(a, j)
Requesting(a, j) == CreateMove(a, j) \/ RetryMove(a, j)
Working(j) == LearnMove(j) \/ BindMove(j) \/ EndMove(j) \/ UnlockMove(j) \/ UnleaseMove(j)
Stuttering == UNCHANGED <<owner, rows, memory, disturbed, stale>>
Restarting == CrashMove \/ RefuseMove \/ StartMove \/ Stuttering

NextMove ==
    \/ \E a \in Actor, j \in Job :
          Creating(a, j) \/ Assigning(a, j) \/ Starting(a, j) \/ Requesting(a, j)
    \/ \E a \in Actor, o \in Owner, s \in Session : SwitchMove(a, o, s)
    \/ \E a \in Actor, s \in Session : ReopenMove(a, s)
    \/ \E i, j \in Job : SwapMove(i, j)
    \/ \E j \in Job : LookMove(j) \/ Working(j)
    \/ ListMove \/ Restarting

\* Every step of the system is one of these.
LEMMA NextMoves ==
    ASSUME TypeOK, ActInv, EndInv, KeepInv, [Next]_vars
    PROVE  NextMove
<1>1. ASSUME NEW a \in Actor, Proceed(a) PROVE NextMove
  <2>1. CASE Acquire(a) \/ LockNew(a)
    <3>1. act[a].job \in Job /\ Creating(a, act[a].job)
      BY <2>1, OpenMoves, LockMoves DEF Creating
    <3>2. QED
      BY <3>1 DEF NextMove
  <2>2. CASE AddJob(a) \/ Assign(a) \/ GiveBack(a) \/ Rollback(a) \/ Wait(a) \/ Enqueue(a)
    <3>1. /\ act[a].job \in Job
          /\ \/ Creating(a, act[a].job) \/ Assigning(a, act[a].job)
             \/ Starting(a, act[a].job)
      BY <2>2, PlacingMoves DEF Creating, Assigning, Starting
    <3>2. QED
      BY <3>1 DEF NextMove
  <2>3. CASE WriteBack(a) \/ Refresh(a) \/ Begin(a)
    <3>1. act[a].job \in Job /\ Starting(a, act[a].job)
      BY <2>3, StartingMoves DEF Starting
    <3>2. QED
      BY <3>1 DEF NextMove
  <2>4. CASE Reopen(a)
    <3>1. act[a].target \in Session /\ ReopenMove(a, act[a].target)
      BY <2>4 DEF Reopen, ReopenMove, Return, At, KeepInv, KeepOK
    <3>2. QED
      BY <3>1 DEF NextMove
  <2>5. QED
    BY <1>1, <2>1, <2>2, <2>3, <2>4 DEF Proceed
<1>2. ASSUME NEW a \in Request, NEW j \in Job, Create(a, j) \/ ManualRetry(a, j)
      PROVE  NextMove
  BY <1>2, RequestMoves DEF NextMove, Requesting
<1>3. ASSUME NEW a \in Request, NEW o \in Owner, NEW s \in Session, Switch(a, o, s)
      PROVE  NextMove
  BY <1>3, SwitchMoves DEF NextMove
<1>4. ASSUME NEW i \in Job, NEW j \in Job, Reorder(i, j) PROVE NextMove
  BY <1>4, SwapMoves DEF NextMove
<1>5. ASSUME NEW j \in Job, Work(j) \/ Cancel(j) PROVE NextMove
  BY <1>5, TaskMoves DEF NextMove, Working
<1>6. CASE List \/ Look
  BY <1>6, ListMoves, LookMoves DEF NextMove
<1>7. CASE Crash
  BY <1>7 DEF Crash, CrashMove, NextMove, Restarting
<1>8. CASE Restart
  <2>1. CASE up' = "up"
    BY <1>8, <2>1, StartMoves DEF NextMove, Restarting
  <2>2. CASE up' # "up"
    <3>1. RefuseMove
      BY <1>8, <2>2 DEF Restart, RefuseMove
    <3>2. QED
      BY <3>1 DEF NextMove, Restarting
  <2>3. QED
    BY <2>1, <2>2
<1>9. CASE UNCHANGED vars
  BY <1>9 DEF vars, NextMove, Restarting, Stuttering
<1>10. QED
  BY <1>1, <1>2, <1>3, <1>4, <1>5, <1>6, <1>7, <1>8, <1>9 DEF Next

-----------------------------------------------------------------------------
(* What a step does to each part of the invariant.                         *)

SessionRow == [status : {"none", "open", "closed"}, owner : Owner, thread : Thread,
               lock : Job \cup {None}]
JobRowsTypeOK ==
    /\ owner \in [Job -> Owner] /\ state \in [Job -> JobState]
    /\ bound \subseteq Job /\ known \subseteq Job /\ thread \in [Job -> Thread]
    /\ place \in [Job -> Nat] /\ tree \in Job \cup {None}
RestTypeOK ==
    /\ up \in {"up", "down", "refused"} /\ due \in Seq(Job)
    /\ task \in [Job -> {"none", "turn", "bind", "bound"}]
    /\ closing \in [Job -> {"none", "unlock", "unlease"}]
Apart == \A a, b \in Actor : a # b /\ Keeps(a) /\ Keeps(b) => SessionOwner(a) # SessionOwner(b)
InSession(j) ==
    \E s \in Open(owner[j]) :
        session[s].lock = j /\ (task[j] # "bind" => session[s].thread = thread[j])
PlacesOK ==
    /\ \A i, j \in Job : i # j /\ Live(i) /\ Live(j) /\ place[i] # 0 => place[i] # place[j]
    /\ \A j \in Job : Live(j) /\ place[j] # 0 => j \in known
    /\ \A a \in Actor : Writes(a) => place[act[a].job] = act[a].place /\ act[a].place # 0

\* A Job is not the absence of one.
LEMMA NoneIsNoJob == \A j \in Job : j # None /\ j \in Nat
BY BoundAssumption DEF Job, None

-----------------------------------------------------------------------------
(* Types.                                                                  *)

Phase == {"idle", "session", "lock", "row", "assign", "giveback", "rollback", "wait",
          "enqueue", "write", "refresh", "begin", "reopen"}
Activities == [Actor -> Activity]

\* What an actor does is replaced.
LEMMA ChangeTyped ==
    ASSUME act \in Activities, NEW a \in Actor, NEW r \in Activity, act' = [act EXCEPT ![a] = r]
    PROVE  act' \in Activities
BY DEF Activities

\* An actor goes on to another phase.
LEMMA GoTyped ==
    ASSUME act \in Activities, NEW a \in Actor, NEW p \in Phase, act' = [act EXCEPT ![a].at = p]
    PROVE  act' \in Activities
BY DEF Activities, Activity, Phase

Sessions == [Session -> SessionRow]

\* A session is locked, learns its thread, or is opened.
LEMMA SessionTyped ==
    ASSUME session \in Sessions, NEW s \in Session
    PROVE  /\ \A r \in SessionRow :
                 session' = [session EXCEPT ![s] = r] => session' \in Sessions
           /\ \A j \in Job :
                 session' = [session EXCEPT ![s].lock = j] => session' \in Sessions
BY DEF Sessions, SessionRow

\* Every step leaves the rows of Jobs and records well formed.
LEMMA RowsTyped ==
    ASSUME TypeOK, NextMove
    PROVE  JobRowsTypeOK'
<1> USE DEF TypeOK, RowsTypeOK, MemoryTypeOK, Activity, JobRowsTypeOK, JobState
<1>1. ASSUME NEW a \in Actor, NEW j \in Job, Creating(a, j) PROVE JobRowsTypeOK'
  <2>1. CASE OpenMove(a, j)
    BY <2>1 DEF OpenMove, Open, SessionFree, Keeps
  <2>2. CASE LockMove(a, j)
    BY <2>2 DEF LockMove, Locks, FindsBusy, Open, SessionFree, Keeps, Doing
  <2>3. CASE AddMove(a, j)
    BY <2>3 DEF AddMove, Holds, Open, Doing
  <2>4. CASE GiveMove(a, j) \/ RollMove(a, j)
    BY <2>4 DEF GiveMove, Unlocks, RollMove
  <2>5. QED
    BY <1>1, <2>1, <2>2, <2>3, <2>4 DEF Creating
<1>2. ASSUME NEW a \in Actor, NEW j \in Job, Assigning(a, j) PROVE JobRowsTypeOK'
  <2>1. CASE TakeMove(a, j)
    BY <2>1 DEF TakeMove
  <2>2. CASE BusyMove(a, j)
    BY <2>2 DEF BusyMove, Idle, Doing
  <2>3. CASE RaiseMove(a, j)
    BY <2>3 DEF RaiseMove, Raises, Idle, Doing
  <2>4. CASE WaitMove(a, j)
    BY <2>4 DEF WaitMove, Idle, Doing
  <2>5. QED
    BY <1>2, <2>1, <2>2, <2>3, <2>4 DEF Assigning
<1>3. ASSUME NEW a \in Actor, NEW j \in Job, Starting(a, j) PROVE JobRowsTypeOK'
  <2>1. CASE EnqueueMove(a, j) \/ WriteMove(a, j)
    BY <2>1 DEF EnqueueMove, Appended, Idle, WriteMove, Doing
  <2>2. CASE RefreshMove(a, j)
    BY <2>2 DEF RefreshMove
  <2>3. CASE BeginMove(a, j)
    <3>1. /\ place' = place \/ place' = [place EXCEPT ![j] = 0]
          /\ state' = state \/ state' = [state EXCEPT ![j] = "RUNNING"]
          /\ known' = known \/ known' = known \cup {j}
          /\ UNCHANGED <<owner, bound, thread, tree>>
      BY <2>3 DEF BeginMove, Leaves
    <3>2. place' \in [Job -> Nat]
      BY <3>1
    <3>3. state' \in [Job -> JobState]
      BY <3>1
    <3>4. QED
      BY <3>1, <3>2, <3>3
  <2>4. QED
    BY <1>3, <2>1, <2>2, <2>3 DEF Starting
<1>4. ASSUME NEW a \in Actor, NEW j \in Job, Requesting(a, j) PROVE JobRowsTypeOK'
  <2>1. CASE CreateMove(a, j)
    BY <2>1 DEF CreateMove, Doing
  <2>2. CASE RetryMove(a, j)
    BY <2>2 DEF RetryMove, Retries, Waiting, Appended, Doing
  <2>3. QED
    BY <1>4, <2>1, <2>2 DEF Requesting
<1>5. ASSUME NEW a \in Actor, NEW o \in Owner, NEW s \in Session, SwitchMove(a, o, s)
      PROVE  JobRowsTypeOK'
  BY <1>5 DEF SwitchMove, Open, SessionFree
<1>6. ASSUME NEW a \in Actor, NEW s \in Session, ReopenMove(a, s)
      PROVE  JobRowsTypeOK'
  BY <1>6 DEF ReopenMove, Idle, Doing
<1>7. ASSUME NEW i \in Job, NEW j \in Job, SwapMove(i, j) PROVE JobRowsTypeOK'
  BY <1>7 DEF SwapMove, Replaces
<1>8. ASSUME NEW j \in Job, LookMove(j) PROVE JobRowsTypeOK'
  BY <1>8 DEF LookMove, Retries, Waiting, Doing
<1>9. ASSUME NEW j \in Job, Working(j) PROVE JobRowsTypeOK'
  <2>1. CASE LearnMove(j)
    BY <2>1 DEF LearnMove
  <2>2. CASE BindMove(j)
    BY <2>2 DEF BindMove, Open, SessionFree
  <2>3. CASE EndMove(j)
    BY <2>3 DEF EndMove
  <2>4. CASE UnlockMove(j)
    BY <2>4 DEF UnlockMove, Unlocks
  <2>5. CASE UnleaseMove(j)
    BY <2>5 DEF UnleaseMove
  <2>6. QED
    BY <1>9, <2>1, <2>2, <2>3, <2>4, <2>5 DEF Working
<1>10. CASE ListMove
  BY <1>10 DEF ListMove
<1>11. CASE Restarting
  BY <1>11 DEF Restarting, CrashMove, Idle, RefuseMove, StartMove, Repaired, Stuttering,
     Doing
<1>12. QED
  BY <1>1, <1>2, <1>3, <1>4, <1>5, <1>6, <1>7, <1>8, <1>9, <1>10, <1>11 DEF NextMove

\* Every step leaves the rows of sessions well formed.
LEMMA SessionsTyped ==
    ASSUME TypeOK, NextMove
    PROVE  session' \in Sessions
<1> session \in Sessions /\ thread \in [Job -> Thread] /\ owner \in [Job -> Owner]
  BY DEF TypeOK, RowsTypeOK, Sessions, SessionRow
<1>1. ASSUME NEW a \in Actor, NEW j \in Job, Creating(a, j)
      PROVE  session' \in Sessions
  <2>1. CASE OpenMove(a, j)
    <3>1. \E s \in Session, r \in SessionRow : session' = [session EXCEPT ![s] = r]
      BY <2>1 DEF OpenMove, SessionRow
    <3>2. QED
      BY <3>1, SessionTyped
  <2>2. CASE LockMove(a, j)
    <3>1. session' = session \/ \E s \in Session : session' = [session EXCEPT ![s].lock = j]
      BY <2>2 DEF LockMove, Locks, FindsBusy, Open, Doing
    <3>2. QED
      BY <3>1, SessionTyped
  <2>3. CASE AddMove(a, j) \/ RollMove(a, j)
    BY <2>3 DEF AddMove, Holds, Open, RollMove, Doing
  <2>4. CASE GiveMove(a, j)
    BY <2>4 DEF GiveMove, Unlocks, Sessions, SessionRow
  <2>5. QED
    BY <1>1, <2>1, <2>2, <2>3, <2>4 DEF Creating
<1>2. ASSUME NEW a \in Actor, NEW j \in Job, Assigning(a, j)
      PROVE  session' \in Sessions
  BY <1>2 DEF Assigning, TakeMove, BusyMove, Idle, RaiseMove, Raises, WaitMove, Doing
<1>3. ASSUME NEW a \in Actor, NEW j \in Job, Starting(a, j)
      PROVE  session' \in Sessions
  BY <1>3 DEF Starting, EnqueueMove, Appended, Idle, WriteMove, RefreshMove, BeginMove,
     Leaves, Replaces, Raises, Doing
<1>4. ASSUME NEW a \in Actor, NEW j \in Job, Requesting(a, j)
      PROVE  session' \in Sessions
  BY <1>4 DEF Requesting, CreateMove, RetryMove, Retries, Waiting, Appended, Doing
<1>5. ASSUME NEW a \in Actor, NEW o \in Owner, NEW s \in Session, SwitchMove(a, o, s)
      PROVE  session' \in Sessions
  BY <1>5 DEF SwitchMove, Sessions, SessionRow
<1>6. ASSUME NEW a \in Actor, NEW s \in Session, ReopenMove(a, s)
      PROVE  session' \in Sessions
  <2>1. [status |-> "open", owner |-> session[s].owner, thread |-> session[s].thread,
         lock |-> None] \in SessionRow
    BY DEF Sessions, SessionRow
  <2>2. QED
    BY <1>6, <2>1, SessionTyped DEF ReopenMove
<1>7. ASSUME NEW i \in Job, NEW j \in Job, SwapMove(i, j)
      PROVE  session' \in Sessions
  BY <1>7 DEF SwapMove, Replaces
<1>8. ASSUME NEW j \in Job, LookMove(j) PROVE session' \in Sessions
  BY <1>8 DEF LookMove, Retries, Waiting, Doing
<1>9. ASSUME NEW j \in Job, Working(j) PROVE session' \in Sessions
  <2>1. CASE LearnMove(j) \/ EndMove(j) \/ UnleaseMove(j)
    BY <2>1 DEF LearnMove, EndMove, UnleaseMove
  <2>2. CASE BindMove(j)
    <3>1. \A s \in Session :
             [status |-> "open", owner |-> owner[j], thread |-> thread[j],
              lock |-> j] \in SessionRow
      BY DEF SessionRow
    <3>2. \/ session' = session
          \/ \E s \in Session, r \in SessionRow : session' = [session EXCEPT ![s] = r]
      BY <2>2, <3>1 DEF BindMove, Open
    <3>3. QED
      BY <3>2, SessionTyped
  <2>3. CASE UnlockMove(j)
    BY <2>3 DEF UnlockMove, Unlocks, Sessions, SessionRow
  <2>4. QED
    BY <1>9, <2>1, <2>2, <2>3 DEF Working
<1>10. CASE ListMove
  BY <1>10 DEF ListMove
<1>11. CASE Restarting
  <2>1. CASE CrashMove \/ RefuseMove \/ Stuttering
    BY <2>1 DEF CrashMove, Idle, RefuseMove, Stuttering, Doing
  <2>2. CASE StartMove
    BY <2>2 DEF StartMove, Sessions, SessionRow
  <2>3. QED
    BY <1>11, <2>1, <2>2 DEF Restarting
<1>12. QED
  BY <1>1, <1>2, <1>3, <1>4, <1>5, <1>6, <1>7, <1>8, <1>9, <1>10, <1>11 DEF NextMove

\* Every step leaves the memory of the Controller well formed.
LEMMA RestTyped ==
    ASSUME TypeOK, NextMove
    PROVE  RestTypeOK'
<1> RestTypeOK
  BY DEF TypeOK, MemoryTypeOK, RestTypeOK
<1> <<>> \in Seq(Job)
  OBVIOUS
<1> USE DEF RestTypeOK
<1>1. ASSUME NEW a \in Actor, NEW j \in Job, Creating(a, j) PROVE RestTypeOK'
  BY <1>1 DEF Creating, OpenMove, Open, SessionFree, Keeps, LockMove, Locks, FindsBusy,
     AddMove, Holds, GiveMove, Unlocks, RollMove, Doing
<1>2. ASSUME NEW a \in Actor, NEW j \in Job, Assigning(a, j) PROVE RestTypeOK'
  BY <1>2 DEF Assigning, TakeMove, BusyMove, Idle, RaiseMove, Raises, WaitMove, Doing
<1>3. ASSUME NEW a \in Actor, NEW j \in Job, Starting(a, j) PROVE RestTypeOK'
  BY <1>3 DEF Starting, EnqueueMove, Appended, Idle, WriteMove, RefreshMove, BeginMove,
     Leaves, Replaces, Raises, Doing
<1>4. ASSUME NEW a \in Actor, NEW j \in Job, Requesting(a, j) PROVE RestTypeOK'
  BY <1>4 DEF Requesting, CreateMove, RetryMove, Retries, Waiting, Appended, Doing
<1>5. ASSUME NEW a \in Actor, NEW o \in Owner, NEW s \in Session, SwitchMove(a, o, s)
      PROVE  RestTypeOK'
  BY <1>5 DEF SwitchMove, Open, SessionFree
<1>6. ASSUME NEW a \in Actor, NEW s \in Session, ReopenMove(a, s) PROVE RestTypeOK'
  BY <1>6 DEF ReopenMove, Idle, Doing
<1>7. ASSUME NEW i \in Job, NEW j \in Job, SwapMove(i, j) PROVE RestTypeOK'
  BY <1>7 DEF SwapMove, Replaces
<1>8. ASSUME NEW j \in Job, LookMove(j) PROVE RestTypeOK'
  BY <1>8 DEF LookMove, Retries, Waiting, Doing
<1>9. ASSUME NEW j \in Job, Working(j) PROVE RestTypeOK'
  BY <1>9 DEF Working, LearnMove, BindMove, Open, SessionFree, EndMove, UnlockMove,
     Unlocks, UnleaseMove
<1>10. CASE ListMove
  BY <1>10 DEF ListMove
<1>11. CASE Restarting
  <2>1. CASE CrashMove
    BY <2>1 DEF CrashMove, Idle, Doing
  <2>2. CASE RefuseMove
    BY <2>2 DEF RefuseMove
  <2>3. CASE StartMove \/ Stuttering
    BY <2>3 DEF StartMove, Repaired, Stuttering
  <2>4. QED
    BY <1>11, <2>1, <2>2, <2>3 DEF Restarting
<1>12. QED
  BY <1>1, <1>2, <1>3, <1>4, <1>5, <1>6, <1>7, <1>8, <1>9, <1>10, <1>11 DEF NextMove

\* Every step leaves well formed what the actors are doing.
LEMMA ActTyped ==
    ASSUME TypeOK, NextMove
    PROVE  act' \in Activities
<1> act \in Activities /\ \A s \in Session : session[s].thread \in Thread
  BY DEF TypeOK, RowsTypeOK, MemoryTypeOK, Activities
<1> Idle \in Activity
  BY DEF Idle, Activity, Thread, Doing
<1>1. ASSUME NEW a \in Actor, NEW j \in Job, Creating(a, j)
      PROVE  act' \in Activities
  <2>1. CASE OpenMove(a, j)
    <3>1. \E p \in Phase : act' = [act EXCEPT ![a].at = p]
      BY <2>1 DEF OpenMove, Phase
    <3>2. QED
      BY <3>1, GoTyped
  <2>2. CASE LockMove(a, j)
    <3>0. act[a].from \in {"none", "QUEUED", "WAITING_LEASE", "WAITING_HOST"}
          /\ act[a].thread \in Thread /\ act[a].place \in Nat
      BY DEF Activities, Activity
    <3>1. \A s \in Open(owner[j]) : session[s].thread \in Thread
      BY DEF Open
    <3>2. \/ \E p \in Phase : act' = [act EXCEPT ![a].at = p]
          \/ \E p \in Phase, t \in Thread :
                act' = [act EXCEPT ![a] = Doing(p, j, act[a].from, t, act[a].place)]
      BY <2>2, <3>1 DEF LockMove, Locks, FindsBusy, Phase, Doing
    <3>3. \A p \in Phase, t \in Thread : Doing(p, j, act[a].from, t, act[a].place) \in Activity
      BY <3>0 DEF Doing, Activity, Phase
    <3>4. QED
      BY <3>2, <3>3, ChangeTyped, GoTyped
  <2>3. CASE AddMove(a, j)
    <3>0. act[a].from \in {"none", "QUEUED", "WAITING_LEASE", "WAITING_HOST"}
          /\ act[a].thread \in Thread /\ act[a].place \in Nat
      BY DEF Activities, Activity
    <3>1. \E p \in Phase :
             act' = [act EXCEPT ![a] = Doing(p, j, "QUEUED", act[a].thread, act[a].place)]
      BY <2>3 DEF AddMove, Phase, Doing
    <3>2. \A p \in Phase : Doing(p, j, "QUEUED", act[a].thread, act[a].place) \in Activity
      BY <3>0 DEF Doing, Activity, Phase
    <3>3. QED
      BY <3>1, <3>2, ChangeTyped
  <2>4. CASE GiveMove(a, j)
    <3>1. \E p \in Phase : act' = [act EXCEPT ![a].at = p]
      BY <2>4 DEF GiveMove, Phase
    <3>2. QED
      BY <3>1, GoTyped
  <2>5. CASE RollMove(a, j)
    <3>1. \E p \in Phase : act' = [act EXCEPT ![a].at = p]
      BY <2>5 DEF RollMove, Phase
    <3>2. QED
      BY <3>1, GoTyped
  <2>6. QED
    BY <1>1, <2>1, <2>2, <2>3, <2>4, <2>5 DEF Creating
<1>2. ASSUME NEW a \in Actor, NEW j \in Job, Assigning(a, j)
      PROVE  act' \in Activities
  <2>1. CASE TakeMove(a, j)
    <3>1. \E p \in Phase : act' = [act EXCEPT ![a].at = p]
      BY <2>1 DEF TakeMove, Phase
    <3>2. QED
      BY <3>1, GoTyped
  <2>2. CASE BusyMove(a, j)
    <3>1. act' = [act EXCEPT ![a] = Idle] \/
          \E p \in Phase : act' = [act EXCEPT ![a].at = p]
      BY <2>2 DEF BusyMove, Phase
    <3>2. QED
      BY <3>1, ChangeTyped, GoTyped
  <2>3. CASE RaiseMove(a, j)
    <3>1. act' = [act EXCEPT ![a] = Idle]
      BY <2>3 DEF RaiseMove, Raises
    <3>2. QED
      BY <3>1, ChangeTyped
  <2>4. CASE WaitMove(a, j)
    <3>0. act[a].from \in {"none", "QUEUED", "WAITING_LEASE", "WAITING_HOST"}
          /\ act[a].thread \in Thread /\ act[a].place \in Nat
      BY DEF Activities, Activity
    <3>1. place[j] \in Nat
      BY DEF TypeOK, RowsTypeOK
    <3>2. \/ act' = [act EXCEPT ![a] = Idle]
          \/ \E p \in Phase, n \in Nat :
                act' = [act EXCEPT ![a] = Doing(p, j, act[a].from, act[a].thread, n)]
      BY <2>4, <3>1 DEF WaitMove, Phase, Doing
    <3>3. \A p \in Phase, n \in Nat : Doing(p, j, act[a].from, act[a].thread, n) \in Activity
      BY <3>0 DEF Doing, Activity, Phase
    <3>4. QED
      BY <3>2, <3>3, ChangeTyped
  <2>5. QED
    BY <1>2, <2>1, <2>2, <2>3, <2>4 DEF Assigning
<1>3. ASSUME NEW a \in Actor, NEW j \in Job, Starting(a, j)
      PROVE  act' \in Activities
  <2>1. CASE EnqueueMove(a, j)
    <3>1. act' = [act EXCEPT ![a] = Idle]
      BY <2>1 DEF EnqueueMove
    <3>2. QED
      BY <3>1, ChangeTyped
  <2>2. CASE WriteMove(a, j)
    <3>1. act' = [act EXCEPT ![a] = Idle]
      BY <2>2 DEF WriteMove
    <3>2. QED
      BY <3>1, ChangeTyped
  <2>3. CASE RefreshMove(a, j)
    <3>1. \E p \in Phase : act' = [act EXCEPT ![a].at = p]
      BY <2>3 DEF RefreshMove, Phase
    <3>2. QED
      BY <3>1, GoTyped
  <2>4. CASE BeginMove(a, j)
    <3>1. act' = [act EXCEPT ![a] = Idle]
      BY <2>4 DEF BeginMove, Raises
    <3>2. QED
      BY <3>1, ChangeTyped
  <2>5. QED
    BY <1>3, <2>1, <2>2, <2>3, <2>4 DEF Starting
<1>4. ASSUME NEW a \in Actor, NEW j \in Job, Requesting(a, j)
      PROVE  act' \in Activities
  <2>1. CASE CreateMove(a, j)
    <3>1. \E r \in Activity : act' = [act EXCEPT ![a] = r]
      BY <2>1 DEF CreateMove, Activity, Thread, Doing
    <3>2. QED
      BY <3>1, ChangeTyped
  <2>2. CASE RetryMove(a, j)
    <3>1. \E r \in Activity : act' = [act EXCEPT ![a] = r]
      BY <2>2 DEF RetryMove, Retries, Waiting, Activity, Thread, Doing
    <3>2. QED
      BY <3>1, ChangeTyped
  <2>3. QED
    BY <1>4, <2>1, <2>2 DEF Requesting
<1>5. ASSUME NEW a \in Actor, NEW o \in Owner, NEW s \in Session, SwitchMove(a, o, s)
      PROVE  act' \in Activities
  <2>1. \E r \in Activity : act' = [act EXCEPT ![a] = r]
    BY <1>5 DEF SwitchMove, Activity, Thread
  <2>2. QED
    BY <2>1, ChangeTyped
<1>6. ASSUME NEW a \in Actor, NEW s \in Session, ReopenMove(a, s)
      PROVE  act' \in Activities
  <2>1. act' = [act EXCEPT ![a] = Idle]
    BY <1>6 DEF ReopenMove
  <2>2. QED
    BY <2>1, ChangeTyped
<1>7. ASSUME NEW i \in Job, NEW j \in Job, SwapMove(i, j) PROVE act' \in Activities
  BY <1>7 DEF SwapMove, Replaces
<1>8. ASSUME NEW j \in Job, LookMove(j) PROVE act' \in Activities
  <2>1. act' = act \/ \E r \in Activity : act' = [act EXCEPT ![Tick] = r]
    BY <1>8 DEF LookMove, Retries, Waiting, Activity, Thread, Doing
  <2>2. QED
    BY <2>1, ChangeTyped DEF Actor
<1>9. ASSUME NEW j \in Job, Working(j) PROVE act' \in Activities
  BY <1>9 DEF Working, LearnMove, BindMove, Open, SessionFree, EndMove, UnlockMove,
     Unlocks, UnleaseMove
<1>10. CASE ListMove
  BY <1>10 DEF ListMove
<1>11. CASE Restarting
  <2>1. act' = act \/ act' = [a \in Actor |-> Idle]
    BY <1>11 DEF Restarting, CrashMove, RefuseMove, StartMove, Stuttering
  <2>2. QED
    BY <2>1 DEF Activities
<1>12. QED
  BY <1>1, <1>2, <1>3, <1>4, <1>5, <1>6, <1>7, <1>8, <1>9, <1>10, <1>11 DEF NextMove

\* Every step leaves the history well formed.
LEMMA HistoryTyped ==
    ASSUME TypeOK, NextMove
    PROVE  disturbed' \in BOOLEAN /\ stale' \in Nat
<1> disturbed \in BOOLEAN /\ stale \in Nat /\ stale + 1 \in Nat
  BY DEF TypeOK, HistoryTypeOK
<1>1. ASSUME NEW a \in Actor, NEW j \in Job, Creating(a, j)
      PROVE  disturbed' \in BOOLEAN /\ stale' \in Nat
  BY <1>1 DEF Creating, OpenMove, Open, SessionFree, Keeps, LockMove, Locks, FindsBusy,
     AddMove, Holds, GiveMove, Unlocks, RollMove, Doing
<1>2. ASSUME NEW a \in Actor, NEW j \in Job, Assigning(a, j)
      PROVE  disturbed' \in BOOLEAN /\ stale' \in Nat
  BY <1>2 DEF Assigning, TakeMove, BusyMove, Idle, RaiseMove, Raises, WaitMove, Doing
<1>3. ASSUME NEW a \in Actor, NEW j \in Job, Starting(a, j)
      PROVE  disturbed' \in BOOLEAN /\ stale' \in Nat
  BY <1>3 DEF Starting, EnqueueMove, Appended, Idle, WriteMove, RefreshMove, BeginMove,
     Leaves, Replaces, Raises, Doing
<1>4. ASSUME NEW a \in Actor, NEW j \in Job, Requesting(a, j)
      PROVE  disturbed' \in BOOLEAN /\ stale' \in Nat
  BY <1>4 DEF Requesting, CreateMove, RetryMove, Retries, Waiting, Appended, Doing
<1>5. ASSUME NEW a \in Actor, NEW o \in Owner, NEW s \in Session, SwitchMove(a, o, s)
      PROVE  disturbed' \in BOOLEAN /\ stale' \in Nat
  BY <1>5 DEF SwitchMove, Open, SessionFree
<1>6. ASSUME NEW a \in Actor, NEW s \in Session, ReopenMove(a, s)
      PROVE  disturbed' \in BOOLEAN /\ stale' \in Nat
  BY <1>6 DEF ReopenMove, Idle, Doing
<1>7. ASSUME NEW i \in Job, NEW j \in Job, SwapMove(i, j)
      PROVE  disturbed' \in BOOLEAN /\ stale' \in Nat
  BY <1>7 DEF SwapMove, Replaces
<1>8. ASSUME NEW j \in Job, LookMove(j)
      PROVE  disturbed' \in BOOLEAN /\ stale' \in Nat
  BY <1>8 DEF LookMove, Retries, Waiting, Doing
<1>9. ASSUME NEW j \in Job, Working(j)
      PROVE  disturbed' \in BOOLEAN /\ stale' \in Nat
  BY <1>9 DEF Working, LearnMove, BindMove, Open, SessionFree, EndMove, UnlockMove,
     Unlocks, UnleaseMove
<1>10. CASE ListMove
  BY <1>10 DEF ListMove
<1>11. CASE Restarting
  BY <1>11 DEF Restarting, CrashMove, Idle, RefuseMove, StartMove, Repaired, Stuttering,
     Doing
<1>12. QED
  BY <1>1, <1>2, <1>3, <1>4, <1>5, <1>6, <1>7, <1>8, <1>9, <1>10, <1>11 DEF NextMove

-----------------------------------------------------------------------------
(* Sessions, and the Jobs that have them.                                  *)

\* The sessions of a Job: those that it has locked stay as they are, no other becomes its.
Kept(i) ==
    /\ \A s \in Open(owner[i]) : session[s].lock = i => session'[s] = session[s]
    /\ \A s \in Session :
          session'[s].status = "open" /\ session'[s].owner = owner[i] /\ session'[s].lock = i
          => /\ s \in Open(owner[i]) /\ session[s].lock = i
             /\ session'[s].thread = session[s].thread

\* What one Job, or a user, does to the sessions leaves those of the other Jobs alone.
LEMMA SessionsKept ==
    ASSUME TypeOK, SingleInv, KeepInv, NEW a \in Actor, NEW j \in Job, NEW i \in Job
    PROVE  /\ OpenMove(a, j) => Kept(i)
           /\ (LockMove(a, j) \/ GiveMove(a, j) \/ BindMove(j) \/ UnlockMove(j)) /\ i # j
                 => Kept(i)
           /\ \A o \in Owner, s \in Session : SwitchMove(a, o, s) => Kept(i)
           /\ \A s \in Session : ReopenMove(a, s) => Kept(i)
<1> i # None /\ j # None /\ session \in [Session -> SessionRow]
  BY NoneIsNoJob DEF TypeOK, RowsTypeOK, SessionRow
<1>1. ASSUME OpenMove(a, j) PROVE Kept(i)
  BY <1>1 DEF OpenMove, Kept, Open, SessionRow
<1>2. ASSUME LockMove(a, j), i # j PROVE Kept(i)
  BY <1>2 DEF LockMove, Locks, FindsBusy, Kept, Open, SessionRow
<1>3. ASSUME GiveMove(a, j) \/ UnlockMove(j), i # j PROVE Kept(i)
  <2>1. Unlocks(j)
    BY <1>3 DEF GiveMove, UnlockMove
  <2>2. \A s \in Session : session[s].lock = i => session'[s] = session[s]
    BY <1>3, <2>1 DEF Unlocks, SessionRow
  <2>3. \A s \in Session : session'[s].lock = i => session[s].lock = i
    BY <2>1 DEF Unlocks
  <2>4. QED
    BY <2>1, <2>2, <2>3 DEF Kept, Unlocks, Open
<1>4. ASSUME BindMove(j), i # j PROVE Kept(i)
  BY <1>4 DEF BindMove, Kept, Open, SessionRow
<1>5. ASSUME NEW o \in Owner, NEW s \in Session, SwitchMove(a, o, s) PROVE Kept(i)
  <2>1. /\ session' \in [Session -> SessionRow]
        /\ \A t \in Session :
              /\ session'[t].thread = session[t].thread /\ session'[t].lock = session[t].lock
              /\ session'[t].owner = IF t = s THEN o ELSE session[t].owner
              /\ session'[t].status =
                    IF t \in Open(o) /\ t # s THEN "closed" ELSE session[t].status
    BY <1>5 DEF SwitchMove, SessionRow
  <2>2. /\ session[s].status = "none" \/ session[s].owner = o
        /\ \A t \in Open(o) : session[t].lock = None
    BY <1>5 DEF SwitchMove
  <2>3. ASSUME NEW t \in Open(owner[i]), session[t].lock = i PROVE session'[t] = session[t]
    <3>1. t \notin Open(o) /\ (t = s => session[s].owner = o)
      BY <2>2, <2>3 DEF Open
    <3>2. /\ session'[t].status = session[t].status /\ session'[t].owner = session[t].owner
          /\ session'[t].thread = session[t].thread /\ session'[t].lock = session[t].lock
      BY <2>1, <3>1 DEF Open
    <3>3. QED
      BY <2>1, <3>2 DEF Open, SessionRow
  <2>4. QED
    BY <2>1, <2>2, <2>3 DEF Kept, Open
<1>6. ASSUME NEW s \in Session, ReopenMove(a, s) PROVE Kept(i)
  <2>1. \A t \in Open(session[s].owner) : t = s /\ session[t].lock = None
    BY <1>6 DEF ReopenMove, KeepInv, KeepOK, SessionOwner
  <2>2. /\ \A t \in Session : t # s => session'[t] = session[t]
        /\ session'[s].lock = None
    BY <1>6 DEF ReopenMove, SessionRow
  <2>3. QED
    BY <2>1, <2>2 DEF Kept, Open
<1>7. QED
  BY <1>1, <1>2, <1>3, <1>4, <1>5, <1>6

\* A Job keeps the session that it has ...
LEMMA HasKept ==
    ASSUME NEW i \in Job, NEW t, Has(i, t), Kept(i), UNCHANGED owner
    PROVE  Has(i, t)'
BY DEF Has, Kept, Open

\* ... and so does the actor that drives it.
LEMMA ThreadKept ==
    ASSUME NEW b \in Actor, ThreadOK(b), act[b].job \in Job, act'[b] = act[b], UNCHANGED owner,
           Kept(act[b].job), thread'[act[b].job] = thread[act[b].job],
           Live(act[b].job)' => Live(act[b].job)
    PROVE  ThreadOK(b)'
<1> DEFINE i == act[b].job
<1>1. act[b].at = "row" => \A s \in Open(owner[i])' :
         session'[s].lock = i => session'[s].thread = thread'[i]
  BY DEF ThreadOK, Kept, Open
<1>2. \A t : Has(i, t) => Has(i, t)'
  BY HasKept
<1>3. QED
  BY <1>1, <1>2 DEF ThreadOK

\* An actor finds its Job in the state that its phase allows.
LEMMA ActStep ==
    ASSUME TypeOK, ActInv, AloneInv, DownInv, NextMove
    PROVE  ActInv'
<1> SUFFICES ASSUME NEW b \in Actor PROVE ActOK(b)'
  BY DEF ActInv
<1> act \in [Actor -> Activity] /\ state \in [Job -> JobState]
  BY DEF TypeOK, RowsTypeOK, MemoryTypeOK
<1>a. ActOK(b) /\ \A a \in Actor : ActOK(a)
  BY DEF ActInv
<1> USE DEF ActOK, Drives, DrivenState, Live, Waiting
<1>1. ASSUME NEW a \in Actor, NEW j \in Job, Creating(a, j) PROVE ActOK(b)'
  <2>1. CASE OpenMove(a, j)
    BY <2>1 DEF OpenMove, Open, SessionFree, Keeps, TypeOK, RowsTypeOK, MemoryTypeOK,
       Activity, ActInv, AloneInv, DownInv
  <2>2. CASE LockMove(a, j)
    <3>1. CASE b = a
      <4>1. /\ UNCHANGED state /\ act'[a].job = act[a].job /\ act'[a].from = act[a].from
            /\ act[a].at \in {"lock", "session"}
            /\ \/ act[a].from = "none" /\ act'[a].at = "row"
               \/ act[a].from # "none" /\ act'[a].at \in {"refresh", "rollback"}
        BY <2>2, <3>1 DEF LockMove, Locks, FindsBusy, Activity, Doing
      <4>2. QED
        BY <1>a, <3>1, <4>1 DEF Activity
    <3>2. CASE b # a
      <4>1. act'[b] = act[b] /\ UNCHANGED state
        BY <2>2, <3>2 DEF LockMove, Locks, FindsBusy, Activity, Doing
      <4>2. QED
        BY <1>a, <3>2, <4>1
    <3>3. QED
      BY <3>1, <3>2
  <2>3. CASE AddMove(a, j)
    <3>0. state[j] # "ended"
      BY <2>3, <1>a DEF AddMove, Doing
    <3>1. CASE b = a
      <4>1. /\ act'[a].at \in {"assign", "wait"} /\ act'[a].from = "QUEUED"
            /\ act'[a].job = j /\ state'[j] = "QUEUED"
        BY <2>3, <3>1 DEF AddMove, Doing
      <4>2. QED
        BY <1>a, <3>1, <4>1
    <3>2. CASE b # a
      <4>1. /\ act'[b] = act[b] /\ \A i \in Job : i # j => state'[i] = state[i]
            /\ act[a].job = j /\ act[a].at = "row"
        BY <2>3, <3>2 DEF AddMove, Doing
      <4>2. QED
        BY <1>a, <3>2, <3>0, <4>1 DEF AloneInv
    <3>3. QED
      BY <3>1, <3>2
  <2>4. CASE GiveMove(a, j)
    BY <2>4 DEF GiveMove, Unlocks, TypeOK, RowsTypeOK, MemoryTypeOK, Activity, ActInv,
       AloneInv, DownInv
  <2>5. CASE RollMove(a, j)
    BY <2>5 DEF RollMove, TypeOK, RowsTypeOK, MemoryTypeOK, Activity, ActInv, AloneInv,
       DownInv
  <2>6. QED
    BY <1>1, <2>1, <2>2, <2>3, <2>4, <2>5 DEF Creating
<1>2. ASSUME NEW a \in Actor, NEW j \in Job, Assigning(a, j) PROVE ActOK(b)'
  <2>1. CASE TakeMove(a, j)
    <3>1. CASE b = a
      <4>1. /\ act[a].at = "assign" /\ act'[a].job = j /\ act'[a].from = act[a].from
            /\ state'[j] = "ASSIGNED" /\ act[a].from # "none" /\ act[a].job = j
            /\ \/ act[a].from = "QUEUED" /\ act'[a].at = "begin"
               \/ act[a].from # "QUEUED" /\ act'[a].at = "session"
        BY <2>1, <3>1 DEF TakeMove, ActInv, Activity
      <4>2. QED
        BY <1>a, <3>1, <4>1
    <3>2. CASE b # a
      <4>1. /\ act'[b] = act[b] /\ \A i \in Job : i # j => state'[i] = state[i]
            /\ state[j] = act[a].from /\ act[a].job = j /\ act[a].at = "assign"
        BY <2>1, <3>2 DEF TakeMove, ActInv, Activity
      <4>2. QED
        BY <1>a, <3>2, <4>1 DEF Activity, AloneInv
    <3>3. QED
      BY <3>1, <3>2
  <2>2. CASE BusyMove(a, j)
    <3>1. CASE b = a
      <4>1. \/ act'[a].at = "idle"
            \/ /\ act'[a].at = "giveback" /\ act[a].at = "assign" /\ act[a].from = "QUEUED"
               /\ act'[a].from = "QUEUED" /\ act'[a].job = act[a].job /\ UNCHANGED state
        BY <2>2, <3>1 DEF BusyMove, Idle, Activity, Doing
      <4>2. QED
        BY <1>a, <3>1, <4>1
    <3>2. CASE b # a
      <4>1. act'[b] = act[b] /\ UNCHANGED state
        BY <2>2, <3>2 DEF BusyMove, Idle, Activity, Doing
      <4>2. QED
        BY <1>a, <3>2, <4>1
    <3>3. QED
      BY <3>1, <3>2
  <2>3. CASE RaiseMove(a, j)
    BY <2>3 DEF RaiseMove, Raises, Idle, TypeOK, RowsTypeOK, MemoryTypeOK, Activity,
       ActInv, AloneInv, DownInv, Doing
  <2>4. CASE WaitMove(a, j)
    <3>1. CASE b = a
      <4>1. /\ act[a].at = "wait" /\ act'[a].at \in {"idle", "enqueue", "write"}
            /\ act'[a].at = "idle" \/ act'[a].job = act[a].job
        BY <2>4, <3>1 DEF WaitMove, Idle, Activity, Doing
      <4>2. QED
        BY <1>a, <3>1, <4>1
    <3>2. CASE b # a
      <4>1. /\ act'[b] = act[b] /\ \A i \in Job : i # j => state'[i] = state[i]
            /\ state[j] # "ended" /\ act[a].job = j /\ act[a].at = "wait"
        BY <2>4, <3>2 DEF WaitMove, Idle, Activity, Doing
      <4>2. QED
        BY <1>a, <3>2, <4>1 DEF AloneInv
    <3>3. QED
      BY <3>1, <3>2
  <2>5. QED
    BY <1>2, <2>1, <2>2, <2>3, <2>4 DEF Assigning
<1>3. ASSUME NEW a \in Actor, NEW j \in Job, Starting(a, j) PROVE ActOK(b)'
  <2>1. CASE EnqueueMove(a, j)
    BY <2>1 DEF EnqueueMove, Appended, Idle, TypeOK, RowsTypeOK, MemoryTypeOK, Activity,
       ActInv, AloneInv, DownInv, Doing
  <2>2. CASE WriteMove(a, j)
    BY <2>2 DEF WriteMove, Idle, TypeOK, RowsTypeOK, MemoryTypeOK, Activity, ActInv,
       AloneInv, DownInv, Doing
  <2>3. CASE RefreshMove(a, j)
    <3>1. CASE b = a
      <4>1. /\ act'[a].at = "begin" /\ act[a].at = "refresh" /\ act'[a].from = act[a].from
            /\ act'[a].job = act[a].job /\ UNCHANGED state
        BY <2>3, <3>1 DEF RefreshMove, Activity
      <4>2. QED
        BY <1>a, <3>1, <4>1
    <3>2. CASE b # a
      <4>1. act'[b] = act[b] /\ UNCHANGED state
        BY <2>3, <3>2 DEF RefreshMove, Activity
      <4>2. QED
        BY <1>a, <3>2, <4>1
    <3>3. QED
      BY <3>1, <3>2
  <2>4. CASE BeginMove(a, j)
    <3>1. CASE b = a
      <4>1. act'[a].at = "idle"
        BY <2>4, <3>1 DEF BeginMove, Raises, Idle, Doing
      <4>2. QED
        BY <1>a, <3>1, <4>1
    <3>2. CASE b # a
      <4>1. /\ act'[b] = act[b] /\ \A i \in Job : i # j => state'[i] = state[i]
            /\ state'[j] = state[j] \/ state[j] # "ended"
            /\ act[a].job = j /\ act[a].at = "begin"
        BY <2>4, <3>2 DEF BeginMove, Raises, Idle, Doing
      <4>2. QED
        BY <1>a, <3>2, <4>1 DEF AloneInv
    <3>3. QED
      BY <3>1, <3>2
  <2>5. QED
    BY <1>3, <2>1, <2>2, <2>3, <2>4 DEF Starting
<1>4. ASSUME NEW a \in Actor, NEW j \in Job, Requesting(a, j) PROVE ActOK(b)'
  <2>1. CASE CreateMove(a, j)
    BY <2>1 DEF CreateMove, TypeOK, RowsTypeOK, MemoryTypeOK, Activity, ActInv,
       AloneInv, DownInv, Doing
  <2>2. CASE RetryMove(a, j)
    BY <2>2 DEF RetryMove, Retries, Appended, TypeOK, RowsTypeOK, MemoryTypeOK,
       Activity, ActInv, AloneInv, DownInv, Doing
  <2>3. QED
    BY <1>4, <2>1, <2>2 DEF Requesting
<1>5. ASSUME NEW a \in Actor, NEW o \in Owner, NEW s \in Session, SwitchMove(a, o, s)
      PROVE  ActOK(b)'
  BY <1>5 DEF SwitchMove, Open, SessionFree, TypeOK, RowsTypeOK, MemoryTypeOK, Activity,
     ActInv, AloneInv, DownInv
<1>6. ASSUME NEW a \in Actor, NEW s \in Session, ReopenMove(a, s) PROVE ActOK(b)'
  BY <1>6 DEF ReopenMove, Idle, TypeOK, RowsTypeOK, MemoryTypeOK, Activity, ActInv,
     AloneInv, DownInv, Doing
<1>7. ASSUME NEW i \in Job, NEW j \in Job, SwapMove(i, j) PROVE ActOK(b)'
  BY <1>7 DEF SwapMove, Replaces, TypeOK, RowsTypeOK, MemoryTypeOK, Activity, ActInv,
     AloneInv, DownInv
<1>8. ASSUME NEW j \in Job, LookMove(j) PROVE ActOK(b)'
  BY <1>8 DEF LookMove, Retries, TypeOK, RowsTypeOK, MemoryTypeOK, Activity, ActInv,
     AloneInv, DownInv, Doing
<1>9. ASSUME NEW j \in Job, Working(j) PROVE ActOK(b)'
  BY <1>9 DEF Working, LearnMove, BindMove, Open, SessionFree, EndMove, UnlockMove,
     Unlocks, UnleaseMove, TypeOK, RowsTypeOK, MemoryTypeOK, Activity, ActInv, AloneInv,
     DownInv
<1>10. CASE ListMove
  BY <1>10 DEF ListMove, TypeOK, RowsTypeOK, MemoryTypeOK, Activity, ActInv, AloneInv,
     DownInv
<1>11. CASE Restarting
  BY <1>11 DEF Restarting, CrashMove, Idle, RefuseMove, StartMove, Repaired, Stuttering,
     TypeOK, RowsTypeOK, MemoryTypeOK, Activity, ActInv, AloneInv, DownInv, Doing
<1>12. QED
  BY <1>1, <1>2, <1>3, <1>4, <1>5, <1>6, <1>7, <1>8, <1>9, <1>10, <1>11 DEF NextMove

\* Nothing runs while the Controller does not.
LEMMA DownStep ==
    ASSUME TypeOK, DownInv, NextMove
    PROVE  DownInv'
<1> USE DEF TypeOK, RowsTypeOK, MemoryTypeOK, Activity, DownInv, Idle
<1>1. ASSUME NEW a \in Actor, NEW j \in Job, Creating(a, j) PROVE DownInv'
  BY <1>1 DEF Creating, OpenMove, Open, SessionFree, Keeps, LockMove, Locks, FindsBusy,
     AddMove, Holds, GiveMove, Unlocks, RollMove, Doing
<1>2. ASSUME NEW a \in Actor, NEW j \in Job, Assigning(a, j) PROVE DownInv'
  BY <1>2 DEF Assigning, TakeMove, BusyMove, RaiseMove, Raises, WaitMove, Doing
<1>3. ASSUME NEW a \in Actor, NEW j \in Job, Starting(a, j) PROVE DownInv'
  BY <1>3 DEF Starting, EnqueueMove, Appended, WriteMove, RefreshMove, BeginMove,
     Leaves, Replaces, Raises
<1>4. ASSUME NEW a \in Actor, NEW j \in Job, Requesting(a, j) PROVE DownInv'
  BY <1>4 DEF Requesting, CreateMove, RetryMove, Retries, Waiting, Appended, Doing
<1>5. ASSUME NEW a \in Actor, NEW o \in Owner, NEW s \in Session, SwitchMove(a, o, s)
      PROVE  DownInv'
  BY <1>5 DEF SwitchMove, Open, SessionFree
<1>6. ASSUME NEW a \in Actor, NEW s \in Session, ReopenMove(a, s) PROVE DownInv'
  BY <1>6 DEF ReopenMove
<1>7. ASSUME NEW i \in Job, NEW j \in Job, SwapMove(i, j) PROVE DownInv'
  BY <1>7 DEF SwapMove, Replaces
<1>8. ASSUME NEW j \in Job, LookMove(j) PROVE DownInv'
  BY <1>8 DEF LookMove, Retries, Waiting, Doing
<1>9. ASSUME NEW j \in Job, Working(j) PROVE DownInv'
  BY <1>9 DEF Working, LearnMove, BindMove, Open, SessionFree, EndMove, UnlockMove,
     Unlocks, UnleaseMove
<1>10. CASE ListMove
  BY <1>10 DEF ListMove
<1>11. CASE Restarting
  BY <1>11 DEF Restarting, CrashMove, RefuseMove, StartMove, Repaired, Stuttering
<1>12. QED
  BY <1>1, <1>2, <1>3, <1>4, <1>5, <1>6, <1>7, <1>8, <1>9, <1>10, <1>11 DEF NextMove

\* No two actors drive one Job.
LEMMA AloneStep ==
    ASSUME TypeOK, ActInv, AloneInv, DownInv, NextMove
    PROVE  AloneInv'
<1> SUFFICES ASSUME NEW b \in Actor, NEW c \in Actor, b # c, Drives(b)', Drives(c)',
                    act'[b].job = act'[c].job, Live(act[b].job)'
             PROVE  FALSE
  BY DEF AloneInv
<1> act \in [Actor -> Activity] /\ state \in [Job -> JobState]
  BY DEF TypeOK, RowsTypeOK, MemoryTypeOK
<1>a. \A a \in Actor : ActOK(a)
  BY DEF ActInv
<1>b. Drives(b) => act[b].job \in Job
  BY <1>a DEF ActOK, Drives
<1> USE DEF Drives, Live
<1>1. ASSUME NEW a \in Actor, NEW j \in Job, Creating(a, j) PROVE FALSE
  <2>1. CASE OpenMove(a, j)
    BY <2>1 DEF OpenMove, Open, SessionFree, Keeps, TypeOK, RowsTypeOK, MemoryTypeOK,
       Activity, ActInv, ActOK, DrivenState, AloneInv, DownInv, Waiting
  <2>2. CASE LockMove(a, j)
    <3>1. \A x \in Actor : Drives(x)' => Drives(x) /\ act'[x].job = act[x].job
      BY <2>2 DEF LockMove, Locks, FindsBusy, Activity, Doing
    <3>2. \A i \in Job : Live(i)' => Live(i)
      BY <2>2 DEF LockMove, Locks, FindsBusy, Doing
    <3>3. QED
      BY <1>b, <3>1, <3>2 DEF AloneInv
  <2>3. CASE AddMove(a, j)
    <3>1. \A x \in Actor : Drives(x)' => Drives(x) /\ act'[x].job = act[x].job
      BY <2>3 DEF AddMove, Activity, Doing
    <3>2. \A i \in Job : Live(i)' => Live(i)
      BY <2>3, <1>a DEF AddMove, ActOK, DrivenState, Doing
    <3>3. QED
      BY <1>b, <3>1, <3>2 DEF AloneInv
  <2>4. CASE GiveMove(a, j)
    BY <2>4 DEF GiveMove, Unlocks, TypeOK, RowsTypeOK, MemoryTypeOK, Activity, ActInv,
       ActOK, DrivenState, AloneInv, DownInv, Waiting
  <2>5. CASE RollMove(a, j)
    BY <2>5 DEF RollMove, TypeOK, RowsTypeOK, MemoryTypeOK, Activity, ActInv, ActOK,
       DrivenState, AloneInv, DownInv, Waiting
  <2>6. QED
    BY <1>1, <2>1, <2>2, <2>3, <2>4, <2>5 DEF Creating
<1>2. ASSUME NEW a \in Actor, NEW j \in Job, Assigning(a, j) PROVE FALSE
  <2>1. CASE TakeMove(a, j)
    <3>1. /\ \A x \in Actor : x # a => act'[x] = act[x]
          /\ act'[a].job = j /\ act[a].at = "assign" /\ act[a].job = j /\ state[j] = act[a].from
          /\ state[j] # "ended" /\ (act[a].from # "QUEUED" => act'[a].at = "session")
          /\ act[a].from \in {"QUEUED", "WAITING_LEASE", "WAITING_HOST"}
      BY <2>1, <1>a DEF TakeMove, Activity, ActOK
    <3>2. CASE act[a].from = "QUEUED"
      <4>1. \A x \in Actor : Drives(x)' => Drives(x) /\ act'[x].job = act[x].job
        BY <3>1, <3>2
      <4>2. \A i \in Job : Live(i)' => Live(i)
        BY <2>1, <3>1 DEF TakeMove
      <4>3. QED
        BY <1>b, <4>1, <4>2 DEF AloneInv
    <3>3. CASE act[a].from # "QUEUED"
      <4>1. \A x \in Actor : ~(Drives(x) /\ act[x].job = j)
        BY <1>a, <3>1, <3>3 DEF ActOK, DrivenState
      <4>2. QED
        BY <2>1, <1>b, <3>1, <3>3, <4>1 DEF AloneInv, TakeMove
    <3>4. QED
      BY <3>2, <3>3
  <2>2. CASE BusyMove(a, j)
    <3>1. \A x \in Actor : Drives(x)' => Drives(x) /\ act'[x].job = act[x].job
      BY <2>2 DEF BusyMove, Idle, Activity, Doing
    <3>2. \A i \in Job : Live(i)' => Live(i)
      BY <2>2 DEF BusyMove, Idle, Doing
    <3>3. QED
      BY <1>b, <3>1, <3>2 DEF AloneInv
  <2>3. CASE RaiseMove(a, j)
    BY <2>3 DEF RaiseMove, Raises, Idle, TypeOK, RowsTypeOK, MemoryTypeOK, Activity,
       ActInv, ActOK, DrivenState, AloneInv, DownInv, Waiting, Doing
  <2>4. CASE WaitMove(a, j)
    <3>1. \A x \in Actor : Drives(x)' => Drives(x) /\ act'[x].job = act[x].job
      BY <2>4 DEF WaitMove, Idle, Activity, Doing
    <3>2. \A i \in Job : Live(i)' => Live(i)
      BY <2>4 DEF WaitMove, Idle, Doing
    <3>3. QED
      BY <1>b, <3>1, <3>2 DEF AloneInv
  <2>5. QED
    BY <1>2, <2>1, <2>2, <2>3, <2>4 DEF Assigning
<1>3. ASSUME NEW a \in Actor, NEW j \in Job, Starting(a, j) PROVE FALSE
  <2>1. CASE EnqueueMove(a, j)
    BY <2>1 DEF EnqueueMove, Appended, Idle, TypeOK, RowsTypeOK, MemoryTypeOK, Activity,
       ActInv, ActOK, DrivenState, AloneInv, DownInv, Waiting, Doing
  <2>2. CASE WriteMove(a, j)
    BY <2>2 DEF WriteMove, Idle, TypeOK, RowsTypeOK, MemoryTypeOK, Activity, ActInv,
       ActOK, DrivenState, AloneInv, DownInv, Waiting, Doing
  <2>3. CASE RefreshMove(a, j)
    BY <2>3 DEF RefreshMove, TypeOK, RowsTypeOK, MemoryTypeOK, Activity, ActInv, ActOK,
       DrivenState, AloneInv, DownInv, Waiting
  <2>4. CASE BeginMove(a, j)
    <3>1. act' = [act EXCEPT ![a] = Idle]
      BY <2>4 DEF BeginMove, Raises
    <3>2. \A x \in Actor : Drives(x)' => Drives(x) /\ act'[x].job = act[x].job
      BY <3>1 DEF Idle, Activity, Doing
    <3>3. \A i \in Job : Live(i)' => Live(i)
      BY <2>4 DEF BeginMove
    <3>4. QED
      BY <1>b, <3>2, <3>3 DEF AloneInv
  <2>5. QED
    BY <1>3, <2>1, <2>2, <2>3, <2>4 DEF Starting
<1>4. ASSUME NEW a \in Actor, NEW j \in Job, Requesting(a, j) PROVE FALSE
  <2>1. CASE CreateMove(a, j)
    BY <2>1 DEF CreateMove, TypeOK, RowsTypeOK, MemoryTypeOK, Activity, ActInv, ActOK,
       DrivenState, AloneInv, DownInv, Waiting, Doing
  <2>2. CASE RetryMove(a, j)
    BY <2>2 DEF RetryMove, Retries, Waiting, Appended, TypeOK, RowsTypeOK, MemoryTypeOK,
       Activity, ActInv, ActOK, DrivenState, AloneInv, DownInv, Doing
  <2>3. QED
    BY <1>4, <2>1, <2>2 DEF Requesting
<1>5. ASSUME NEW a \in Actor, NEW o \in Owner, NEW s \in Session, SwitchMove(a, o, s)
      PROVE  FALSE
  BY <1>5 DEF SwitchMove, Open, SessionFree, TypeOK, RowsTypeOK, MemoryTypeOK, Activity,
     ActInv, ActOK, DrivenState, AloneInv, DownInv, Waiting
<1>6. ASSUME NEW a \in Actor, NEW s \in Session, ReopenMove(a, s) PROVE FALSE
  BY <1>6 DEF ReopenMove, Idle, TypeOK, RowsTypeOK, MemoryTypeOK, Activity, ActInv,
     ActOK, DrivenState, AloneInv, DownInv, Waiting, Doing
<1>7. ASSUME NEW i \in Job, NEW j \in Job, SwapMove(i, j) PROVE FALSE
  BY <1>7 DEF SwapMove, Replaces, TypeOK, RowsTypeOK, MemoryTypeOK, Activity, ActInv,
     ActOK, DrivenState, AloneInv, DownInv, Waiting
<1>8. ASSUME NEW j \in Job, LookMove(j) PROVE FALSE
  <2>1. \A x \in Actor : \/ act'[x] = act[x]
                         \/ act'[x].at = "assign" /\ act'[x].from # "QUEUED"
    BY <1>8 DEF LookMove, Retries, Waiting, Doing
  <2>2. \A x \in Actor : Drives(x)' => Drives(x) /\ act'[x].job = act[x].job
    BY <2>1
  <2>3. \A i \in Job : Live(i)' => Live(i)
    BY <1>8 DEF LookMove, Retries, Waiting, Doing
  <2>4. QED
    BY <1>b, <2>2, <2>3 DEF AloneInv
<1>9. ASSUME NEW j \in Job, Working(j) PROVE FALSE
  <2>1. CASE LearnMove(j)
    BY <2>1 DEF LearnMove, TypeOK, RowsTypeOK, MemoryTypeOK, Activity, ActInv, ActOK,
       DrivenState, AloneInv, DownInv, Waiting
  <2>2. CASE BindMove(j)
    BY <2>2 DEF BindMove, Open, SessionFree, TypeOK, RowsTypeOK, MemoryTypeOK, Activity,
       ActInv, ActOK, DrivenState, AloneInv, DownInv, Waiting
  <2>3. CASE EndMove(j)
    BY <2>3 DEF EndMove, TypeOK, RowsTypeOK, MemoryTypeOK, Activity, ActInv, ActOK,
       DrivenState, AloneInv, DownInv, Waiting
  <2>4. CASE UnlockMove(j)
    BY <2>4 DEF UnlockMove, Unlocks, TypeOK, RowsTypeOK, MemoryTypeOK, Activity, ActInv,
       ActOK, DrivenState, AloneInv, DownInv, Waiting
  <2>5. CASE UnleaseMove(j)
    BY <2>5 DEF UnleaseMove, TypeOK, RowsTypeOK, MemoryTypeOK, Activity, ActInv, ActOK,
       DrivenState, AloneInv, DownInv, Waiting
  <2>6. QED
    BY <1>9, <2>1, <2>2, <2>3, <2>4, <2>5 DEF Working
<1>10. CASE ListMove
  BY <1>10 DEF ListMove, TypeOK, RowsTypeOK, MemoryTypeOK, Activity, ActInv, ActOK,
     DrivenState, AloneInv, DownInv, Waiting
<1>11. CASE Restarting
  <2>1. CASE CrashMove \/ RefuseMove
    BY <2>1 DEF CrashMove, Idle, RefuseMove, TypeOK, RowsTypeOK, MemoryTypeOK, Activity,
       ActInv, ActOK, DrivenState, AloneInv, DownInv, Waiting, Doing
  <2>2. CASE StartMove
    <3>1. \A x \in Actor : ~Drives(x)'
      BY <2>2 DEF StartMove, DownInv, Idle, Doing
    <3>2. QED
      BY <3>1
  <2>3. CASE Stuttering
    BY <2>3 DEF Stuttering, TypeOK, RowsTypeOK, MemoryTypeOK, Activity, ActInv, ActOK,
       DrivenState, AloneInv, DownInv, Waiting
  <2>4. QED
    BY <1>11, <2>1, <2>2, <2>3 DEF Restarting
<1>12. QED
  BY <1>1, <1>2, <1>3, <1>4, <1>5, <1>6, <1>7, <1>8, <1>9, <1>10, <1>11 DEF NextMove

\* Only a Job at work has a task, and only one that is over is cleaned up.
LEMMA EndStep ==
    ASSUME TypeOK, ActInv, EndInv, DownInv, NextMove
    PROVE  EndInv'
<1> SUFFICES ASSUME NEW x \in Job
             PROVE  /\ task'[x] # "none" => state'[x] \in {"RUNNING", "ended"}
                    /\ closing'[x] # "none" => state'[x] = "ended"
  BY DEF EndInv
<1> DEFINE Goal == /\ task'[x] # "none" => state'[x] \in {"RUNNING", "ended"}
                   /\ closing'[x] # "none" => state'[x] = "ended"
<1> USE DEF TypeOK, RowsTypeOK, MemoryTypeOK, Activity, ActInv, ActOK, Drives,
   DrivenState, EndInv, DownInv, Waiting
<1>1. ASSUME NEW a \in Actor, NEW j \in Job, Creating(a, j) PROVE Goal
  BY <1>1 DEF Creating, OpenMove, Open, SessionFree, Keeps, LockMove, Locks, FindsBusy,
     AddMove, Holds, GiveMove, Unlocks, RollMove, Doing
<1>2. ASSUME NEW a \in Actor, NEW j \in Job, Assigning(a, j) PROVE Goal
  <2>1. CASE TakeMove(a, j) \/ BusyMove(a, j)
    BY <2>1 DEF TakeMove, BusyMove, Idle, Doing
  <2>2. CASE RaiseMove(a, j) \/ WaitMove(a, j)
    BY <2>2 DEF RaiseMove, Raises, Idle, WaitMove, Doing
  <2>3. QED
    BY <1>2, <2>1, <2>2 DEF Assigning
<1>3. ASSUME NEW a \in Actor, NEW j \in Job, Starting(a, j) PROVE Goal
  BY <1>3 DEF Starting, EnqueueMove, Appended, Idle, WriteMove, RefreshMove, BeginMove,
     Leaves, Replaces, Raises, Doing
<1>4. ASSUME NEW a \in Actor, NEW j \in Job, Requesting(a, j) PROVE Goal
  BY <1>4 DEF Requesting, CreateMove, RetryMove, Retries, Appended, Doing
<1>5. ASSUME NEW a \in Actor, NEW o \in Owner, NEW s \in Session, SwitchMove(a, o, s)
      PROVE  Goal
  BY <1>5 DEF SwitchMove, Open, SessionFree
<1>6. ASSUME NEW a \in Actor, NEW s \in Session, ReopenMove(a, s) PROVE Goal
  BY <1>6 DEF ReopenMove, Idle, Doing
<1>7. ASSUME NEW i \in Job, NEW j \in Job, SwapMove(i, j) PROVE Goal
  BY <1>7 DEF SwapMove, Replaces
<1>8. ASSUME NEW j \in Job, LookMove(j) PROVE Goal
  BY <1>8 DEF LookMove, Retries, Doing
<1>9. ASSUME NEW j \in Job, Working(j) PROVE Goal
  BY <1>9 DEF Working, LearnMove, BindMove, Open, SessionFree, EndMove, UnlockMove,
     Unlocks, UnleaseMove
<1>10. CASE ListMove
  BY <1>10 DEF ListMove
<1>11. CASE Restarting
  BY <1>11 DEF Restarting, CrashMove, Idle, RefuseMove, StartMove, Repaired, Stuttering,
     Doing
<1>12. QED
  BY <1>1, <1>2, <1>3, <1>4, <1>5, <1>6, <1>7, <1>8, <1>9, <1>10, <1>11 DEF NextMove

\* No owner gets a second open session.
LEMMA SingleStep ==
    ASSUME TypeOK, SingleInv, KeepInv, NextMove
    PROVE  SingleInv'
<1> SUFFICES ASSUME NEW u \in Session, NEW v \in Session, u # v, session'[u].status = "open",
                    session'[v].status = "open", session'[u].owner = session'[v].owner
             PROVE  FALSE
  BY DEF SingleInv
<1> /\ act \in [Actor -> Activity] /\ state \in [Job -> JobState] /\ owner \in [Job -> Owner]
    /\ thread \in [Job -> Thread] /\ session \in [Session -> SessionRow]
  BY DEF TypeOK, RowsTypeOK, MemoryTypeOK, SessionRow
<1> USE DEF KeepOK, Keeps, Open, SessionOwner
<1>1. ASSUME NEW a \in Actor, NEW j \in Job, Creating(a, j) PROVE FALSE
  <2>1. CASE OpenMove(a, j)
    BY <2>1 DEF OpenMove, SessionFree, SingleInv, KeepInv, Activity, SessionRow
  <2>2. CASE LockMove(a, j)
    BY <2>2 DEF LockMove, Locks, FindsBusy, SessionFree, SingleInv, KeepInv, Activity,
       SessionRow, Doing
  <2>3. CASE AddMove(a, j)
    BY <2>3 DEF AddMove, Holds, SingleInv, KeepInv, Activity, SessionRow, Doing
  <2>4. CASE GiveMove(a, j)
    BY <2>4 DEF GiveMove, Unlocks, SingleInv, KeepInv, Activity, SessionRow
  <2>5. CASE RollMove(a, j)
    BY <2>5 DEF RollMove, SingleInv, KeepInv, Activity, SessionRow
  <2>6. QED
    BY <1>1, <2>1, <2>2, <2>3, <2>4, <2>5 DEF Creating
<1>2. ASSUME NEW a \in Actor, NEW j \in Job, Assigning(a, j) PROVE FALSE
  <2>1. CASE TakeMove(a, j)
    BY <2>1 DEF TakeMove, SingleInv, KeepInv, Activity, SessionRow
  <2>2. CASE BusyMove(a, j)
    BY <2>2 DEF BusyMove, Idle, SingleInv, KeepInv, Activity, SessionRow, Doing
  <2>3. CASE RaiseMove(a, j)
    BY <2>3 DEF RaiseMove, Raises, Idle, SingleInv, KeepInv, Activity, SessionRow, Doing
  <2>4. CASE WaitMove(a, j)
    BY <2>4 DEF WaitMove, Idle, SingleInv, KeepInv, Activity, SessionRow, Doing
  <2>5. QED
    BY <1>2, <2>1, <2>2, <2>3, <2>4 DEF Assigning
<1>3. ASSUME NEW a \in Actor, NEW j \in Job, Starting(a, j) PROVE FALSE
  <2>1. CASE EnqueueMove(a, j)
    BY <2>1 DEF EnqueueMove, Appended, Idle, SingleInv, KeepInv, Activity, SessionRow,
       Doing
  <2>2. CASE WriteMove(a, j)
    BY <2>2 DEF WriteMove, Idle, SingleInv, KeepInv, Activity, SessionRow, Doing
  <2>3. CASE RefreshMove(a, j)
    BY <2>3 DEF RefreshMove, SingleInv, KeepInv, Activity, SessionRow
  <2>4. CASE BeginMove(a, j)
    BY <2>4 DEF BeginMove, Leaves, Replaces, Raises, Idle, SingleInv, KeepInv, Activity,
       SessionRow, Doing
  <2>5. QED
    BY <1>3, <2>1, <2>2, <2>3, <2>4 DEF Starting
<1>4. ASSUME NEW a \in Actor, NEW j \in Job, Requesting(a, j) PROVE FALSE
  <2>1. CASE CreateMove(a, j)
    BY <2>1 DEF CreateMove, SingleInv, KeepInv, Activity, SessionRow, Doing
  <2>2. CASE RetryMove(a, j)
    BY <2>2 DEF RetryMove, Retries, Waiting, Appended, SingleInv, KeepInv, Activity,
       SessionRow, Doing
  <2>3. QED
    BY <1>4, <2>1, <2>2 DEF Requesting
<1>5. ASSUME NEW a \in Actor, NEW o \in Owner, NEW s \in Session, SwitchMove(a, o, s)
      PROVE  FALSE
  BY <1>5 DEF SwitchMove, SessionFree, SingleInv, KeepInv, Activity, SessionRow
<1>6. ASSUME NEW a \in Actor, NEW s \in Session, ReopenMove(a, s) PROVE FALSE
  BY <1>6 DEF ReopenMove, Idle, SingleInv, KeepInv, Activity, SessionRow, Doing
<1>7. ASSUME NEW i \in Job, NEW j \in Job, SwapMove(i, j) PROVE FALSE
  BY <1>7 DEF SwapMove, Replaces, SingleInv, KeepInv, Activity, SessionRow
<1>8. ASSUME NEW j \in Job, LookMove(j) PROVE FALSE
  BY <1>8 DEF LookMove, Retries, Waiting, SingleInv, KeepInv, Activity, SessionRow,
     Doing
<1>9. ASSUME NEW j \in Job, Working(j) PROVE FALSE
  <2>1. CASE LearnMove(j)
    BY <2>1 DEF LearnMove, SingleInv, KeepInv, Activity, SessionRow
  <2>2. CASE BindMove(j)
    BY <2>2 DEF BindMove, SessionFree, SingleInv, KeepInv, Activity, SessionRow
  <2>3. CASE EndMove(j)
    BY <2>3 DEF EndMove, SingleInv, KeepInv, Activity, SessionRow
  <2>4. CASE UnlockMove(j)
    BY <2>4 DEF UnlockMove, Unlocks, SingleInv, KeepInv, Activity, SessionRow
  <2>5. CASE UnleaseMove(j)
    BY <2>5 DEF UnleaseMove, SingleInv, KeepInv, Activity, SessionRow
  <2>6. QED
    BY <1>9, <2>1, <2>2, <2>3, <2>4, <2>5 DEF Working
<1>10. CASE ListMove
  BY <1>10 DEF ListMove, SingleInv, KeepInv, Activity, SessionRow
<1>11. CASE Restarting
  <2>1. CASE CrashMove
    BY <2>1 DEF CrashMove, Idle, SingleInv, KeepInv, Activity, SessionRow, Doing
  <2>2. CASE RefuseMove
    BY <2>2 DEF RefuseMove, SingleInv, KeepInv, Activity, SessionRow
  <2>3. CASE StartMove
    BY <2>3 DEF StartMove, Repaired, SingleInv, KeepInv, Activity, SessionRow
  <2>4. CASE Stuttering
    BY <2>4 DEF Stuttering, SingleInv, KeepInv, Activity, SessionRow
  <2>5. QED
    BY <1>11, <2>1, <2>2, <2>3, <2>4 DEF Restarting
<1>12. QED
  BY <1>1, <1>2, <1>3, <1>4, <1>5, <1>6, <1>7, <1>8, <1>9, <1>10, <1>11 DEF NextMove

\* No two actors keep the lock of one owner.
LEMMA ApartStep ==
    ASSUME TypeOK, ActInv, KeepInv, NextMove
    PROVE  Apart'
<1> SUFFICES ASSUME NEW b \in Actor, NEW c \in Actor, b # c, Keeps(b)', Keeps(c)'
             PROVE  (SessionOwner(b) # SessionOwner(c))'
  BY DEF Apart
<1> /\ act \in [Actor -> Activity] /\ state \in [Job -> JobState] /\ owner \in [Job -> Owner]
    /\ thread \in [Job -> Thread] /\ session \in [Session -> SessionRow]
  BY DEF TypeOK, RowsTypeOK, MemoryTypeOK, SessionRow
<1> USE DEF KeepOK, Keeps, SessionOwner, SessionFree
<1>1. ASSUME NEW a \in Actor, NEW j \in Job, Creating(a, j)
      PROVE  (SessionOwner(b) # SessionOwner(c))'
  <2>1. CASE OpenMove(a, j)
    BY <2>1 DEF OpenMove, Open, ActInv, ActOK, Drives, DrivenState, KeepInv, Activity,
       SessionRow
  <2>2. CASE LockMove(a, j)
    <3>1. \A t \in Session : /\ session'[t].owner = session[t].owner
                            /\ session'[t].status = session[t].status
      BY <2>2 DEF LockMove, Locks, FindsBusy, Open, SessionRow, Doing
    <3>2. \A x \in Actor : Keeps(x)' => act'[x] = act[x] /\ owner' = owner
      BY <2>2 DEF LockMove, Locks, FindsBusy, Idle, Activity, Doing
    <3>3. \A x \in Actor : act[x].at = "reopen" => act[x].target \in Session
      BY DEF KeepInv, KeepOK
    <3>4. QED
      BY <3>1, <3>2, <3>3 DEF KeepInv
  <2>3. CASE AddMove(a, j)
    BY <2>3 DEF AddMove, Holds, Open, ActInv, ActOK, Drives, DrivenState, KeepInv,
       Activity, SessionRow, Doing
  <2>4. CASE GiveMove(a, j)
    BY <2>4 DEF GiveMove, Unlocks, ActInv, ActOK, Drives, DrivenState, KeepInv,
       Activity, SessionRow
  <2>5. CASE RollMove(a, j)
    BY <2>5 DEF RollMove, ActInv, ActOK, Drives, DrivenState, KeepInv, Activity,
       SessionRow
  <2>6. QED
    BY <1>1, <2>1, <2>2, <2>3, <2>4, <2>5 DEF Creating
<1>2. ASSUME NEW a \in Actor, NEW j \in Job, Assigning(a, j)
      PROVE  (SessionOwner(b) # SessionOwner(c))'
  <2>1. CASE TakeMove(a, j)
    BY <2>1 DEF TakeMove, ActInv, ActOK, Drives, DrivenState, KeepInv, Activity,
       SessionRow
  <2>2. CASE BusyMove(a, j)
    BY <2>2 DEF BusyMove, Idle, ActInv, ActOK, Drives, DrivenState, KeepInv, Activity,
       SessionRow, Doing
  <2>3. CASE RaiseMove(a, j)
    BY <2>3 DEF RaiseMove, Raises, Idle, ActInv, ActOK, Drives, DrivenState, KeepInv,
       Activity, SessionRow, Doing
  <2>4. CASE WaitMove(a, j)
    BY <2>4 DEF WaitMove, Idle, ActInv, ActOK, Drives, DrivenState, KeepInv, Activity,
       SessionRow, Doing
  <2>5. QED
    BY <1>2, <2>1, <2>2, <2>3, <2>4 DEF Assigning
<1>3. ASSUME NEW a \in Actor, NEW j \in Job, Starting(a, j)
      PROVE  (SessionOwner(b) # SessionOwner(c))'
  <2>1. CASE EnqueueMove(a, j)
    BY <2>1 DEF EnqueueMove, Appended, Idle, ActInv, ActOK, Drives, DrivenState,
       KeepInv, Activity, SessionRow, Doing
  <2>2. CASE WriteMove(a, j)
    BY <2>2 DEF WriteMove, Idle, ActInv, ActOK, Drives, DrivenState, KeepInv, Activity,
       SessionRow, Doing
  <2>3. CASE RefreshMove(a, j)
    BY <2>3 DEF RefreshMove, ActInv, ActOK, Drives, DrivenState, KeepInv, Activity,
       SessionRow
  <2>4. CASE BeginMove(a, j)
    <3>0. act' = [act EXCEPT ![a] = Idle]
      BY <2>4 DEF BeginMove, Raises
    <3>1. \A t \in Session : /\ session'[t].owner = session[t].owner
                            /\ session'[t].status = session[t].status
      BY <2>4 DEF BeginMove, Open, SessionRow
    <3>2. \A x \in Actor : Keeps(x)' => act'[x] = act[x] /\ owner' = owner
      BY <2>4, <3>0 DEF BeginMove, Idle, Activity, Doing
    <3>3. \A x \in Actor : act[x].at = "reopen" => act[x].target \in Session
      BY DEF KeepInv, KeepOK
    <3>4. QED
      BY <3>1, <3>2, <3>3 DEF KeepInv
  <2>5. QED
    BY <1>3, <2>1, <2>2, <2>3, <2>4 DEF Starting
<1>4. ASSUME NEW a \in Actor, NEW j \in Job, Requesting(a, j)
      PROVE  (SessionOwner(b) # SessionOwner(c))'
  <2>1. CASE CreateMove(a, j)
    BY <2>1 DEF CreateMove, ActInv, ActOK, Drives, DrivenState, KeepInv, Activity,
       SessionRow, Doing
  <2>2. CASE RetryMove(a, j)
    BY <2>2 DEF RetryMove, Retries, Waiting, Appended, ActInv, ActOK, Drives,
       DrivenState, KeepInv, Activity, SessionRow, Doing
  <2>3. QED
    BY <1>4, <2>1, <2>2 DEF Requesting
<1>5. ASSUME NEW a \in Actor, NEW o \in Owner, NEW s \in Session, SwitchMove(a, o, s)
      PROVE  (SessionOwner(b) # SessionOwner(c))'
  <2>1. /\ \A x \in Actor : x # a => act'[x] = act[x]
        /\ act'[a].at = "reopen" /\ act'[a].target = s /\ owner' = owner
    BY <1>5 DEF SwitchMove
  <2>2. /\ session'[s].owner = o
        /\ \A t \in Session : t # s => session'[t].owner = session[t].owner
        /\ session[s].owner = o \/ \A x \in Actor : act[x].target # s
    BY <1>5 DEF SwitchMove
  <2>3. \A x \in Actor : Keeps(x) => SessionOwner(x) # o
    BY <1>5 DEF SwitchMove, SessionFree
  <2>4. \A x \in Actor : act[x].at = "reopen" => act[x].target \in Session
    BY DEF KeepInv, KeepOK
  <2>5. \A x \in Actor : x # a /\ Keeps(x)' => Keeps(x) /\ SessionOwner(x)' = SessionOwner(x)
    BY <2>1, <2>2, <2>4
  <2>6. SessionOwner(a)' = o
    BY <2>1, <2>2
  <2>7. QED
    BY <2>3, <2>5, <2>6 DEF KeepInv
<1>6. ASSUME NEW a \in Actor, NEW s \in Session, ReopenMove(a, s)
      PROVE  (SessionOwner(b) # SessionOwner(c))'
  BY <1>6 DEF ReopenMove, Idle, ActInv, ActOK, Drives, DrivenState, KeepInv, Activity,
     SessionRow, Doing
<1>7. ASSUME NEW i \in Job, NEW j \in Job, SwapMove(i, j)
      PROVE  (SessionOwner(b) # SessionOwner(c))'
  BY <1>7 DEF SwapMove, Replaces, ActInv, ActOK, Drives, DrivenState, KeepInv, Activity,
     SessionRow
<1>8. ASSUME NEW j \in Job, LookMove(j) PROVE (SessionOwner(b) # SessionOwner(c))'
  BY <1>8 DEF LookMove, Retries, Waiting, ActInv, ActOK, Drives, DrivenState, KeepInv,
     Activity, SessionRow, Doing
<1>9. ASSUME NEW j \in Job, Working(j) PROVE (SessionOwner(b) # SessionOwner(c))'
  <2>1. CASE LearnMove(j)
    BY <2>1 DEF LearnMove, ActInv, ActOK, Drives, DrivenState, KeepInv, Activity,
       SessionRow
  <2>2. CASE BindMove(j)
    <3>1. \A t \in Session : /\ session'[t].owner = session[t].owner
                            /\ session'[t].status = session[t].status
      BY <2>2 DEF BindMove, Open, SessionRow
    <3>2. \A x \in Actor : Keeps(x)' => act'[x] = act[x] /\ owner' = owner
      BY <2>2 DEF BindMove, Idle, Activity, Doing
    <3>3. \A x \in Actor : act[x].at = "reopen" => act[x].target \in Session
      BY DEF KeepInv, KeepOK
    <3>4. QED
      BY <3>1, <3>2, <3>3 DEF KeepInv
  <2>3. CASE EndMove(j)
    BY <2>3 DEF EndMove, ActInv, ActOK, Drives, DrivenState, KeepInv, Activity,
       SessionRow
  <2>4. CASE UnlockMove(j)
    BY <2>4 DEF UnlockMove, Unlocks, ActInv, ActOK, Drives, DrivenState, KeepInv,
       Activity, SessionRow
  <2>5. CASE UnleaseMove(j)
    BY <2>5 DEF UnleaseMove, ActInv, ActOK, Drives, DrivenState, KeepInv, Activity,
       SessionRow
  <2>6. QED
    BY <1>9, <2>1, <2>2, <2>3, <2>4, <2>5 DEF Working
<1>10. CASE ListMove
  BY <1>10 DEF ListMove, ActInv, ActOK, Drives, DrivenState, KeepInv, Activity,
     SessionRow
<1>11. CASE Restarting
  <2>1. CASE CrashMove
    BY <2>1 DEF CrashMove, Idle, ActInv, ActOK, Drives, DrivenState, KeepInv, Activity,
       SessionRow, Doing
  <2>2. CASE RefuseMove
    BY <2>2 DEF RefuseMove, ActInv, ActOK, Drives, DrivenState, KeepInv, Activity,
       SessionRow
  <2>3. CASE StartMove
    BY <2>3 DEF StartMove, Repaired, ActInv, ActOK, Drives, DrivenState, KeepInv,
       Activity, SessionRow
  <2>4. CASE Stuttering
    BY <2>4 DEF Stuttering, ActInv, ActOK, Drives, DrivenState, KeepInv, Activity,
       SessionRow
  <2>5. QED
    BY <1>11, <2>1, <2>2, <2>3, <2>4 DEF Restarting
<1>12. QED
  BY <1>1, <1>2, <1>3, <1>4, <1>5, <1>6, <1>7, <1>8, <1>9, <1>10, <1>11 DEF NextMove

\* An actor that keeps the lock of an owner finds the sessions as it left them.
LEMMA KeepStep ==
    ASSUME TypeOK, ActInv, KeepInv, NextMove
    PROVE  \A b \in Actor : KeepOK(b)'
<1> SUFFICES ASSUME NEW b \in Actor PROVE KeepOK(b)'
  OBVIOUS
<1> /\ act \in [Actor -> Activity] /\ state \in [Job -> JobState] /\ owner \in [Job -> Owner]
    /\ thread \in [Job -> Thread] /\ session \in [Session -> SessionRow]
  BY DEF TypeOK, RowsTypeOK, MemoryTypeOK, SessionRow
<1> USE DEF KeepOK, Keeps, Open, SessionOwner, SessionFree
<1>1. ASSUME NEW a \in Actor, NEW j \in Job, Creating(a, j) PROVE KeepOK(b)'
  <2>1. CASE OpenMove(a, j)
    BY <2>1 DEF OpenMove, ActInv, ActOK, Drives, DrivenState, KeepInv, Activity,
       SessionRow
  <2>2. CASE LockMove(a, j)
    <3>1. UNCHANGED owner
          /\ \A t \in Session : /\ session'[t].owner = session[t].owner
                               /\ session'[t].status = session[t].status
          /\ \A u \in Session : u \notin Open(owner[j]) => session'[u] = session[u]
      BY <2>2 DEF LockMove, Locks, FindsBusy, SessionRow, Doing
    <3>2. \A x \in Actor : x # a /\ Keeps(x) => SessionOwner(x) # owner[j]
      BY <2>2 DEF LockMove, KeepInv
    <3>3. act'[b].at \in {"row", "refresh", "rollback"} \/ (b # a /\ act'[b] = act[b])
      BY <2>2 DEF LockMove, Locks, FindsBusy, Activity, Doing
    <3>4. KeepOK(b)
      BY DEF KeepInv
    <3>5. CASE act[b].at = "reopen"
      BY <3>1, <3>2, <3>3, <3>4, <3>5
    <3>6. CASE act[b].at # "reopen"
      BY <3>1, <3>3, <3>4, <3>6
    <3>7. QED
      BY <3>5, <3>6
  <2>3. CASE AddMove(a, j)
    BY <2>3 DEF AddMove, Holds, ActInv, ActOK, Drives, DrivenState, KeepInv, Activity,
       SessionRow, Doing
  <2>4. CASE GiveMove(a, j)
    BY <2>4 DEF GiveMove, Unlocks, ActInv, ActOK, Drives, DrivenState, KeepInv,
       Activity, SessionRow
  <2>5. CASE RollMove(a, j)
    BY <2>5 DEF RollMove, ActInv, ActOK, Drives, DrivenState, KeepInv, Activity,
       SessionRow
  <2>6. QED
    BY <1>1, <2>1, <2>2, <2>3, <2>4, <2>5 DEF Creating
<1>2. ASSUME NEW a \in Actor, NEW j \in Job, Assigning(a, j) PROVE KeepOK(b)'
  <2>1. CASE TakeMove(a, j)
    BY <2>1 DEF TakeMove, ActInv, ActOK, Drives, DrivenState, KeepInv, Activity,
       SessionRow
  <2>2. CASE BusyMove(a, j)
    BY <2>2 DEF BusyMove, Idle, ActInv, ActOK, Drives, DrivenState, KeepInv, Activity,
       SessionRow, Doing
  <2>3. CASE RaiseMove(a, j)
    BY <2>3 DEF RaiseMove, Raises, Idle, ActInv, ActOK, Drives, DrivenState, KeepInv,
       Activity, SessionRow, Doing
  <2>4. CASE WaitMove(a, j)
    <3>1. UNCHANGED <<session, owner>>
      BY <2>4 DEF WaitMove, Doing
    <3>2. act'[b] = act[b] \/ act'[b].at \in {"idle", "enqueue", "write"}
      BY <2>4 DEF WaitMove, Idle, Activity, Doing
    <3>3. QED
      BY <3>1, <3>2 DEF KeepInv
  <2>5. QED
    BY <1>2, <2>1, <2>2, <2>3, <2>4 DEF Assigning
<1>3. ASSUME NEW a \in Actor, NEW j \in Job, Starting(a, j) PROVE KeepOK(b)'
  <2>1. CASE EnqueueMove(a, j)
    BY <2>1 DEF EnqueueMove, Appended, Idle, ActInv, ActOK, Drives, DrivenState,
       KeepInv, Activity, SessionRow, Doing
  <2>2. CASE WriteMove(a, j)
    BY <2>2 DEF WriteMove, Idle, ActInv, ActOK, Drives, DrivenState, KeepInv, Activity,
       SessionRow, Doing
  <2>3. CASE RefreshMove(a, j)
    BY <2>3 DEF RefreshMove, ActInv, ActOK, Drives, DrivenState, KeepInv, Activity,
       SessionRow
  <2>4. CASE BeginMove(a, j)
    <3>1. UNCHANGED <<session, owner>> /\ act' = [act EXCEPT ![a] = Idle]
      BY <2>4 DEF BeginMove, Raises
    <3>2. act'[b] = act[b] \/ act'[b].at = "idle"
      BY <3>1 DEF Idle, Activity, Doing
    <3>3. QED
      BY <3>1, <3>2 DEF KeepInv
  <2>5. QED
    BY <1>3, <2>1, <2>2, <2>3, <2>4 DEF Starting
<1>4. ASSUME NEW a \in Actor, NEW j \in Job, Requesting(a, j) PROVE KeepOK(b)'
  <2>1. CASE CreateMove(a, j)
    BY <2>1 DEF CreateMove, ActInv, ActOK, Drives, DrivenState, KeepInv, Activity,
       SessionRow, Doing
  <2>2. CASE RetryMove(a, j)
    BY <2>2 DEF RetryMove, Retries, Waiting, Appended, ActInv, ActOK, Drives,
       DrivenState, KeepInv, Activity, SessionRow, Doing
  <2>3. QED
    BY <1>4, <2>1, <2>2 DEF Requesting
<1>5. ASSUME NEW a \in Actor, NEW o \in Owner, NEW s \in Session, SwitchMove(a, o, s)
      PROVE  KeepOK(b)'
  BY <1>5 DEF SwitchMove, ActInv, ActOK, Drives, DrivenState, KeepInv, Activity,
     SessionRow
<1>6. ASSUME NEW a \in Actor, NEW s \in Session, ReopenMove(a, s) PROVE KeepOK(b)'
  BY <1>6 DEF ReopenMove, Idle, ActInv, ActOK, Drives, DrivenState, KeepInv, Activity,
     SessionRow, Doing
<1>7. ASSUME NEW i \in Job, NEW j \in Job, SwapMove(i, j) PROVE KeepOK(b)'
  BY <1>7 DEF SwapMove, Replaces, ActInv, ActOK, Drives, DrivenState, KeepInv, Activity,
     SessionRow
<1>8. ASSUME NEW j \in Job, LookMove(j) PROVE KeepOK(b)'
  BY <1>8 DEF LookMove, Retries, Waiting, ActInv, ActOK, Drives, DrivenState, KeepInv,
     Activity, SessionRow, Doing
<1>9. ASSUME NEW j \in Job, Working(j) PROVE KeepOK(b)'
  <2>1. CASE LearnMove(j)
    BY <2>1 DEF LearnMove, ActInv, ActOK, Drives, DrivenState, KeepInv, Activity,
       SessionRow
  <2>2. CASE BindMove(j)
    <3>1. /\ UNCHANGED <<act, owner>> /\ SessionFree(owner[j])
          /\ \A t \in Session : /\ session'[t].owner = session[t].owner
                               /\ session'[t].status = session[t].status
          /\ \A t \in Session : t \notin Open(owner[j]) => session'[t] = session[t]
      BY <2>2 DEF BindMove, SessionRow
    <3>2. b \in Actor /\ KeepOK(b)
      BY DEF KeepInv
    <3>3. CASE act[b].at = "reopen"
      BY <3>1, <3>2, <3>3
    <3>4. CASE act[b].at # "reopen"
      BY <3>1, <3>2, <3>4
    <3>5. QED
      BY <3>3, <3>4
  <2>3. CASE EndMove(j)
    BY <2>3 DEF EndMove, ActInv, ActOK, Drives, DrivenState, KeepInv, Activity,
       SessionRow
  <2>4. CASE UnlockMove(j)
    BY <2>4 DEF UnlockMove, Unlocks, ActInv, ActOK, Drives, DrivenState, KeepInv,
       Activity, SessionRow
  <2>5. CASE UnleaseMove(j)
    BY <2>5 DEF UnleaseMove, ActInv, ActOK, Drives, DrivenState, KeepInv, Activity,
       SessionRow
  <2>6. QED
    BY <1>9, <2>1, <2>2, <2>3, <2>4, <2>5 DEF Working
<1>10. CASE ListMove
  BY <1>10 DEF ListMove, ActInv, ActOK, Drives, DrivenState, KeepInv, Activity,
     SessionRow
<1>11. CASE Restarting
  <2>1. CASE CrashMove
    BY <2>1 DEF CrashMove, Idle, ActInv, ActOK, Drives, DrivenState, KeepInv, Activity,
       SessionRow, Doing
  <2>2. CASE RefuseMove
    BY <2>2 DEF RefuseMove, ActInv, ActOK, Drives, DrivenState, KeepInv, Activity,
       SessionRow
  <2>3. CASE StartMove
    BY <2>3 DEF StartMove, Repaired, ActInv, ActOK, Drives, DrivenState, KeepInv,
       Activity, SessionRow
  <2>4. CASE Stuttering
    BY <2>4 DEF Stuttering, ActInv, ActOK, Drives, DrivenState, KeepInv, Activity,
       SessionRow
  <2>5. QED
    BY <1>11, <2>1, <2>2, <2>3, <2>4 DEF Restarting
<1>12. QED
  BY <1>1, <1>2, <1>3, <1>4, <1>5, <1>6, <1>7, <1>8, <1>9, <1>10, <1>11 DEF NextMove

\* A Job on its way to its task has its owner's session, with its thread.
LEMMA ThreadStep ==
    ASSUME TypeOK, ActInv, AloneInv, DownInv, EndInv, SingleInv, KeepInv, ThreadInv,
       NextMove
    PROVE  ThreadInv'
<1> SUFFICES ASSUME NEW b \in Actor PROVE ThreadOK(b)'
  BY DEF ThreadInv
<1> /\ act \in [Actor -> Activity] /\ state \in [Job -> JobState] /\ owner \in [Job -> Owner]
    /\ thread \in [Job -> Thread] /\ session \in [Session -> SessionRow]
  BY DEF TypeOK, RowsTypeOK, MemoryTypeOK, SessionRow
<1>a. ActOK(b) /\ ThreadOK(b) /\ \A x \in Actor : ActOK(x)
  BY DEF ActInv, ThreadInv
<1>b. UNCHANGED session => \A i \in Job : Kept(i)
  BY DEF Kept, Open
<1>c. ASSUME act'[b] = act[b], UNCHANGED owner,
             act[b].job \in Job => /\ Kept(act[b].job) /\ thread'[act[b].job] = thread[act[b].job]
                                   /\ Live(act[b].job)' => Live(act[b].job)
      PROVE  ThreadOK(b)'
  <2>1. CASE act[b].job \in Job
    BY <1>a, <1>c, <2>1, ThreadKept
  <2>2. CASE act[b].job \notin Job
    BY <1>a, <1>c, <2>2 DEF ActOK, ThreadOK
  <2>3. QED
    BY <2>1, <2>2
<1>d. ASSUME act'[b] = act[b],
             Drives(b) => state[act[b].job] = "ended" /\ ~Live(act[b].job)'
      PROVE  ThreadOK(b)'
  BY <1>a, <1>d DEF ActOK, ThreadOK, Drives, DrivenState, Live
<1>e. act'[b].at \notin {"row", "begin", "assign", "refresh"} => ThreadOK(b)'
  BY DEF ThreadOK
<1> USE DEF ThreadOK, Live
<1>1. ASSUME NEW a \in Actor, NEW j \in Job, Creating(a, j) PROVE ThreadOK(b)'
  <2>1. CASE OpenMove(a, j)
    <3>1. UNCHANGED owner /\ \A i \in Job : thread'[i] = thread[i] /\ (Live(i)' => Live(i))
      BY <2>1 DEF OpenMove
    <3>2. \A i \in Job : Kept(i)
      BY <2>1, SessionsKept
    <3>3. CASE b = a
      <4>1. act'[b].at \notin {"row", "begin", "assign", "refresh"}
        BY <2>1, <3>3 DEF OpenMove, Idle, Activity, Doing
      <4>2. QED
        BY <1>e, <4>1
    <3>4. CASE b # a
      <4>1. act'[b] = act[b]
        BY <2>1, <3>4 DEF OpenMove
      <4>2. QED
        BY <1>c, <3>1, <3>2, <4>1
    <3>5. QED
      BY <3>3, <3>4
  <2>2. CASE LockMove(a, j)
    <3>1. /\ UNCHANGED <<owner, state>> /\ Drives(a) /\ act[a].job = j
          /\ \A i \in Job : i # j => thread'[i] = thread[i]
          /\ \A x \in Actor : x # a => act'[x] = act[x]
      BY <2>2 DEF LockMove, Locks, FindsBusy, Drives, Doing
    <3>2. CASE b = a
      <4>1. PICK s \in Open(owner[j]) : Locks(a, j, s) \/ FindsBusy(a, j, s)
        BY <2>2 DEF LockMove
      <4>2. \A t \in Open(owner[j]) : t = s
        BY <4>1 DEF Open, SingleInv
      <4>3. \A t \in Open(owner[j])' : t = s
        BY <2>2, <4>2 DEF LockMove, Locks, FindsBusy, Open, SessionRow, Doing
      <4>4. act'[a].job = j
        BY <2>2, <3>1 DEF LockMove, Locks, FindsBusy, Activity, Doing
      <4>5. CASE Locks(a, j, s) /\ act[a].from = "none"
        <5>1. act'[a].at = "row" /\ thread'[j] = session[s].thread
          BY <2>2, <4>5 DEF Locks, LockMove, Activity, Doing
        <5>2. session'[s].thread = session[s].thread
          BY <4>5 DEF Locks, SessionRow, Doing
        <5>3. QED
          BY <3>2, <4>3, <4>4, <5>1, <5>2
      <4>6. CASE Locks(a, j, s) /\ act[a].from # "none"
        <5>1. act'[a].at = "refresh" /\ act'[a].thread = session[s].thread
          BY <2>2, <4>6 DEF Locks, LockMove, Activity, Doing
        <5>2. /\ s \in Open(owner[j])' /\ session'[s].lock = j
              /\ session'[s].thread = session[s].thread
          BY <2>2, <4>1, <4>6 DEF Locks, LockMove, SessionRow, Open, Doing
        <5>3. Has(j, act[a].thread)'
          BY <5>1, <5>2 DEF Has
        <5>4. QED
          BY <3>2, <4>4, <5>1, <5>3
      <4>7. CASE FindsBusy(a, j, s) /\ act[a].from = "none"
        <5>1. act'[a].at = "row" /\ session'[s].lock # j
          BY <2>2, <4>7 DEF FindsBusy, LockMove, Activity
        <5>2. QED
          BY <3>2, <4>3, <4>4, <5>1
      <4>8. CASE FindsBusy(a, j, s) /\ act[a].from # "none"
        <5>1. act'[a].at = "rollback"
          BY <2>2, <4>8 DEF FindsBusy, LockMove, Activity
        <5>2. QED
          BY <1>e, <3>2, <5>1
      <4>9. QED
        BY <4>1, <4>5, <4>6, <4>7, <4>8
    <3>3. CASE b # a /\ act[b].job # j
      BY <2>2, <1>c, <3>1, <3>3, SessionsKept
    <3>4. CASE b # a /\ act[b].job = j
      <4>1. Drives(b) => ~Live(j)
        BY <3>1, <3>4 DEF AloneInv
      <4>2. QED
        BY <1>d, <3>1, <3>4, <4>1
    <3>5. QED
      BY <3>2, <3>3, <3>4
  <2>3. CASE AddMove(a, j)
    BY <2>3 DEF AddMove, Holds, Open, ActInv, ActOK, Drives, DrivenState, AloneInv,
       DownInv, EndInv, SingleInv, KeepInv, ThreadInv, Activity, SessionRow, Has, Doing
  <2>4. CASE GiveMove(a, j)
    <3>1. /\ UNCHANGED <<owner, state>> /\ Drives(a) /\ act[a].job = j
          /\ \A i \in Job : i # j => thread'[i] = thread[i]
          /\ \A x \in Actor : x # a => act'[x] = act[x]
      BY <2>4 DEF GiveMove, Drives
    <3>2. CASE b = a
      <4>1. act'[b].at = "wait"
        BY <2>4, <3>2 DEF GiveMove, Activity
      <4>2. QED
        BY <1>e, <4>1
    <3>3. CASE b # a /\ act[b].job # j
      BY <2>4, <1>c, <3>1, <3>3, SessionsKept
    <3>4. CASE b # a /\ act[b].job = j
      <4>1. Drives(b) => ~Live(j)
        BY <3>1, <3>4 DEF AloneInv
      <4>2. QED
        BY <1>d, <3>1, <3>4, <4>1
    <3>5. QED
      BY <3>2, <3>3, <3>4
  <2>5. CASE RollMove(a, j)
    BY <2>5 DEF RollMove, ActInv, ActOK, Drives, DrivenState, AloneInv, DownInv, EndInv,
       SingleInv, KeepInv, ThreadInv, Activity, SessionRow, Has, Open
  <2>6. QED
    BY <1>1, <2>1, <2>2, <2>3, <2>4, <2>5 DEF Creating
<1>2. ASSUME NEW a \in Actor, NEW j \in Job, Assigning(a, j) PROVE ThreadOK(b)'
  <2>1. CASE TakeMove(a, j)
    <3>1. /\ UNCHANGED <<owner, thread, session>> /\ Live(j)
          /\ \A i \in Job : Live(i)' => Live(i)
      BY <2>1, <1>a DEF TakeMove, Activity, ActOK
    <3>2. CASE b = a
      <4>1. /\ act'[a].job = j /\ act[a].job = j /\ act[a].at = "assign"
            /\ act'[a].at = "session" \/ (act'[a].at = "begin" /\ act[a].from = "QUEUED")
        BY <2>1 DEF TakeMove, Activity
      <4>2. act'[a].at = "begin" => Has(j, thread[j])
        BY <1>a, <3>1, <3>2, <4>1
      <4>3. Has(j, thread[j]) => Has(j, thread[j])'
        BY <1>b, <3>1, HasKept
      <4>4. QED
        BY <3>1, <3>2, <4>1, <4>2, <4>3
    <3>3. CASE b # a
      BY <2>1, <1>b, <1>c, <3>1, <3>3 DEF TakeMove
    <3>4. QED
      BY <3>2, <3>3
  <2>2. CASE BusyMove(a, j)
    <3>1. UNCHANGED owner /\ \A i \in Job : thread'[i] = thread[i] /\ (Live(i)' => Live(i))
      BY <2>2 DEF BusyMove
    <3>2. \A i \in Job : Kept(i)
      BY <2>2, <1>b DEF BusyMove
    <3>3. CASE b = a
      <4>1. act'[b].at \notin {"row", "begin", "assign", "refresh"}
        BY <2>2, <3>3 DEF BusyMove, Idle, Activity, Doing
      <4>2. QED
        BY <1>e, <4>1
    <3>4. CASE b # a
      <4>1. act'[b] = act[b]
        BY <2>2, <3>4 DEF BusyMove
      <4>2. QED
        BY <1>c, <3>1, <3>2, <4>1
    <3>5. QED
      BY <3>3, <3>4
  <2>3. CASE RaiseMove(a, j)
    BY <2>3 DEF RaiseMove, Raises, Idle, ActInv, ActOK, Drives, DrivenState, AloneInv,
       DownInv, EndInv, SingleInv, KeepInv, ThreadInv, Activity, SessionRow, Has, Open,
       Doing
  <2>4. CASE WaitMove(a, j)
    <3>1. UNCHANGED owner /\ \A i \in Job : thread'[i] = thread[i] /\ (Live(i)' => Live(i))
      BY <2>4 DEF WaitMove, Doing
    <3>2. \A i \in Job : Kept(i)
      BY <2>4, <1>b DEF WaitMove, Doing
    <3>3. CASE b = a
      <4>1. act'[b].at \notin {"row", "begin", "assign", "refresh"}
        BY <2>4, <3>3 DEF WaitMove, Idle, Activity, Doing
      <4>2. QED
        BY <1>e, <4>1
    <3>4. CASE b # a
      <4>1. act'[b] = act[b]
        BY <2>4, <3>4 DEF WaitMove, Doing
      <4>2. QED
        BY <1>c, <3>1, <3>2, <4>1
    <3>5. QED
      BY <3>3, <3>4
  <2>5. QED
    BY <1>2, <2>1, <2>2, <2>3, <2>4 DEF Assigning
<1>3. ASSUME NEW a \in Actor, NEW j \in Job, Starting(a, j) PROVE ThreadOK(b)'
  <2>1. CASE EnqueueMove(a, j)
    BY <2>1 DEF EnqueueMove, Appended, Idle, ActInv, ActOK, Drives, DrivenState,
       AloneInv, DownInv, EndInv, SingleInv, KeepInv, ThreadInv, Activity, SessionRow,
       Has, Open, Doing
  <2>2. CASE WriteMove(a, j)
    BY <2>2 DEF WriteMove, Idle, ActInv, ActOK, Drives, DrivenState, AloneInv, DownInv,
       EndInv, SingleInv, KeepInv, ThreadInv, Activity, SessionRow, Has, Open, Doing
  <2>3. CASE RefreshMove(a, j)
    BY <2>3 DEF RefreshMove, ActInv, ActOK, Drives, DrivenState, AloneInv, DownInv,
       EndInv, SingleInv, KeepInv, ThreadInv, Activity, SessionRow, Has, Open
  <2>4. CASE BeginMove(a, j)
    <3>1. UNCHANGED owner /\ \A i \in Job : thread'[i] = thread[i] /\ (Live(i)' => Live(i))
      BY <2>4 DEF BeginMove, Raises
    <3>2. \A i \in Job : Kept(i)
      BY <2>4, <1>b DEF BeginMove, Raises
    <3>3. CASE b = a
      <4>1. act'[b].at \notin {"row", "begin", "assign", "refresh"}
        BY <2>4, <3>3 DEF BeginMove, Raises, Idle, Activity, Doing
      <4>2. QED
        BY <1>e, <4>1
    <3>4. CASE b # a
      <4>1. act'[b] = act[b]
        BY <2>4, <3>4 DEF BeginMove, Raises
      <4>2. QED
        BY <1>c, <3>1, <3>2, <4>1
    <3>5. QED
      BY <3>3, <3>4
  <2>5. QED
    BY <1>3, <2>1, <2>2, <2>3, <2>4 DEF Starting
<1>4. ASSUME NEW a \in Actor, NEW j \in Job, Requesting(a, j) PROVE ThreadOK(b)'
  <2>1. CASE CreateMove(a, j)
    BY <2>1 DEF CreateMove, ActInv, ActOK, Drives, DrivenState, AloneInv, DownInv,
       EndInv, SingleInv, KeepInv, ThreadInv, Activity, SessionRow, Has, Open, Doing
  <2>2. CASE RetryMove(a, j)
    BY <2>2 DEF RetryMove, Retries, Waiting, Appended, ActInv, ActOK, Drives,
       DrivenState, AloneInv, DownInv, EndInv, SingleInv, KeepInv, ThreadInv, Activity,
       SessionRow, Has, Open, Doing
  <2>3. QED
    BY <1>4, <2>1, <2>2 DEF Requesting
<1>5. ASSUME NEW a \in Actor, NEW o \in Owner, NEW s \in Session, SwitchMove(a, o, s)
      PROVE  ThreadOK(b)'
  <2>1. UNCHANGED owner /\ \A i \in Job : thread'[i] = thread[i] /\ (Live(i)' => Live(i))
    BY <1>5 DEF SwitchMove
  <2>2. \A i \in Job : Kept(i)
    BY <1>5, SessionsKept
  <2>3. CASE b = a
    <3>1. act'[b].at \notin {"row", "begin", "assign", "refresh"}
      BY <1>5, <2>3 DEF SwitchMove, Idle, Activity, Doing
    <3>2. QED
      BY <1>e, <3>1
  <2>4. CASE b # a
    <3>1. act'[b] = act[b]
      BY <1>5, <2>4 DEF SwitchMove
    <3>2. QED
      BY <1>c, <2>1, <2>2, <3>1
  <2>5. QED
    BY <2>3, <2>4
<1>6. ASSUME NEW a \in Actor, NEW s \in Session, ReopenMove(a, s) PROVE ThreadOK(b)'
  <2>1. UNCHANGED owner /\ \A i \in Job : thread'[i] = thread[i] /\ (Live(i)' => Live(i))
    BY <1>6 DEF ReopenMove
  <2>2. \A i \in Job : Kept(i)
    BY <1>6, NoneIsNoJob, SessionsKept
  <2>3. CASE b = a
    <3>1. act'[b].at \notin {"row", "begin", "assign", "refresh"}
      BY <1>6, <2>3 DEF ReopenMove, Idle, Activity, Doing
    <3>2. QED
      BY <1>e, <3>1
  <2>4. CASE b # a
    <3>1. act'[b] = act[b]
      BY <1>6, <2>4 DEF ReopenMove
    <3>2. QED
      BY <1>c, <2>1, <2>2, <3>1
  <2>5. QED
    BY <2>3, <2>4
<1>7. ASSUME NEW i \in Job, NEW j \in Job, SwapMove(i, j) PROVE ThreadOK(b)'
  BY <1>7 DEF SwapMove, Replaces, ActInv, ActOK, Drives, DrivenState, AloneInv, DownInv,
     EndInv, SingleInv, KeepInv, ThreadInv, Activity, SessionRow, Has, Open
<1>8. ASSUME NEW j \in Job, LookMove(j) PROVE ThreadOK(b)'
  <2>1. /\ UNCHANGED <<owner, thread, session, state>>
        /\ act'[b] = act[b] \/ (act'[b].at = "assign" /\ act'[b].from # "QUEUED")
    BY <1>8 DEF LookMove, Retries, Waiting, Activity, Doing
  <2>2. CASE act'[b] = act[b]
    BY <1>b, <1>c, <2>1, <2>2
  <2>3. CASE act'[b] # act[b]
    BY <2>1, <2>3
  <2>4. QED
    BY <2>2, <2>3
<1>9. ASSUME NEW j \in Job, Working(j) PROVE ThreadOK(b)'
  <2>1. CASE LearnMove(j)
    BY <2>1 DEF LearnMove, ActInv, ActOK, Drives, DrivenState, AloneInv, DownInv,
       EndInv, SingleInv, KeepInv, ThreadInv, Activity, SessionRow, Has, Open
  <2>2. CASE BindMove(j)
    <3>1. UNCHANGED <<owner, thread>> /\ act'[b] = act[b] /\ \A i \in Job : Live(i)' => Live(i)
      BY <2>2 DEF BindMove
    <3>2. CASE act[b].job # j
      BY <2>2, <1>c, <3>1, <3>2, SessionsKept
    <3>3. CASE act[b].job = j
      <4>1. state[j] \in {"RUNNING", "ended"} /\ UNCHANGED state
        BY <2>2 DEF BindMove, EndInv
      <4>2. Drives(b) => state[j] = "ended"
        BY <1>a, <3>3, <4>1 DEF ActOK, DrivenState
      <4>3. QED
        BY <1>d, <3>1, <3>3, <4>1, <4>2
    <3>4. QED
      BY <3>2, <3>3
  <2>3. CASE EndMove(j)
    BY <2>3 DEF EndMove, ActInv, ActOK, Drives, DrivenState, AloneInv, DownInv, EndInv,
       SingleInv, KeepInv, ThreadInv, Activity, SessionRow, Has, Open
  <2>4. CASE UnlockMove(j)
    <3>1. UNCHANGED <<owner, thread>> /\ act'[b] = act[b] /\ \A i \in Job : Live(i)' => Live(i)
      BY <2>4 DEF UnlockMove
    <3>2. CASE act[b].job # j
      BY <2>4, <1>c, <3>1, <3>2, SessionsKept
    <3>3. CASE act[b].job = j
      <4>1. state[j] \in {"RUNNING", "ended"} /\ UNCHANGED state
        BY <2>4 DEF UnlockMove, EndInv
      <4>2. Drives(b) => state[j] = "ended"
        BY <1>a, <3>3, <4>1 DEF ActOK, DrivenState
      <4>3. QED
        BY <1>d, <3>1, <3>3, <4>1, <4>2
    <3>4. QED
      BY <3>2, <3>3
  <2>5. CASE UnleaseMove(j)
    BY <2>5 DEF UnleaseMove, ActInv, ActOK, Drives, DrivenState, AloneInv, DownInv,
       EndInv, SingleInv, KeepInv, ThreadInv, Activity, SessionRow, Has, Open
  <2>6. QED
    BY <1>9, <2>1, <2>2, <2>3, <2>4, <2>5 DEF Working
<1>10. CASE ListMove
  BY <1>10 DEF ListMove, ActInv, ActOK, Drives, DrivenState, AloneInv, DownInv, EndInv,
     SingleInv, KeepInv, ThreadInv, Activity, SessionRow, Has, Open
<1>11. CASE Restarting
  <2>1. CASE CrashMove
    BY <2>1 DEF CrashMove, Idle, ActInv, ActOK, Drives, DrivenState, AloneInv, DownInv,
       EndInv, SingleInv, KeepInv, ThreadInv, Activity, SessionRow, Has, Open, Doing
  <2>2. CASE RefuseMove
    BY <2>2 DEF RefuseMove, ActInv, ActOK, Drives, DrivenState, AloneInv, DownInv,
       EndInv, SingleInv, KeepInv, ThreadInv, Activity, SessionRow, Has, Open
  <2>3. CASE StartMove
    <3>1. act'[b].at = "idle"
      BY <2>3 DEF StartMove, DownInv, Idle, Doing
    <3>2. QED
      BY <1>e, <3>1
  <2>4. CASE Stuttering
    BY <2>4 DEF Stuttering, ActInv, ActOK, Drives, DrivenState, AloneInv, DownInv,
       EndInv, SingleInv, KeepInv, ThreadInv, Activity, SessionRow, Has, Open
  <2>5. QED
    BY <1>11, <2>1, <2>2, <2>3, <2>4 DEF Restarting
<1>12. QED
  BY <1>1, <1>2, <1>3, <1>4, <1>5, <1>6, <1>7, <1>8, <1>9, <1>10, <1>11 DEF NextMove

\* A Job at work has its owner's session, with its thread.
LEMMA RunsStep ==
    ASSUME TypeOK, ActInv, AloneInv, DownInv, EndInv, SingleInv, KeepInv, ThreadInv,
       RunsInSession, NextMove
    PROVE  RunsInSession'
<1> SUFFICES ASSUME NEW x \in Job, state'[x] = "RUNNING", up' = "up"
             PROVE  InSession(x)'
  BY DEF RunsInSession, InSession
<1> /\ act \in [Actor -> Activity] /\ state \in [Job -> JobState] /\ owner \in [Job -> Owner]
    /\ thread \in [Job -> Thread] /\ session \in [Session -> SessionRow]
  BY DEF TypeOK, RowsTypeOK, MemoryTypeOK, SessionRow
<1> task \in [Job -> {"none", "turn", "bind", "bound"}]
  BY DEF TypeOK, MemoryTypeOK
<1> Tick \in Actor
  BY DEF Actor
<1>b. UNCHANGED session => Kept(x)
  BY DEF Kept, Open
<1>c. ASSUME Kept(x), owner' = owner, state[x] = "RUNNING", up = "up",
             task'[x] # "bind" => task[x] # "bind" /\ thread'[x] = thread[x]
      PROVE  InSession(x)'
  BY <1>c DEF RunsInSession, InSession, Kept, Open
<1>1. ASSUME NEW a \in Actor, NEW j \in Job, Creating(a, j) PROVE InSession(x)'
  <2>1. CASE OpenMove(a, j)
    BY <2>1 DEF OpenMove, Open, SessionFree, Keeps, ActInv, ActOK, Drives, DrivenState,
       AloneInv, DownInv, EndInv, SingleInv, KeepInv, ThreadInv, Activity, SessionRow,
       Has, Live, InSession, RunsInSession
  <2>2. CASE LockMove(a, j)
    <3>0. x # j
      BY <2>2, ActInv DEF LockMove, ActInv, ActOK, Drives, DrivenState
    <3>1. /\ state[x] = "RUNNING" /\ up = "up" /\ UNCHANGED owner
          /\ task'[x] # "bind" => task[x] # "bind" /\ thread'[x] = thread[x]
      BY <2>2, <3>0 DEF LockMove, Locks, FindsBusy, Doing
    <3>2. Kept(x)
      BY <2>2, <3>0, SessionsKept
    <3>3. QED
      BY <1>c, <3>1, <3>2
  <2>3. CASE AddMove(a, j)
    BY <2>3 DEF AddMove, Holds, Open, ActInv, ActOK, Drives, DrivenState, AloneInv,
       DownInv, EndInv, SingleInv, KeepInv, ThreadInv, Activity, SessionRow, Has, Live,
       InSession, RunsInSession, Doing
  <2>4. CASE GiveMove(a, j)
    BY <2>4 DEF GiveMove, Unlocks, ActInv, ActOK, Drives, DrivenState, AloneInv,
       DownInv, EndInv, SingleInv, KeepInv, ThreadInv, Activity, SessionRow, Has, Open,
       Live, InSession, RunsInSession
  <2>5. CASE RollMove(a, j)
    BY <2>5 DEF RollMove, ActInv, ActOK, Drives, DrivenState, AloneInv, DownInv, EndInv,
       SingleInv, KeepInv, ThreadInv, Activity, SessionRow, Has, Open, Live, InSession,
       RunsInSession
  <2>6. QED
    BY <1>1, <2>1, <2>2, <2>3, <2>4, <2>5 DEF Creating
<1>2. ASSUME NEW a \in Actor, NEW j \in Job, Assigning(a, j) PROVE InSession(x)'
  <2>1. CASE TakeMove(a, j)
    BY <2>1 DEF TakeMove, ActInv, ActOK, Drives, DrivenState, AloneInv, DownInv, EndInv,
       SingleInv, KeepInv, ThreadInv, Activity, SessionRow, Has, Open, Live, InSession,
       RunsInSession
  <2>2. CASE BusyMove(a, j)
    BY <2>2 DEF BusyMove, Idle, ActInv, ActOK, Drives, DrivenState, AloneInv, DownInv,
       EndInv, SingleInv, KeepInv, ThreadInv, Activity, SessionRow, Has, Open, Live,
       InSession, RunsInSession, Doing
  <2>3. CASE RaiseMove(a, j)
    BY <2>3 DEF RaiseMove, Raises, Idle, ActInv, ActOK, Drives, DrivenState, AloneInv,
       DownInv, EndInv, SingleInv, KeepInv, ThreadInv, Activity, SessionRow, Has, Open,
       Live, InSession, RunsInSession, Doing
  <2>4. CASE WaitMove(a, j)
    BY <2>4 DEF WaitMove, Idle, ActInv, ActOK, Drives, DrivenState, AloneInv, DownInv,
       EndInv, SingleInv, KeepInv, ThreadInv, Activity, SessionRow, Has, Open, Live,
       InSession, RunsInSession, Doing
  <2>5. QED
    BY <1>2, <2>1, <2>2, <2>3, <2>4 DEF Assigning
<1>3. ASSUME NEW a \in Actor, NEW j \in Job, Starting(a, j) PROVE InSession(x)'
  <2>1. CASE EnqueueMove(a, j)
    BY <2>1 DEF EnqueueMove, Appended, Idle, ActInv, ActOK, Drives, DrivenState,
       AloneInv, DownInv, EndInv, SingleInv, KeepInv, ThreadInv, Activity, SessionRow,
       Has, Open, Live, InSession, RunsInSession, Doing
  <2>2. CASE WriteMove(a, j)
    BY <2>2 DEF WriteMove, Idle, ActInv, ActOK, Drives, DrivenState, AloneInv, DownInv,
       EndInv, SingleInv, KeepInv, ThreadInv, Activity, SessionRow, Has, Open, Live,
       InSession, RunsInSession, Doing
  <2>3. CASE RefreshMove(a, j)
    BY <2>3 DEF RefreshMove, ActInv, ActOK, Drives, DrivenState, AloneInv, DownInv,
       EndInv, SingleInv, KeepInv, ThreadInv, Activity, SessionRow, Has, Open, Live,
       InSession, RunsInSession
  <2>4. CASE BeginMove(a, j)
    <3>1. UNCHANGED <<session, owner, thread>>
      BY <2>4 DEF BeginMove
    <3>2. CASE state[x] = "RUNNING"
      BY <2>4, <1>b, <1>c, <3>1, <3>2 DEF BeginMove
    <3>3. CASE state[x] # "RUNNING"
      <4>1. x = j /\ state[j] = "ASSIGNED" /\ act[a].at = "begin" /\ act[a].job = j
        BY <2>4, <3>3 DEF BeginMove
      <4>2. Has(x, thread[x])
        BY <4>1 DEF ThreadInv, ThreadOK, Live
      <4>3. QED
        BY <3>1, <4>2 DEF Has, InSession, Open
    <3>4. QED
      BY <3>2, <3>3
  <2>5. QED
    BY <1>3, <2>1, <2>2, <2>3, <2>4 DEF Starting
<1>4. ASSUME NEW a \in Actor, NEW j \in Job, Requesting(a, j) PROVE InSession(x)'
  <2>1. CASE CreateMove(a, j)
    BY <2>1 DEF CreateMove, ActInv, ActOK, Drives, DrivenState, AloneInv, DownInv,
       EndInv, SingleInv, KeepInv, ThreadInv, Activity, SessionRow, Has, Open, Live,
       InSession, RunsInSession, Doing
  <2>2. CASE RetryMove(a, j)
    BY <2>2 DEF RetryMove, Retries, Waiting, Appended, ActInv, ActOK, Drives,
       DrivenState, AloneInv, DownInv, EndInv, SingleInv, KeepInv, ThreadInv, Activity,
       SessionRow, Has, Open, Live, InSession, RunsInSession, Doing
  <2>3. QED
    BY <1>4, <2>1, <2>2 DEF Requesting
<1>5. ASSUME NEW a \in Actor, NEW o \in Owner, NEW s \in Session, SwitchMove(a, o, s)
      PROVE  InSession(x)'
  <2>1. /\ state[x] = "RUNNING" /\ up = "up" /\ UNCHANGED owner
        /\ task'[x] # "bind" => task[x] # "bind" /\ thread'[x] = thread[x]
    BY <1>5 DEF SwitchMove
  <2>2. Kept(x)
    BY <1>5, SessionsKept
  <2>3. QED
    BY <1>c, <2>1, <2>2
<1>6. ASSUME NEW a \in Actor, NEW s \in Session, ReopenMove(a, s)
      PROVE  InSession(x)'
  <2>1. /\ state[x] = "RUNNING" /\ up = "up" /\ UNCHANGED owner
        /\ task'[x] # "bind" => task[x] # "bind" /\ thread'[x] = thread[x]
    BY <1>6 DEF ReopenMove
  <2>2. Kept(x)
    BY <1>6, NoneIsNoJob, SessionsKept
  <2>3. QED
    BY <1>c, <2>1, <2>2
<1>7. ASSUME NEW i \in Job, NEW j \in Job, SwapMove(i, j) PROVE InSession(x)'
  BY <1>7 DEF SwapMove, Replaces, ActInv, ActOK, Drives, DrivenState, AloneInv, DownInv,
     EndInv, SingleInv, KeepInv, ThreadInv, Activity, SessionRow, Has, Open, Live,
     InSession, RunsInSession
<1>8. ASSUME NEW j \in Job, LookMove(j) PROVE InSession(x)'
  BY <1>8 DEF LookMove, Retries, Waiting, ActInv, ActOK, Drives, DrivenState, AloneInv,
     DownInv, EndInv, SingleInv, KeepInv, ThreadInv, Activity, SessionRow, Has, Open,
     Live, InSession, RunsInSession, Doing
<1>9. ASSUME NEW j \in Job, Working(j) PROVE InSession(x)'
  <2>1. CASE LearnMove(j)
    <3>1. /\ state[x] = "RUNNING" /\ up = "up" /\ UNCHANGED owner
          /\ task'[x] # "bind" => task[x] # "bind" /\ thread'[x] = thread[x]
      BY <2>1 DEF LearnMove
    <3>2. Kept(x)
      BY <2>1, <1>b DEF LearnMove
    <3>3. QED
      BY <1>c, <3>1, <3>2
  <2>2. CASE BindMove(j)
    <3>1. state[x] = "RUNNING" /\ up = "up" /\ UNCHANGED <<owner, thread>>
      BY <2>2 DEF BindMove
    <3>2. CASE x # j
      <4>1. Kept(x)
        BY <2>2, <3>2, SessionsKept
      <4>2. task'[x] = task[x]
        BY <2>2, <3>2 DEF BindMove
      <4>3. QED
        BY <1>c, <3>1, <4>1, <4>2
    <3>3. CASE x = j
      <4>1. PICK s \in Open(owner[x]) : session[s].lock = x
        BY <3>1 DEF RunsInSession
      <4>2. \A t \in Open(owner[x]) : t = s
        BY <4>1 DEF Open, SingleInv
      <4>3. session' = [session EXCEPT ![s] =
               [status |-> "open", owner |-> owner[j], thread |-> thread[j], lock |-> j]]
        BY <2>2, <3>3, <4>1, <4>2 DEF BindMove
      <4>4. /\ session'[s].thread = thread[x] /\ session'[s].lock = x
            /\ session'[s].status = session[s].status /\ session'[s].owner = session[s].owner
        BY <3>3, <4>1, <4>3 DEF Open, SessionRow
      <4>5. QED
        BY <3>1, <4>1, <4>4 DEF InSession, Open
    <3>4. QED
      BY <3>2, <3>3
  <2>3. CASE EndMove(j)
    <3>1. /\ state[x] = "RUNNING" /\ up = "up" /\ UNCHANGED owner
          /\ task'[x] # "bind" => task[x] # "bind" /\ thread'[x] = thread[x]
      BY <2>3 DEF EndMove
    <3>2. Kept(x)
      BY <2>3, <1>b DEF EndMove
    <3>3. QED
      BY <1>c, <3>1, <3>2
  <2>4. CASE UnlockMove(j)
    BY <2>4 DEF UnlockMove, Unlocks, ActInv, ActOK, Drives, DrivenState, AloneInv,
       DownInv, EndInv, SingleInv, KeepInv, ThreadInv, Activity, SessionRow, Has, Open,
       Live, InSession, RunsInSession
  <2>5. CASE UnleaseMove(j)
    BY <2>5 DEF UnleaseMove, ActInv, ActOK, Drives, DrivenState, AloneInv, DownInv,
       EndInv, SingleInv, KeepInv, ThreadInv, Activity, SessionRow, Has, Open, Live,
       InSession, RunsInSession
  <2>6. QED
    BY <1>9, <2>1, <2>2, <2>3, <2>4, <2>5 DEF Working
<1>10. CASE ListMove
  BY <1>10 DEF ListMove, ActInv, ActOK, Drives, DrivenState, AloneInv, DownInv, EndInv,
     SingleInv, KeepInv, ThreadInv, Activity, SessionRow, Has, Open, Live, InSession,
     RunsInSession
<1>11. CASE Restarting
  <2>1. CASE CrashMove
    BY <2>1 DEF CrashMove, Idle, ActInv, ActOK, Drives, DrivenState, AloneInv, DownInv,
       EndInv, SingleInv, KeepInv, ThreadInv, Activity, SessionRow, Has, Open, Live,
       InSession, RunsInSession, Doing
  <2>2. CASE RefuseMove
    BY <2>2 DEF RefuseMove, ActInv, ActOK, Drives, DrivenState, AloneInv, DownInv,
       EndInv, SingleInv, KeepInv, ThreadInv, Activity, SessionRow, Has, Open, Live,
       InSession, RunsInSession
  <2>3. CASE StartMove
    <3>1. state'[x] # "RUNNING"
      BY <2>3 DEF StartMove, Repaired
    <3>2. QED
      BY <3>1
  <2>4. CASE Stuttering
    BY <2>4 DEF Stuttering, ActInv, ActOK, Drives, DrivenState, AloneInv, DownInv,
       EndInv, SingleInv, KeepInv, ThreadInv, Activity, SessionRow, Has, Open, Live,
       InSession, RunsInSession
  <2>5. QED
    BY <1>11, <2>1, <2>2, <2>3, <2>4 DEF Restarting
<1>12. QED
  BY <1>1, <1>2, <1>3, <1>4, <1>5, <1>6, <1>7, <1>8, <1>9, <1>10, <1>11 DEF NextMove

-----------------------------------------------------------------------------
(* Places, and the order of the queue.                                     *)

\* Places stay apart, and known.
LEMMA PlaceStep ==
    ASSUME TypeOK, ActInv, EndInv, PlaceInv, DownInv, NextMove
    PROVE  PlaceInv'
<1> SUFFICES ASSUME stale' = 0 PROVE PlacesOK'
  BY DEF PlaceInv, PlacesOK
<1> /\ act \in [Actor -> Activity] /\ state \in [Job -> JobState] /\ place \in [Job -> Nat]
    /\ due \in Seq(Job) /\ known \subseteq Job /\ tree \in Job \cup {None} /\ Tick \in Actor
  BY DEF TypeOK, RowsTypeOK, MemoryTypeOK, Actor
<1> stale \in Nat
  BY DEF TypeOK, HistoryTypeOK
<1>a. \A x \in Actor : act[x].at = "write" => act[x].job \in Job
  BY DEF ActInv, ActOK
<1>b. stale = 0 => PlacesOK
  BY DEF PlaceInv, PlacesOK
<1>c. ASSUME stale = 0, UNCHANGED <<place, known>>, \A i \in Job : Live(i)' => Live(i),
             \A x \in Actor : Writes(x)' => /\ Writes(x) /\ act'[x].job = act[x].job
                                           /\ act'[x].place = act[x].place
      PROVE  PlacesOK'
  BY <1>b, <1>c DEF PlacesOK
<1> USE DEF Live, Writes
<1>1. ASSUME NEW a \in Actor, NEW j \in Job, Creating(a, j) PROVE PlacesOK'
  <2>1. CASE OpenMove(a, j)
    BY <2>1 DEF OpenMove, Open, SessionFree, Keeps, ActInv, ActOK, Drives, DrivenState,
       DownInv, PlaceInv, Waiting, PlacesOK, Activity
  <2>2. CASE LockMove(a, j)
    <3>1. stale = 0 /\ UNCHANGED <<place, known>>
      BY <2>2 DEF LockMove, Locks, FindsBusy, Doing
    <3>2. \A i \in Job : Live(i)' => Live(i)
      BY <2>2 DEF LockMove, Locks, FindsBusy, Doing
    <3>3. \A x \in Actor : act'[x].at = "write" => act'[x] = act[x]
      <4>1. act'[a].at # "write"
        BY <2>2 DEF LockMove, Locks, FindsBusy, Idle, Activity, Doing
      <4>2. \A x \in Actor : x # a => act'[x] = act[x]
        BY <2>2 DEF LockMove, Locks, FindsBusy, Doing
      <4>3. QED
        BY <4>1, <4>2
    <3>4. \A x \in Actor : Writes(x)' => /\ Writes(x) /\ act'[x].job = act[x].job
                                         /\ act'[x].place = act[x].place
      BY <1>a, <3>2, <3>3
    <3>5. QED
      BY <1>c, <3>1, <3>2, <3>4
  <2>3. CASE AddMove(a, j)
    <3>1. stale = 0 /\ UNCHANGED <<place, known>>
      BY <2>3 DEF AddMove, Doing
    <3>2. \A i \in Job : Live(i)' => Live(i)
      BY <2>3 DEF AddMove, ActInv, ActOK, Drives, DrivenState, Doing
    <3>3. \A x \in Actor : act'[x].at = "write" => act'[x] = act[x]
      <4>1. act'[a].at # "write"
        BY <2>3 DEF AddMove, Idle, Activity, Doing
      <4>2. \A x \in Actor : x # a => act'[x] = act[x]
        BY <2>3 DEF AddMove, Doing
      <4>3. QED
        BY <4>1, <4>2
    <3>4. \A x \in Actor : Writes(x)' => /\ Writes(x) /\ act'[x].job = act[x].job
                                         /\ act'[x].place = act[x].place
      BY <1>a, <3>2, <3>3
    <3>5. QED
      BY <1>c, <3>1, <3>2, <3>4
  <2>4. CASE GiveMove(a, j)
    BY <2>4 DEF GiveMove, Unlocks, ActInv, ActOK, Drives, DrivenState, DownInv,
       PlaceInv, Waiting, PlacesOK, Activity
  <2>5. CASE RollMove(a, j)
    BY <2>5 DEF RollMove, ActInv, ActOK, Drives, DrivenState, DownInv, PlaceInv,
       Waiting, PlacesOK, Activity
  <2>6. QED
    BY <1>1, <2>1, <2>2, <2>3, <2>4, <2>5 DEF Creating
<1>2. ASSUME NEW a \in Actor, NEW j \in Job, Assigning(a, j) PROVE PlacesOK'
  <2>1. CASE TakeMove(a, j)
    <3>1. stale = 0 /\ UNCHANGED <<place, known>>
      BY <2>1 DEF TakeMove
    <3>2. \A i \in Job : Live(i)' => Live(i)
      BY <2>1 DEF TakeMove, Activity
    <3>3. \A x \in Actor : act'[x].at = "write" =>
             act[x].at = "write" /\ act'[x].job = act[x].job /\ act'[x].place = act[x].place
      BY <2>1 DEF TakeMove, Idle, Activity, Doing
    <3>4. \A x \in Actor : Writes(x)' => /\ Writes(x) /\ act'[x].job = act[x].job
                                         /\ act'[x].place = act[x].place
      BY <1>a, <3>2, <3>3
    <3>5. QED
      BY <1>c, <3>1, <3>2, <3>4
  <2>2. CASE BusyMove(a, j)
    <3>1. stale = 0 /\ UNCHANGED <<place, known>>
      BY <2>2 DEF BusyMove
    <3>2. \A i \in Job : Live(i)' => Live(i)
      BY <2>2 DEF BusyMove
    <3>3. \A x \in Actor : act'[x].at = "write" => act'[x] = act[x]
      <4>1. act'[a].at # "write"
        BY <2>2 DEF BusyMove, Idle, Activity, Doing
      <4>2. \A x \in Actor : x # a => act'[x] = act[x]
        BY <2>2 DEF BusyMove
      <4>3. QED
        BY <4>1, <4>2
    <3>4. \A x \in Actor : Writes(x)' => /\ Writes(x) /\ act'[x].job = act[x].job
                                         /\ act'[x].place = act[x].place
      BY <1>a, <3>2, <3>3
    <3>5. QED
      BY <1>c, <3>1, <3>2, <3>4
  <2>3. CASE RaiseMove(a, j)
    BY <2>3 DEF RaiseMove, Raises, Idle, ActInv, ActOK, Drives, DrivenState, DownInv,
       PlaceInv, Waiting, PlacesOK, Activity, Doing
  <2>4. CASE WaitMove(a, j)
    <3>1. /\ stale = 0 /\ UNCHANGED <<place, known>> /\ act[a].job = j
          /\ \A i \in Job : Live(i)' => Live(i)
          /\ \A x \in Actor : x # a => act'[x] = act[x]
      BY <2>4 DEF WaitMove, Doing
    <3>2. act'[a].at = "write" => /\ act'[a].job = j /\ place[j] # 0
                                 /\ act'[a].place = place[j]
      BY <2>4 DEF WaitMove, Idle, Activity, Doing
    <3>3. \A x \in Actor :
             Writes(x)' => place'[act'[x].job] = act'[x].place /\ act'[x].place # 0
      BY <1>a, <1>b, <3>1, <3>2 DEF PlacesOK
    <3>4. QED
      BY <1>b, <3>1, <3>3 DEF PlacesOK
  <2>5. QED
    BY <1>2, <2>1, <2>2, <2>3, <2>4 DEF Assigning
<1>3. ASSUME NEW a \in Actor, NEW j \in Job, Starting(a, j) PROVE PlacesOK'
  <2>1. CASE EnqueueMove(a, j)
    <3>1. /\ stale = 0 /\ known' = known \cup {j} /\ UNCHANGED state
          /\ \A x \in Actor : act'[x].at = "write" => x # a /\ act'[x] = act[x]
          /\ place' = place \/ (place[j] = 0 /\ Appended(j))
      BY <2>1 DEF EnqueueMove, Idle, Activity, Doing
    <3>2. CASE place' = place
      BY <1>a, <1>b, <3>1, <3>2 DEF PlacesOK
    <3>3. CASE place[j] = 0 /\ Appended(j)
      <4>1. PICK p \in Nat \ {0} :
               (\A i \in Job : place[i] < p) /\ place' = [place EXCEPT ![j] = p]
        BY <3>3 DEF Appended
      <4>2. \A i \in Job : place[i] # p
        BY <4>1
      <4>3. /\ place'[j] = p /\ p # 0 /\ \A i \in Job : i # j => place'[i] = place[i]
        BY <4>1
      <4>4. \A x \in Actor : Writes(x) => act[x].job # j
        BY <1>b, <3>1, <3>3 DEF PlacesOK
      <4>5. \A i, k \in Job :
               i # k /\ Live(i) /\ Live(k) /\ place'[i] # 0 => place'[i] # place'[k]
        BY <1>b, <3>1, <4>2, <4>3 DEF PlacesOK
      <4>6. \A x \in Actor :
               Writes(x)' => place'[act'[x].job] = act'[x].place /\ act'[x].place # 0
        BY <1>a, <1>b, <3>1, <4>3, <4>4 DEF PlacesOK
      <4>7. \A i \in Job : Live(i) /\ place'[i] # 0 => i \in known'
        BY <1>b, <3>1, <4>3 DEF PlacesOK
      <4>8. QED
        BY <3>1, <4>5, <4>6, <4>7 DEF PlacesOK
    <3>4. QED
      BY <3>1, <3>2, <3>3
  <2>2. CASE WriteMove(a, j)
    <3>1. /\ stale = 0 /\ known' = known \cup {j} /\ UNCHANGED state
          /\ \A x \in Actor : act'[x].at = "write" => x # a /\ act'[x] = act[x]
          /\ \A i \in Job : i # j => place'[i] = place[i]
          /\ place'[j] = act[a].place /\ act[a].at = "write" /\ act[a].job = j
      BY <2>2 DEF WriteMove, Idle, Activity, Doing
    <3>2. Live(j) => place'[j] = place[j] /\ place[j] # 0
      BY <1>b, <3>1 DEF PlacesOK
    <3>3. \A i \in Job : Live(i) => place'[i] = place[i]
      BY <3>1, <3>2
    <3>4. \A x \in Actor :
             Writes(x)' => place'[act'[x].job] = act'[x].place /\ act'[x].place # 0
      BY <1>a, <1>b, <3>1, <3>3 DEF PlacesOK
    <3>5. QED
      BY <1>b, <3>1, <3>3, <3>4 DEF PlacesOK
  <2>3. CASE RefreshMove(a, j)
    BY <2>3 DEF RefreshMove, ActInv, ActOK, Drives, DrivenState, DownInv, PlaceInv,
       Waiting, PlacesOK, Activity
  <2>4. CASE BeginMove(a, j)
    <3>1. /\ stale = 0 /\ known \subseteq known'
          /\ \A i \in Job : Live(i)' => Live(i)
          /\ \A i \in Job : i # j => place'[i] = place[i]
          /\ \/ place'[j] = 0 /\ \A x \in Actor : act[x].at = "write" => act[x].job # j
             \/ place'[j] = place[j]
      BY <2>4 DEF BeginMove, Leaves, Replaces
    <3>2. act' = [act EXCEPT ![a] = Idle]
      BY <2>4 DEF BeginMove, Raises
    <3>3. \A x \in Actor : act'[x].at = "write" => x # a /\ act'[x] = act[x]
      BY <3>2 DEF Idle, Activity, Doing
    <3>4. \A x \in Actor :
             Writes(x)' => place'[act'[x].job] = act'[x].place /\ act'[x].place # 0
      BY <1>a, <1>b, <3>1, <3>3 DEF PlacesOK
    <3>5. QED
      BY <1>b, <3>1, <3>4 DEF PlacesOK
  <2>5. QED
    BY <1>3, <2>1, <2>2, <2>3, <2>4 DEF Starting
<1>4. ASSUME NEW a \in Actor, NEW j \in Job, Requesting(a, j) PROVE PlacesOK'
  <2>1. CASE CreateMove(a, j)
    BY <2>1 DEF CreateMove, ActInv, ActOK, Drives, DrivenState, DownInv, PlaceInv,
       Waiting, PlacesOK, Activity, Doing
  <2>2. CASE RetryMove(a, j)
    <3>1. /\ stale = 0 /\ known' = known \cup {j} /\ UNCHANGED state /\ Live(j)
          /\ \A x \in Actor : act'[x].at = "write" => x # a /\ act'[x] = act[x]
          /\ place' = place \/ (j \notin known /\ Appended(j))
      BY <2>2 DEF RetryMove, Retries, Waiting, Activity, Doing
    <3>2. CASE place' = place
      BY <1>a, <1>b, <3>1, <3>2 DEF PlacesOK
    <3>3. CASE j \notin known /\ Appended(j)
      <4>1. PICK p \in Nat \ {0} :
               (\A i \in Job : place[i] < p) /\ place' = [place EXCEPT ![j] = p]
        BY <3>3 DEF Appended
      <4>2. \A i \in Job : place[i] # p
        BY <4>1
      <4>3. /\ place'[j] = p /\ p # 0 /\ \A i \in Job : i # j => place'[i] = place[i]
        BY <4>1
      <4>4. \A x \in Actor : Writes(x) => act[x].job # j
        BY <1>b, <3>1, <3>3 DEF PlacesOK
      <4>5. \A i, k \in Job :
               i # k /\ Live(i) /\ Live(k) /\ place'[i] # 0 => place'[i] # place'[k]
        BY <1>b, <3>1, <4>2, <4>3 DEF PlacesOK
      <4>6. \A x \in Actor :
               Writes(x)' => place'[act'[x].job] = act'[x].place /\ act'[x].place # 0
        BY <1>a, <1>b, <3>1, <4>3, <4>4 DEF PlacesOK
      <4>7. \A i \in Job : Live(i) /\ place'[i] # 0 => i \in known'
        BY <1>b, <3>1, <4>3 DEF PlacesOK
      <4>8. QED
        BY <3>1, <4>5, <4>6, <4>7 DEF PlacesOK
    <3>4. QED
      BY <3>1, <3>2, <3>3
  <2>3. QED
    BY <1>4, <2>1, <2>2 DEF Requesting
<1>5. ASSUME NEW a \in Actor, NEW o \in Owner, NEW s \in Session, SwitchMove(a, o, s)
      PROVE  PlacesOK'
  BY <1>5 DEF SwitchMove, Open, SessionFree, ActInv, ActOK, Drives, DrivenState,
     DownInv, PlaceInv, Waiting, PlacesOK, Activity
<1>6. ASSUME NEW a \in Actor, NEW s \in Session, ReopenMove(a, s) PROVE PlacesOK'
  BY <1>6 DEF ReopenMove, Idle, ActInv, ActOK, Drives, DrivenState, DownInv, PlaceInv,
     Waiting, PlacesOK, Activity, Doing
<1>7. ASSUME NEW i \in Job, NEW j \in Job, SwapMove(i, j) PROVE PlacesOK'
  <2>1. /\ stale = 0 /\ i # j /\ UNCHANGED <<state, act, known>>
        /\ place[i] # 0 /\ place[j] # 0 /\ i \in known /\ j \in known /\ Live(i) /\ Live(j)
        /\ \A x \in Actor : act[x].at = "write" => act[x].job # i /\ act[x].job # j
    BY <1>7 DEF SwapMove, Replaces
  <2>2. /\ place'[i] = place[j] /\ place'[j] = place[i]
        /\ \A k \in Job : k # i /\ k # j => place'[k] = place[k]
    BY <1>7 DEF SwapMove
  <2>3. QED
    BY <1>a, <1>b, <2>1, <2>2 DEF PlacesOK
<1>8. ASSUME NEW j \in Job, LookMove(j) PROVE PlacesOK'
  <2>1. /\ stale = 0 /\ UNCHANGED state
        /\ \A x \in Actor : act'[x].at = "write" => act'[x] = act[x]
        /\ \/ UNCHANGED <<place, known>>
           \/ /\ ~Live(j) /\ known' = known \ {j}
              /\ \A i \in Job : i # j => place'[i] = place[i]
    BY <1>8 DEF LookMove, Retries, Waiting, Activity, Doing
  <2>2. QED
    BY <1>a, <1>b, <2>1 DEF PlacesOK
<1>9. ASSUME NEW j \in Job, Working(j) PROVE PlacesOK'
  <2>1. CASE LearnMove(j)
    BY <2>1 DEF LearnMove, ActInv, ActOK, Drives, DrivenState, DownInv, PlaceInv,
       Waiting, PlacesOK, Activity
  <2>2. CASE BindMove(j)
    BY <2>2 DEF BindMove, Open, SessionFree, ActInv, ActOK, Drives, DrivenState,
       DownInv, PlaceInv, Waiting, PlacesOK, Activity
  <2>3. CASE EndMove(j)
    BY <2>3 DEF EndMove, ActInv, ActOK, Drives, DrivenState, DownInv, PlaceInv, Waiting,
       PlacesOK, Activity
  <2>4. CASE UnlockMove(j)
    BY <2>4 DEF UnlockMove, Unlocks, ActInv, ActOK, Drives, DrivenState, DownInv,
       PlaceInv, Waiting, PlacesOK, Activity
  <2>5. CASE UnleaseMove(j)
    <3>1. /\ stale = 0 /\ known' = known \ {j} /\ ~Live(j) /\ UNCHANGED <<state, act>>
          /\ \A i \in Job : i # j => place'[i] = place[i]
      BY <2>5 DEF UnleaseMove, EndInv
    <3>2. QED
      BY <1>a, <1>b, <3>1 DEF PlacesOK
  <2>6. QED
    BY <1>9, <2>1, <2>2, <2>3, <2>4, <2>5 DEF Working
<1>10. CASE ListMove
  BY <1>10 DEF ListMove, ActInv, ActOK, Drives, DrivenState, DownInv, PlaceInv, Waiting,
     PlacesOK, Activity
<1>11. CASE Restarting
  <2>1. CASE CrashMove
    BY <2>1 DEF CrashMove, Idle, ActInv, ActOK, Drives, DrivenState, DownInv, PlaceInv,
       Waiting, PlacesOK, Activity, Doing
  <2>2. CASE RefuseMove
    BY <2>2 DEF RefuseMove, ActInv, ActOK, Drives, DrivenState, DownInv, PlaceInv,
       Waiting, PlacesOK, Activity
  <2>3. CASE StartMove
    <3>0. stale = 0 /\ \A x \in Actor : act'[x].at = "idle"
      BY <2>3 DEF StartMove, DownInv, Idle, Doing
    <3>1. /\ \A i \in Job : Live(i)' => Live(i)
          /\ known' = known \cup {i \in Job : state[i] \notin {"none", "ended"}}
      BY <2>3 DEF StartMove, Repaired
    <3>2. /\ place' \in [Job -> Nat]
          /\ \A i \in Job : Placed(i) => place'[i] = place[i]
          /\ \A i, k \in Job : ~Placed(i) => place[k] < place'[i]
          /\ \A i, k \in Job : ~Placed(i) /\ ~Placed(k) /\ i # k => place'[i] # place'[k]
      BY <2>3 DEF StartMove
    <3>3. ASSUME NEW i \in Job, NEW k \in Job, i # k, Live(i)', Live(k)', place'[i] # 0
          PROVE  place'[i] # place'[k]
      <4>1. CASE Placed(i) /\ Placed(k)
        BY <1>b, <3>0, <3>1, <3>2, <3>3, <4>1 DEF PlacesOK
      <4>2. CASE Placed(i) /\ ~Placed(k)
        BY <3>2, <4>2
      <4>3. CASE ~Placed(i) /\ Placed(k)
        BY <3>2, <4>3
      <4>4. CASE ~Placed(i) /\ ~Placed(k)
        BY <3>2, <3>3, <4>4
      <4>5. QED
        BY <4>1, <4>2, <4>3, <4>4
    <3>4. ASSUME NEW i \in Job, Live(i)', place'[i] # 0 PROVE i \in known'
      <4>1. CASE Placed(i)
        BY <1>b, <3>0, <3>1, <3>2, <3>4, <4>1 DEF PlacesOK
      <4>2. CASE ~Placed(i)
        BY <3>0, <3>1, <4>2 DEF Placed
      <4>3. QED
        BY <4>1, <4>2
    <3>5. QED
      BY <3>0, <3>1, <3>3, <3>4 DEF PlacesOK
  <2>4. CASE Stuttering
    BY <2>4 DEF Stuttering, ActInv, ActOK, Drives, DrivenState, DownInv, PlaceInv,
       Waiting, PlacesOK, Activity
  <2>5. QED
    BY <1>11, <2>1, <2>2, <2>3, <2>4 DEF Restarting
<1>12. QED
  BY <1>1, <1>2, <1>3, <1>4, <1>5, <1>6, <1>7, <1>8, <1>9, <1>10, <1>11 DEF NextMove

\* A Job that is to wait does not have the tree.
LEMMA TreeStep ==
    ASSUME TypeOK, ActInv, AloneInv, DownInv, TreeInv, NextMove
    PROVE  TreeInv'
<1> act \in [Actor -> Activity] /\ state \in [Job -> JobState] /\ tree \in Job \cup {None}
  BY DEF TypeOK, RowsTypeOK, MemoryTypeOK
<1>a. \A a \in Actor : ActOK(a)
  BY DEF ActInv
<1>b. \A i \in Job : i # None
  BY NoneIsNoJob
<1> USE DEF Live
<1>1. ASSUME NEW a \in Actor, NEW j \in Job, Creating(a, j) PROVE TreeInv'
  <2>1. CASE OpenMove(a, j)
    BY <2>1 DEF OpenMove, Open, SessionFree, Keeps, TypeOK, RowsTypeOK, MemoryTypeOK,
       Activity, ActInv, ActOK, Drives, DrivenState, AloneInv, DownInv, Waiting, TreeInv
  <2>2. CASE LockMove(a, j)
    <3>1. /\ \A i \in Job :
                state'[i] = state[i] \/ state'[i] \notin {"none", "QUEUED", "WAITING_LEASE"}
          /\ \A x \in Actor :
                act'[x].at = "wait" => act[x].at = "wait" /\ act'[x].job = act[x].job
          /\ \A i \in Job : Live(i)' => Live(i)
          /\ tree' = tree \/ tree' = None
      BY <2>2 DEF LockMove, Locks, FindsBusy, Activity, Doing
    <3>2. \A x \in Actor : act[x].at = "wait" => act[x].job \in Job
      BY <1>a DEF ActOK
    <3>3. QED
      BY <1>b, <3>1, <3>2 DEF TreeInv
  <2>3. CASE AddMove(a, j)
    <3>0. /\ act[a].at = "row" /\ act[a].job = j /\ act[a].from = "none"
          /\ state[j] \in {"none", "ended"}
      BY <2>3, <1>a DEF AddMove, ActOK, Drives, DrivenState, Doing
    <3>1. /\ state' = [state EXCEPT ![j] = "QUEUED"] /\ tree' = tree /\ state[j] = "none"
          /\ act'[a].job = j
          /\ \A x \in Actor : x # a => act'[x] = act[x]
      BY <2>3, <1>a DEF AddMove, ActOK, Drives, DrivenState, Doing
    <3>2. \A x \in Actor : act[x].at = "wait" => act[x].job \in Job
      BY <1>a DEF ActOK
    <3>3. tree # j
      BY <3>1 DEF TreeInv
    <3>4. QED
      BY <1>b, <3>0, <3>1, <3>2, <3>3 DEF TreeInv
  <2>4. CASE GiveMove(a, j)
    BY <2>4 DEF GiveMove, Unlocks, TypeOK, RowsTypeOK, MemoryTypeOK, Activity, ActInv,
       ActOK, Drives, DrivenState, AloneInv, DownInv, Waiting, TreeInv
  <2>5. CASE RollMove(a, j)
    <3>1. /\ state' = state /\ tree' # j /\ (tree' = tree \/ tree' = None) /\ act[a].job = j
          /\ act'[a].job = act[a].job /\ act[a].at = "rollback"
          /\ \A x \in Actor : x # a => act'[x] = act[x]
      BY <2>5 DEF RollMove, Activity
    <3>2. \A x \in Actor : act[x].at = "wait" => act[x].job \in Job
      BY <1>a DEF ActOK
    <3>3. QED
      BY <1>b, <3>1, <3>2 DEF TreeInv
  <2>6. QED
    BY <1>1, <2>1, <2>2, <2>3, <2>4, <2>5 DEF Creating
<1>2. ASSUME NEW a \in Actor, NEW j \in Job, Assigning(a, j) PROVE TreeInv'
  <2>1. CASE TakeMove(a, j)
    <3>1. /\ state' = [state EXCEPT ![j] = "ASSIGNED"] /\ tree' = j
          /\ act[a].at = "assign" /\ act[a].job = j /\ state[j] = act[a].from
          /\ tree \in {None, j}
          /\ \A x \in Actor : act'[x].at = "wait" => x # a /\ act'[x] = act[x]
      BY <2>1 DEF TakeMove, Activity
    <3>0. Live(j)
      BY <3>1 DEF Activity
    <3>2. \A x \in Actor : x # a /\ act[x].at = "wait" => ~(act[x].job = j /\ Live(j))
      <4>1. ASSUME NEW x \in Actor, x # a, act[x].at = "wait", act[x].job = j, Live(j)
            PROVE  FALSE
        <5>1. Drives(x) /\ state[j] \in {"QUEUED", "ASSIGNED"}
          BY <1>a, <4>1 DEF ActOK, Drives, DrivenState
        <5>2. act[a].from = "QUEUED"
          BY <3>1, <5>1 DEF Activity
        <5>3. Drives(a)
          BY <3>1, <5>2 DEF Drives
        <5>4. QED
          BY <3>1, <4>1, <5>1, <5>3 DEF AloneInv
      <4>2. QED
        BY <4>1
    <3>3. QED
      BY <3>0, <3>1, <3>2 DEF TreeInv
  <2>2. CASE BusyMove(a, j)
    <3>1. /\ \A i \in Job :
                state'[i] = state[i] \/ state'[i] \notin {"none", "QUEUED", "WAITING_LEASE"}
          /\ \A x \in Actor :
                act'[x].at = "wait" => act[x].at = "wait" /\ act'[x].job = act[x].job
          /\ \A i \in Job : Live(i)' => Live(i)
          /\ tree' = tree \/ tree' = None
      BY <2>2 DEF BusyMove, Idle, Activity, Doing
    <3>2. \A x \in Actor : act[x].at = "wait" => act[x].job \in Job
      BY <1>a DEF ActOK
    <3>3. QED
      BY <1>b, <3>1, <3>2 DEF TreeInv
  <2>3. CASE RaiseMove(a, j)
    BY <2>3 DEF RaiseMove, Raises, Idle, TypeOK, RowsTypeOK, MemoryTypeOK, Activity,
       ActInv, ActOK, Drives, DrivenState, AloneInv, DownInv, Waiting, TreeInv, Doing
  <2>4. CASE WaitMove(a, j)
    <3>1. /\ state' = [state EXCEPT ![j] = "WAITING_LEASE"] /\ tree' = tree
          /\ act[a].at = "wait" /\ act[a].job = j /\ state[j] \in {"QUEUED", "ASSIGNED"}
          /\ \A x \in Actor : act'[x].at = "wait" => x # a /\ act'[x] = act[x]
      BY <2>4 DEF WaitMove, Idle, Activity, Doing
    <3>2. tree # j
      BY <3>1 DEF TreeInv
    <3>3. \A x \in Actor : act[x].at = "wait" => act[x].job \in Job
      BY <1>a DEF ActOK
    <3>4. ASSUME NEW x \in Actor, act'[x].at = "wait", Live(act[x].job)'
          PROVE  tree # act'[x].job
      <4>1. act'[x] = act[x] /\ act[x].at = "wait" /\ act[x].job \in Job
        BY <3>1, <3>3, <3>4
      <4>2. act[x].job = j \/ Live(act[x].job)
        BY <3>1, <3>4, <4>1
      <4>3. QED
        BY <3>2, <4>1, <4>2 DEF TreeInv
    <3>5. QED
      BY <3>1, <3>2, <3>4 DEF TreeInv
  <2>5. QED
    BY <1>2, <2>1, <2>2, <2>3, <2>4 DEF Assigning
<1>3. ASSUME NEW a \in Actor, NEW j \in Job, Starting(a, j) PROVE TreeInv'
  <2>1. CASE EnqueueMove(a, j)
    BY <2>1 DEF EnqueueMove, Appended, Idle, TypeOK, RowsTypeOK, MemoryTypeOK, Activity,
       ActInv, ActOK, Drives, DrivenState, AloneInv, DownInv, Waiting, TreeInv, Doing
  <2>2. CASE WriteMove(a, j)
    BY <2>2 DEF WriteMove, Idle, TypeOK, RowsTypeOK, MemoryTypeOK, Activity, ActInv,
       ActOK, Drives, DrivenState, AloneInv, DownInv, Waiting, TreeInv, Doing
  <2>3. CASE RefreshMove(a, j)
    BY <2>3 DEF RefreshMove, TypeOK, RowsTypeOK, MemoryTypeOK, Activity, ActInv, ActOK,
       Drives, DrivenState, AloneInv, DownInv, Waiting, TreeInv
  <2>4. CASE BeginMove(a, j)
    <3>0. act' = [act EXCEPT ![a] = Idle]
      BY <2>4 DEF BeginMove, Raises
    <3>1. /\ \A i \in Job :
                state'[i] = state[i] \/ state'[i] \notin {"none", "QUEUED", "WAITING_LEASE"}
          /\ \A x \in Actor :
                act'[x].at = "wait" => act[x].at = "wait" /\ act'[x].job = act[x].job
          /\ \A i \in Job : Live(i)' => Live(i)
          /\ tree' = tree \/ tree' = None
      BY <2>4, <3>0 DEF BeginMove, Idle, Activity, Doing
    <3>2. \A x \in Actor : act[x].at = "wait" => act[x].job \in Job
      BY <1>a DEF ActOK
    <3>3. QED
      BY <1>b, <3>1, <3>2 DEF TreeInv
  <2>5. QED
    BY <1>3, <2>1, <2>2, <2>3, <2>4 DEF Starting
<1>4. ASSUME NEW a \in Actor, NEW j \in Job, Requesting(a, j) PROVE TreeInv'
  <2>1. CASE CreateMove(a, j)
    BY <2>1 DEF CreateMove, TypeOK, RowsTypeOK, MemoryTypeOK, Activity, ActInv, ActOK,
       Drives, DrivenState, AloneInv, DownInv, Waiting, TreeInv, Doing
  <2>2. CASE RetryMove(a, j)
    BY <2>2 DEF RetryMove, Retries, Waiting, Appended, TypeOK, RowsTypeOK, MemoryTypeOK,
       Activity, ActInv, ActOK, Drives, DrivenState, AloneInv, DownInv, TreeInv, Doing
  <2>3. QED
    BY <1>4, <2>1, <2>2 DEF Requesting
<1>5. ASSUME NEW a \in Actor, NEW o \in Owner, NEW s \in Session, SwitchMove(a, o, s)
      PROVE  TreeInv'
  BY <1>5 DEF SwitchMove, Open, SessionFree, TypeOK, RowsTypeOK, MemoryTypeOK, Activity,
     ActInv, ActOK, Drives, DrivenState, AloneInv, DownInv, Waiting, TreeInv
<1>6. ASSUME NEW a \in Actor, NEW s \in Session, ReopenMove(a, s) PROVE TreeInv'
  BY <1>6 DEF ReopenMove, Idle, TypeOK, RowsTypeOK, MemoryTypeOK, Activity, ActInv,
     ActOK, Drives, DrivenState, AloneInv, DownInv, Waiting, TreeInv, Doing
<1>7. ASSUME NEW i \in Job, NEW j \in Job, SwapMove(i, j) PROVE TreeInv'
  BY <1>7 DEF SwapMove, Replaces, TypeOK, RowsTypeOK, MemoryTypeOK, Activity, ActInv,
     ActOK, Drives, DrivenState, AloneInv, DownInv, Waiting, TreeInv
<1>8. ASSUME NEW j \in Job, LookMove(j) PROVE TreeInv'
  BY <1>8 DEF LookMove, Retries, Waiting, TypeOK, RowsTypeOK, MemoryTypeOK, Activity,
     ActInv, ActOK, Drives, DrivenState, AloneInv, DownInv, TreeInv, Doing
<1>9. ASSUME NEW j \in Job, Working(j) PROVE TreeInv'
  <2>1. CASE LearnMove(j) \/ BindMove(j)
    BY <2>1 DEF LearnMove, BindMove, Open, SessionFree, TypeOK, RowsTypeOK,
       MemoryTypeOK, Activity, ActInv, ActOK, Drives, DrivenState, AloneInv, DownInv,
       Waiting, TreeInv
  <2>2. CASE EndMove(j)
    BY <2>2 DEF EndMove, TypeOK, RowsTypeOK, MemoryTypeOK, Activity, ActInv, ActOK,
       Drives, DrivenState, AloneInv, DownInv, Waiting, TreeInv
  <2>3. CASE UnlockMove(j)
    BY <2>3 DEF UnlockMove, Unlocks, TypeOK, RowsTypeOK, MemoryTypeOK, Activity, ActInv,
       ActOK, Drives, DrivenState, AloneInv, DownInv, Waiting, TreeInv
  <2>4. CASE UnleaseMove(j)
    <3>1. /\ \A i \in Job :
                state'[i] = state[i] \/ state'[i] \notin {"none", "QUEUED", "WAITING_LEASE"}
          /\ \A x \in Actor :
                act'[x].at = "wait" => act[x].at = "wait" /\ act'[x].job = act[x].job
          /\ \A i \in Job : Live(i)' => Live(i)
          /\ tree' = tree \/ tree' = None
      BY <2>4 DEF UnleaseMove, Activity
    <3>2. \A x \in Actor : act[x].at = "wait" => act[x].job \in Job
      BY <1>a DEF ActOK
    <3>3. QED
      BY <1>b, <3>1, <3>2 DEF TreeInv
  <2>5. QED
    BY <1>9, <2>1, <2>2, <2>3, <2>4 DEF Working
<1>10. CASE ListMove
  BY <1>10 DEF ListMove, TypeOK, RowsTypeOK, MemoryTypeOK, Activity, ActInv, ActOK,
     Drives, DrivenState, AloneInv, DownInv, Waiting, TreeInv
<1>11. CASE Restarting
  <2>1. CASE CrashMove \/ RefuseMove
    BY <2>1 DEF CrashMove, Idle, RefuseMove, TypeOK, RowsTypeOK, MemoryTypeOK, Activity,
       ActInv, ActOK, Drives, DrivenState, AloneInv, DownInv, Waiting, TreeInv, Doing
  <2>2. CASE StartMove
    <3>1. \A x \in Actor : act'[x].at # "wait"
      BY <2>2 DEF StartMove, DownInv, Idle, Doing
    <3>2. \A i \in Job :
             state'[i] \in {"none", "QUEUED", "WAITING_LEASE"} => state'[i] = state[i]
      BY <2>2 DEF StartMove, Repaired
    <3>3. tree' = None \/ state[tree'] \in {"ASSIGNED", "RUNNING", "WAITING_HOST"}
      BY <2>2 DEF StartMove
    <3>4. QED
      BY <1>b, <3>1, <3>2, <3>3 DEF TreeInv
  <2>3. CASE Stuttering
    BY <2>3 DEF Stuttering, TypeOK, RowsTypeOK, MemoryTypeOK, Activity, ActInv, ActOK,
       Drives, DrivenState, AloneInv, DownInv, Waiting, TreeInv
  <2>4. QED
    BY <1>11, <2>1, <2>2, <2>3 DEF Restarting
<1>12. QED
  BY <1>1, <1>2, <1>3, <1>4, <1>5, <1>6, <1>7, <1>8, <1>9, <1>10, <1>11 DEF NextMove

\* The tick goes on with Jobs that wait.
LEMMA TickStep ==
    ASSUME TypeOK, ActInv, DownInv, TickInv, NextMove
    PROVE  TickInv'
<1> /\ act \in [Actor -> Activity] /\ state \in [Job -> JobState] /\ place \in [Job -> Nat]
    /\ due \in Seq(Job) /\ known \subseteq Job /\ tree \in Job \cup {None} /\ Tick \in Actor
  BY DEF TypeOK, RowsTypeOK, MemoryTypeOK, Actor
<1>1. ASSUME NEW a \in Actor, NEW j \in Job, Creating(a, j) PROVE TickInv'
  <2>1. CASE OpenMove(a, j)
    BY <2>1 DEF OpenMove, Open, SessionFree, Keeps, TickInv, ActInv, ActOK, Waiting,
       Activity, DownInv
  <2>2. CASE LockMove(a, j)
    BY <2>2 DEF LockMove, Locks, FindsBusy, Open, SessionFree, Keeps, TickInv, ActInv,
       ActOK, Waiting, Activity, DownInv, Doing
  <2>3. CASE AddMove(a, j)
    BY <2>3 DEF AddMove, Holds, Open, TickInv, ActInv, ActOK, Waiting, Activity,
       DownInv, Doing
  <2>4. CASE GiveMove(a, j)
    BY <2>4 DEF GiveMove, Unlocks, TickInv, ActInv, ActOK, Waiting, Activity, DownInv
  <2>5. CASE RollMove(a, j)
    BY <2>5 DEF RollMove, TickInv, ActInv, ActOK, Waiting, Activity, DownInv
  <2>6. QED
    BY <1>1, <2>1, <2>2, <2>3, <2>4, <2>5 DEF Creating
<1>2. ASSUME NEW a \in Actor, NEW j \in Job, Assigning(a, j) PROVE TickInv'
  <2>1. CASE TakeMove(a, j)
    <3>1. /\ act[a].at # "idle" /\ \A x \in Actor : x # a => act'[x] = act[x]
          /\ act'[a].at = "idle" \/ act'[a].from = act[a].from
      BY <2>1 DEF TakeMove, Activity
    <3>2. QED
      BY <3>1 DEF TickInv
  <2>2. CASE BusyMove(a, j)
    BY <2>2 DEF BusyMove, Idle, TickInv, ActInv, ActOK, Waiting, Activity, DownInv,
       Doing
  <2>3. CASE RaiseMove(a, j)
    BY <2>3 DEF RaiseMove, Raises, Idle, TickInv, ActInv, ActOK, Waiting, Activity,
       DownInv, Doing
  <2>4. CASE WaitMove(a, j)
    <3>1. /\ act[a].at # "idle" /\ \A x \in Actor : x # a => act'[x] = act[x]
          /\ act'[a].at = "idle" \/ act'[a].from = act[a].from
      BY <2>4 DEF WaitMove, Idle, Activity, Doing
    <3>2. QED
      BY <3>1 DEF TickInv
  <2>5. QED
    BY <1>2, <2>1, <2>2, <2>3, <2>4 DEF Assigning
<1>3. ASSUME NEW a \in Actor, NEW j \in Job, Starting(a, j) PROVE TickInv'
  <2>1. CASE EnqueueMove(a, j)
    BY <2>1 DEF EnqueueMove, Appended, Idle, TickInv, ActInv, ActOK, Waiting, Activity,
       DownInv, Doing
  <2>2. CASE WriteMove(a, j)
    BY <2>2 DEF WriteMove, Idle, TickInv, ActInv, ActOK, Waiting, Activity, DownInv,
       Doing
  <2>3. CASE RefreshMove(a, j)
    BY <2>3 DEF RefreshMove, TickInv, ActInv, ActOK, Waiting, Activity, DownInv
  <2>4. CASE BeginMove(a, j)
    BY <2>4 DEF BeginMove, Leaves, Replaces, Raises, Idle, TickInv, ActInv, ActOK,
       Waiting, Activity, DownInv, Doing
  <2>5. QED
    BY <1>3, <2>1, <2>2, <2>3, <2>4 DEF Starting
<1>4. ASSUME NEW a \in Actor, NEW j \in Job, Requesting(a, j) PROVE TickInv'
  <2>1. CASE CreateMove(a, j)
    BY <2>1 DEF CreateMove, TickInv, ActInv, ActOK, Waiting, Activity, DownInv, Doing
  <2>2. CASE RetryMove(a, j)
    BY <2>2 DEF RetryMove, Retries, Waiting, Appended, TickInv, ActInv, ActOK, Activity,
       DownInv, Doing
  <2>3. QED
    BY <1>4, <2>1, <2>2 DEF Requesting
<1>5. ASSUME NEW a \in Actor, NEW o \in Owner, NEW s \in Session, SwitchMove(a, o, s)
      PROVE  TickInv'
  BY <1>5 DEF SwitchMove, Open, SessionFree, TickInv, ActInv, ActOK, Waiting, Activity,
     DownInv
<1>6. ASSUME NEW a \in Actor, NEW s \in Session, ReopenMove(a, s) PROVE TickInv'
  BY <1>6 DEF ReopenMove, Idle, TickInv, ActInv, ActOK, Waiting, Activity, DownInv,
     Doing
<1>7. ASSUME NEW i \in Job, NEW j \in Job, SwapMove(i, j) PROVE TickInv'
  BY <1>7 DEF SwapMove, Replaces, TickInv, ActInv, ActOK, Waiting, Activity, DownInv
<1>8. ASSUME NEW j \in Job, LookMove(j) PROVE TickInv'
  BY <1>8 DEF LookMove, Retries, Waiting, TickInv, ActInv, ActOK, Activity, DownInv,
     Doing
<1>9. ASSUME NEW j \in Job, Working(j) PROVE TickInv'
  <2>1. CASE LearnMove(j)
    BY <2>1 DEF LearnMove, TickInv, ActInv, ActOK, Waiting, Activity, DownInv
  <2>2. CASE BindMove(j)
    BY <2>2 DEF BindMove, Open, SessionFree, TickInv, ActInv, ActOK, Waiting, Activity,
       DownInv
  <2>3. CASE EndMove(j)
    BY <2>3 DEF EndMove, TickInv, ActInv, ActOK, Waiting, Activity, DownInv
  <2>4. CASE UnlockMove(j)
    BY <2>4 DEF UnlockMove, Unlocks, TickInv, ActInv, ActOK, Waiting, Activity, DownInv
  <2>5. CASE UnleaseMove(j)
    BY <2>5 DEF UnleaseMove, TickInv, ActInv, ActOK, Waiting, Activity, DownInv
  <2>6. QED
    BY <1>9, <2>1, <2>2, <2>3, <2>4, <2>5 DEF Working
<1>10. CASE ListMove
  BY <1>10 DEF ListMove, TickInv, ActInv, ActOK, Waiting, Activity, DownInv
<1>11. CASE Restarting
  <2>1. CASE CrashMove
    BY <2>1 DEF CrashMove, Idle, TickInv, ActInv, ActOK, Waiting, Activity, DownInv,
       Doing
  <2>2. CASE RefuseMove
    BY <2>2 DEF RefuseMove, TickInv, ActInv, ActOK, Waiting, Activity, DownInv
  <2>3. CASE StartMove
    BY <2>3 DEF StartMove, Repaired, TickInv, ActInv, ActOK, Waiting, Activity, DownInv
  <2>4. CASE Stuttering
    BY <2>4 DEF Stuttering, TickInv, ActInv, ActOK, Waiting, Activity, DownInv
  <2>5. QED
    BY <1>11, <2>1, <2>2, <2>3, <2>4 DEF Restarting
<1>12. QED
  BY <1>1, <1>2, <1>3, <1>4, <1>5, <1>6, <1>7, <1>8, <1>9, <1>10, <1>11 DEF NextMove

\* What a step leaves as it was, of what the order of the queue depends on.
TickKept ==
    /\ act'[Tick].at = "assign" => act'[Tick] = act[Tick]
    /\ due' = due \/ due' = <<>>
KnownKept ==
    \A i \in Job : Live(i)' => Live(i) /\ (i \in known => i \in known')
Late(i) == i \notin known /\ \A k \in Job : place'[k] <= place'[i]
LaneKept ==
    \/ disturbed' = TRUE \/ ListMove \/ \A i \in Job : ~Coming(i)'
    \/ /\ disturbed' = disturbed
       /\ \A i \in Job : i \in Lane' => (i \in Lane /\ place'[i] = place[i]) \/ Late(i)
ComingKept ==
    \/ disturbed' = TRUE \/ ListMove \/ tree' # None \/ \A i \in Job : ~Coming(i)'
    \/ tree = None /\ \A i \in Job : Coming(i)' <=> Coming(i)
TreeIsFree ==
    \A i \in Job : state[i] = "WAITING_LEASE" /\ state'[i] = "ASSIGNED" => tree \in {None, i}

\* Only List reads the records, and only Look takes up the next Job.
LEMMA TickKeeps ==
    ASSUME TypeOK, ActInv, TickInv, NextMove
    PROVE  TickKept \/ ListMove \/ \E k \in Job : LookMove(k)
<1> /\ act \in [Actor -> Activity] /\ state \in [Job -> JobState] /\ place \in [Job -> Nat]
    /\ due \in Seq(Job) /\ known \subseteq Job /\ tree \in Job \cup {None} /\ Tick \in Actor
  BY DEF TypeOK, RowsTypeOK, MemoryTypeOK, Actor
<1>1. ASSUME NEW a \in Actor, NEW j \in Job, Creating(a, j)
      PROVE  TickKept \/ ListMove \/ \E k \in Job : LookMove(k)
  <2>1. CASE OpenMove(a, j)
    BY <2>1 DEF OpenMove, Open, SessionFree, Keeps, TickKept, TickInv, ActInv, ActOK,
       Waiting, Activity
  <2>2. CASE LockMove(a, j)
    BY <2>2 DEF LockMove, Locks, FindsBusy, Open, SessionFree, Keeps, TickKept, TickInv,
       ActInv, ActOK, Waiting, Activity, Doing
  <2>3. CASE AddMove(a, j)
    BY <2>3 DEF AddMove, Holds, Open, TickKept, TickInv, ActInv, ActOK, Waiting,
       Activity, Doing
  <2>4. CASE GiveMove(a, j)
    BY <2>4 DEF GiveMove, Unlocks, TickKept, TickInv, ActInv, ActOK, Waiting, Activity
  <2>5. CASE RollMove(a, j)
    BY <2>5 DEF RollMove, TickKept, TickInv, ActInv, ActOK, Waiting, Activity
  <2>6. QED
    BY <1>1, <2>1, <2>2, <2>3, <2>4, <2>5 DEF Creating
<1>2. ASSUME NEW a \in Actor, NEW j \in Job, Assigning(a, j)
      PROVE  TickKept \/ ListMove \/ \E k \in Job : LookMove(k)
  <2>1. CASE TakeMove(a, j)
    BY <2>1 DEF TakeMove, TickKept, TickInv, ActInv, ActOK, Waiting, Activity
  <2>2. CASE BusyMove(a, j)
    BY <2>2 DEF BusyMove, Idle, TickKept, TickInv, ActInv, ActOK, Waiting, Activity,
       Doing
  <2>3. CASE RaiseMove(a, j)
    BY <2>3 DEF RaiseMove, Raises, Idle, TickKept, TickInv, ActInv, ActOK, Waiting,
       Activity, Doing
  <2>4. CASE WaitMove(a, j)
    BY <2>4 DEF WaitMove, Idle, TickKept, TickInv, ActInv, ActOK, Waiting, Activity,
       Doing
  <2>5. QED
    BY <1>2, <2>1, <2>2, <2>3, <2>4 DEF Assigning
<1>3. ASSUME NEW a \in Actor, NEW j \in Job, Starting(a, j)
      PROVE  TickKept \/ ListMove \/ \E k \in Job : LookMove(k)
  <2>1. CASE EnqueueMove(a, j)
    BY <2>1 DEF EnqueueMove, Appended, Idle, TickKept, TickInv, ActInv, ActOK, Waiting,
       Activity, Doing
  <2>2. CASE WriteMove(a, j)
    BY <2>2 DEF WriteMove, Idle, TickKept, TickInv, ActInv, ActOK, Waiting, Activity,
       Doing
  <2>3. CASE RefreshMove(a, j)
    BY <2>3 DEF RefreshMove, TickKept, TickInv, ActInv, ActOK, Waiting, Activity
  <2>4. CASE BeginMove(a, j)
    BY <2>4 DEF BeginMove, Leaves, Replaces, Raises, Idle, TickKept, TickInv, ActInv,
       ActOK, Waiting, Activity, Doing
  <2>5. QED
    BY <1>3, <2>1, <2>2, <2>3, <2>4 DEF Starting
<1>4. ASSUME NEW a \in Actor, NEW j \in Job, Requesting(a, j)
      PROVE  TickKept \/ ListMove \/ \E k \in Job : LookMove(k)
  <2>1. CASE CreateMove(a, j)
    BY <2>1 DEF CreateMove, TickKept, TickInv, ActInv, ActOK, Waiting, Activity, Doing
  <2>2. CASE RetryMove(a, j)
    BY <2>2 DEF RetryMove, Retries, Waiting, Appended, TickKept, TickInv, ActInv, ActOK,
       Activity, Doing
  <2>3. QED
    BY <1>4, <2>1, <2>2 DEF Requesting
<1>5. ASSUME NEW a \in Actor, NEW o \in Owner, NEW s \in Session, SwitchMove(a, o, s)
      PROVE  TickKept \/ ListMove \/ \E k \in Job : LookMove(k)
  BY <1>5 DEF SwitchMove, Open, SessionFree, TickKept, TickInv, ActInv, ActOK, Waiting,
     Activity
<1>6. ASSUME NEW a \in Actor, NEW s \in Session, ReopenMove(a, s)
      PROVE  TickKept \/ ListMove \/ \E k \in Job : LookMove(k)
  BY <1>6 DEF ReopenMove, Idle, TickKept, TickInv, ActInv, ActOK, Waiting, Activity,
     Doing
<1>7. ASSUME NEW i \in Job, NEW j \in Job, SwapMove(i, j)
      PROVE  TickKept \/ ListMove \/ \E k \in Job : LookMove(k)
  BY <1>7 DEF SwapMove, Replaces, TickKept, TickInv, ActInv, ActOK, Waiting, Activity
<1>8. ASSUME NEW j \in Job, LookMove(j)
      PROVE  TickKept \/ ListMove \/ \E k \in Job : LookMove(k)
  BY <1>8 DEF LookMove, Retries, Waiting, TickKept, TickInv, ActInv, ActOK, Activity,
     Doing
<1>9. ASSUME NEW j \in Job, Working(j)
      PROVE  TickKept \/ ListMove \/ \E k \in Job : LookMove(k)
  <2>1. CASE LearnMove(j)
    BY <2>1 DEF LearnMove, TickKept, TickInv, ActInv, ActOK, Waiting, Activity
  <2>2. CASE BindMove(j)
    BY <2>2 DEF BindMove, Open, SessionFree, TickKept, TickInv, ActInv, ActOK, Waiting,
       Activity
  <2>3. CASE EndMove(j)
    BY <2>3 DEF EndMove, TickKept, TickInv, ActInv, ActOK, Waiting, Activity
  <2>4. CASE UnlockMove(j)
    BY <2>4 DEF UnlockMove, Unlocks, TickKept, TickInv, ActInv, ActOK, Waiting, Activity
  <2>5. CASE UnleaseMove(j)
    BY <2>5 DEF UnleaseMove, TickKept, TickInv, ActInv, ActOK, Waiting, Activity
  <2>6. QED
    BY <1>9, <2>1, <2>2, <2>3, <2>4, <2>5 DEF Working
<1>10. CASE ListMove
  BY <1>10 DEF ListMove, TickKept, TickInv, ActInv, ActOK, Waiting, Activity
<1>11. CASE Restarting
  <2>1. CASE CrashMove
    BY <2>1 DEF CrashMove, Idle, TickKept, TickInv, ActInv, ActOK, Waiting, Activity,
       Doing
  <2>2. CASE RefuseMove
    BY <2>2 DEF RefuseMove, TickKept, TickInv, ActInv, ActOK, Waiting, Activity
  <2>3. CASE StartMove
    BY <2>3 DEF StartMove, Repaired, TickKept, TickInv, ActInv, ActOK, Waiting, Activity
  <2>4. CASE Stuttering
    BY <2>4 DEF Stuttering, TickKept, TickInv, ActInv, ActOK, Waiting, Activity
  <2>5. QED
    BY <1>11, <2>1, <2>2, <2>3, <2>4 DEF Restarting
<1>12. QED
  BY <1>1, <1>2, <1>3, <1>4, <1>5, <1>6, <1>7, <1>8, <1>9, <1>10, <1>11 DEF NextMove

\* A Job that is over stays so, and the record of a Job that is not is kept.
LEMMA KnownKeeps ==
    ASSUME TypeOK, ActInv, EndInv, NextMove
    PROVE  KnownKept
<1> /\ act \in [Actor -> Activity] /\ state \in [Job -> JobState] /\ place \in [Job -> Nat]
    /\ due \in Seq(Job) /\ known \subseteq Job /\ tree \in Job \cup {None} /\ Tick \in Actor
  BY DEF TypeOK, RowsTypeOK, MemoryTypeOK, Actor
<1>1. ASSUME NEW a \in Actor, NEW j \in Job, Creating(a, j) PROVE KnownKept
  <2>1. CASE OpenMove(a, j)
    BY <2>1 DEF OpenMove, Open, SessionFree, Keeps, KnownKept, Live, ActInv, ActOK,
       Drives, DrivenState, EndInv, Waiting, Activity
  <2>2. CASE LockMove(a, j)
    BY <2>2 DEF LockMove, Locks, FindsBusy, Open, SessionFree, Keeps, KnownKept, Live,
       ActInv, ActOK, Drives, DrivenState, EndInv, Waiting, Activity, Doing
  <2>3. CASE AddMove(a, j)
    BY <2>3 DEF AddMove, Holds, Open, KnownKept, Live, ActInv, ActOK, Drives,
       DrivenState, EndInv, Waiting, Activity, Doing
  <2>4. CASE GiveMove(a, j)
    BY <2>4 DEF GiveMove, Unlocks, KnownKept, Live, ActInv, ActOK, Drives, DrivenState,
       EndInv, Waiting, Activity
  <2>5. CASE RollMove(a, j)
    BY <2>5 DEF RollMove, KnownKept, Live, ActInv, ActOK, Drives, DrivenState, EndInv,
       Waiting, Activity
  <2>6. QED
    BY <1>1, <2>1, <2>2, <2>3, <2>4, <2>5 DEF Creating
<1>2. ASSUME NEW a \in Actor, NEW j \in Job, Assigning(a, j) PROVE KnownKept
  <2>1. CASE TakeMove(a, j)
    BY <2>1 DEF TakeMove, KnownKept, Live, ActInv, ActOK, Drives, DrivenState, EndInv,
       Waiting, Activity
  <2>2. CASE BusyMove(a, j)
    BY <2>2 DEF BusyMove, Idle, KnownKept, Live, ActInv, ActOK, Drives, DrivenState,
       EndInv, Waiting, Activity, Doing
  <2>3. CASE RaiseMove(a, j)
    BY <2>3 DEF RaiseMove, Raises, Idle, KnownKept, Live, ActInv, ActOK, Drives,
       DrivenState, EndInv, Waiting, Activity, Doing
  <2>4. CASE WaitMove(a, j)
    BY <2>4 DEF WaitMove, Idle, KnownKept, Live, ActInv, ActOK, Drives, DrivenState,
       EndInv, Waiting, Activity, Doing
  <2>5. QED
    BY <1>2, <2>1, <2>2, <2>3, <2>4 DEF Assigning
<1>3. ASSUME NEW a \in Actor, NEW j \in Job, Starting(a, j) PROVE KnownKept
  <2>1. CASE EnqueueMove(a, j)
    BY <2>1 DEF EnqueueMove, Appended, Idle, KnownKept, Live, ActInv, ActOK, Drives,
       DrivenState, EndInv, Waiting, Activity, Doing
  <2>2. CASE WriteMove(a, j)
    BY <2>2 DEF WriteMove, Idle, KnownKept, Live, ActInv, ActOK, Drives, DrivenState,
       EndInv, Waiting, Activity, Doing
  <2>3. CASE RefreshMove(a, j)
    BY <2>3 DEF RefreshMove, KnownKept, Live, ActInv, ActOK, Drives, DrivenState,
       EndInv, Waiting, Activity
  <2>4. CASE BeginMove(a, j)
    BY <2>4 DEF BeginMove, Leaves, Replaces, Raises, Idle, KnownKept, Live, ActInv,
       ActOK, Drives, DrivenState, EndInv, Waiting, Activity, Doing
  <2>5. QED
    BY <1>3, <2>1, <2>2, <2>3, <2>4 DEF Starting
<1>4. ASSUME NEW a \in Actor, NEW j \in Job, Requesting(a, j) PROVE KnownKept
  <2>1. CASE CreateMove(a, j)
    BY <2>1 DEF CreateMove, KnownKept, Live, ActInv, ActOK, Drives, DrivenState, EndInv,
       Waiting, Activity, Doing
  <2>2. CASE RetryMove(a, j)
    BY <2>2 DEF RetryMove, Retries, Waiting, Appended, KnownKept, Live, ActInv, ActOK,
       Drives, DrivenState, EndInv, Activity, Doing
  <2>3. QED
    BY <1>4, <2>1, <2>2 DEF Requesting
<1>5. ASSUME NEW a \in Actor, NEW o \in Owner, NEW s \in Session, SwitchMove(a, o, s)
      PROVE  KnownKept
  BY <1>5 DEF SwitchMove, Open, SessionFree, KnownKept, Live, ActInv, ActOK, Drives,
     DrivenState, EndInv, Waiting, Activity
<1>6. ASSUME NEW a \in Actor, NEW s \in Session, ReopenMove(a, s) PROVE KnownKept
  BY <1>6 DEF ReopenMove, Idle, KnownKept, Live, ActInv, ActOK, Drives, DrivenState,
     EndInv, Waiting, Activity, Doing
<1>7. ASSUME NEW i \in Job, NEW j \in Job, SwapMove(i, j) PROVE KnownKept
  BY <1>7 DEF SwapMove, Replaces, KnownKept, Live, ActInv, ActOK, Drives, DrivenState,
     EndInv, Waiting, Activity
<1>8. ASSUME NEW j \in Job, LookMove(j) PROVE KnownKept
  BY <1>8 DEF LookMove, Retries, Waiting, KnownKept, Live, ActInv, ActOK, Drives,
     DrivenState, EndInv, Activity, Doing
<1>9. ASSUME NEW j \in Job, Working(j) PROVE KnownKept
  <2>1. CASE LearnMove(j)
    BY <2>1 DEF LearnMove, KnownKept, Live, ActInv, ActOK, Drives, DrivenState, EndInv,
       Waiting, Activity
  <2>2. CASE BindMove(j)
    BY <2>2 DEF BindMove, Open, SessionFree, KnownKept, Live, ActInv, ActOK, Drives,
       DrivenState, EndInv, Waiting, Activity
  <2>3. CASE EndMove(j)
    BY <2>3 DEF EndMove, KnownKept, Live, ActInv, ActOK, Drives, DrivenState, EndInv,
       Waiting, Activity
  <2>4. CASE UnlockMove(j)
    BY <2>4 DEF UnlockMove, Unlocks, KnownKept, Live, ActInv, ActOK, Drives,
       DrivenState, EndInv, Waiting, Activity
  <2>5. CASE UnleaseMove(j)
    BY <2>5 DEF UnleaseMove, KnownKept, Live, ActInv, ActOK, Drives, DrivenState,
       EndInv, Waiting, Activity
  <2>6. QED
    BY <1>9, <2>1, <2>2, <2>3, <2>4, <2>5 DEF Working
<1>10. CASE ListMove
  BY <1>10 DEF ListMove, KnownKept, Live, ActInv, ActOK, Drives, DrivenState, EndInv,
     Waiting, Activity
<1>11. CASE Restarting
  <2>1. CASE CrashMove
    BY <2>1 DEF CrashMove, Idle, KnownKept, Live, ActInv, ActOK, Drives, DrivenState,
       EndInv, Waiting, Activity, Doing
  <2>2. CASE RefuseMove
    BY <2>2 DEF RefuseMove, KnownKept, Live, ActInv, ActOK, Drives, DrivenState, EndInv,
       Waiting, Activity
  <2>3. CASE StartMove
    BY <2>3 DEF StartMove, Repaired, KnownKept, Live, ActInv, ActOK, Drives,
       DrivenState, EndInv, Waiting, Activity
  <2>4. CASE Stuttering
    BY <2>4 DEF Stuttering, KnownKept, Live, ActInv, ActOK, Drives, DrivenState, EndInv,
       Waiting, Activity
  <2>5. QED
    BY <1>11, <2>1, <2>2, <2>3, <2>4 DEF Restarting
<1>12. QED
  BY <1>1, <1>2, <1>3, <1>4, <1>5, <1>6, <1>7, <1>8, <1>9, <1>10, <1>11 DEF NextMove

\* A Job that joins the queue is noticed, or comes last.
LEMMA LaneKeeps ==
    ASSUME TypeOK, ActInv, DownInv, NextMove
    PROVE  LaneKept
<1> /\ act \in [Actor -> Activity] /\ state \in [Job -> JobState] /\ place \in [Job -> Nat]
    /\ due \in Seq(Job) /\ known \subseteq Job /\ tree \in Job \cup {None} /\ Tick \in Actor
  BY DEF TypeOK, RowsTypeOK, MemoryTypeOK, Actor
<1>1. ASSUME NEW a \in Actor, NEW j \in Job, Creating(a, j) PROVE LaneKept
  <2>1. CASE OpenMove(a, j)
    BY <2>1 DEF OpenMove, Open, SessionFree, Keeps, LaneKept, Late, Lane, Coming,
       Current, Listed, ActInv, ActOK, Drives, DrivenState, DownInv, Waiting, Activity
  <2>2. CASE LockMove(a, j)
    BY <2>2 DEF LockMove, Locks, FindsBusy, Open, SessionFree, Keeps, LaneKept, Late,
       Lane, Coming, Current, Listed, ActInv, ActOK, Drives, DrivenState, DownInv,
       Waiting, Activity, Doing
  <2>3. CASE AddMove(a, j)
    BY <2>3 DEF AddMove, Holds, Open, LaneKept, Late, Lane, Coming, Current, Listed,
       ActInv, ActOK, Drives, DrivenState, DownInv, Waiting, Activity, Doing
  <2>4. CASE GiveMove(a, j)
    BY <2>4 DEF GiveMove, Unlocks, LaneKept, Late, Lane, Coming, Current, Listed,
       ActInv, ActOK, Drives, DrivenState, DownInv, Waiting, Activity
  <2>5. CASE RollMove(a, j)
    BY <2>5 DEF RollMove, LaneKept, Late, Lane, Coming, Current, Listed, ActInv, ActOK,
       Drives, DrivenState, DownInv, Waiting, Activity
  <2>6. QED
    BY <1>1, <2>1, <2>2, <2>3, <2>4, <2>5 DEF Creating
<1>2. ASSUME NEW a \in Actor, NEW j \in Job, Assigning(a, j) PROVE LaneKept
  <2>1. CASE TakeMove(a, j)
    BY <2>1 DEF TakeMove, LaneKept, Late, Lane, Coming, Current, Listed, ActInv, ActOK,
       Drives, DrivenState, DownInv, Waiting, Activity
  <2>2. CASE BusyMove(a, j)
    BY <2>2 DEF BusyMove, Idle, LaneKept, Late, Lane, Coming, Current, Listed, ActInv,
       ActOK, Drives, DrivenState, DownInv, Waiting, Activity, Doing
  <2>3. CASE RaiseMove(a, j)
    BY <2>3 DEF RaiseMove, Raises, Idle, LaneKept, Late, Lane, Coming, Current, Listed,
       ActInv, ActOK, Drives, DrivenState, DownInv, Waiting, Activity, Doing
  <2>4. CASE WaitMove(a, j)
    BY <2>4 DEF WaitMove, Idle, LaneKept, Late, Lane, Coming, Current, Listed, ActInv,
       ActOK, Drives, DrivenState, DownInv, Waiting, Activity, Doing
  <2>5. QED
    BY <1>2, <2>1, <2>2, <2>3, <2>4 DEF Assigning
<1>3. ASSUME NEW a \in Actor, NEW j \in Job, Starting(a, j) PROVE LaneKept
  <2>1. CASE EnqueueMove(a, j)
    BY <2>1 DEF EnqueueMove, Appended, Idle, LaneKept, Late, Lane, Coming, Current,
       Listed, ActInv, ActOK, Drives, DrivenState, DownInv, Waiting, Activity, Doing
  <2>2. CASE WriteMove(a, j)
    BY <2>2 DEF WriteMove, Idle, LaneKept, Late, Lane, Coming, Current, Listed, ActInv,
       ActOK, Drives, DrivenState, DownInv, Waiting, Activity, Doing
  <2>3. CASE RefreshMove(a, j)
    BY <2>3 DEF RefreshMove, LaneKept, Late, Lane, Coming, Current, Listed, ActInv,
       ActOK, Drives, DrivenState, DownInv, Waiting, Activity
  <2>4. CASE BeginMove(a, j)
    BY <2>4 DEF BeginMove, Leaves, Replaces, Raises, Idle, LaneKept, Late, Lane, Coming,
       Current, Listed, ActInv, ActOK, Drives, DrivenState, DownInv, Waiting, Activity,
       Doing
  <2>5. QED
    BY <1>3, <2>1, <2>2, <2>3, <2>4 DEF Starting
<1>4. ASSUME NEW a \in Actor, NEW j \in Job, Requesting(a, j) PROVE LaneKept
  <2>1. CASE CreateMove(a, j)
    BY <2>1 DEF CreateMove, LaneKept, Late, Lane, Coming, Current, Listed, ActInv,
       ActOK, Drives, DrivenState, DownInv, Waiting, Activity, Doing
  <2>2. CASE RetryMove(a, j)
    <3>1. /\ disturbed' = disturbed /\ state' = state /\ known' = known \cup {j}
          /\ \/ place' = place /\ (state[j] = "WAITING_HOST" \/ j \in known)
             \/ j \notin known /\ Appended(j)
      BY <2>2 DEF RetryMove
    <3>2. CASE place' = place /\ (state[j] = "WAITING_HOST" \/ j \in known)
      <4>1. \A i \in Job : i \in Lane' => i \in Lane
        BY <3>1, <3>2 DEF Lane
      <4>2. QED
        BY <3>1, <3>2, <4>1 DEF LaneKept
    <3>3. CASE j \notin known /\ Appended(j)
      <4>1. PICK p \in Nat \ {0} :
               (\A i \in Job : place[i] < p) /\ place' = [place EXCEPT ![j] = p]
        BY <3>3 DEF Appended
      <4>2. Late(j)
        BY <3>3, <4>1 DEF Late
      <4>3. \A i \in Job : i # j => place'[i] = place[i]
        BY <4>1
      <4>4. \A i \in Job : i # j /\ i \in Lane' => i \in Lane
        BY <3>1, <4>3 DEF Lane
      <4>5. QED
        BY <3>1, <4>2, <4>3, <4>4 DEF LaneKept
    <3>4. QED
      BY <3>1, <3>2, <3>3
  <2>3. QED
    BY <1>4, <2>1, <2>2 DEF Requesting
<1>5. ASSUME NEW a \in Actor, NEW o \in Owner, NEW s \in Session, SwitchMove(a, o, s)
      PROVE  LaneKept
  BY <1>5 DEF SwitchMove, Open, SessionFree, LaneKept, Late, Lane, Coming, Current,
     Listed, ActInv, ActOK, Drives, DrivenState, DownInv, Waiting, Activity
<1>6. ASSUME NEW a \in Actor, NEW s \in Session, ReopenMove(a, s) PROVE LaneKept
  BY <1>6 DEF ReopenMove, Idle, LaneKept, Late, Lane, Coming, Current, Listed, ActInv,
     ActOK, Drives, DrivenState, DownInv, Waiting, Activity, Doing
<1>7. ASSUME NEW i \in Job, NEW j \in Job, SwapMove(i, j) PROVE LaneKept
  BY <1>7 DEF SwapMove, Replaces, LaneKept, Late, Lane, Coming, Current, Listed, ActInv,
     ActOK, Drives, DrivenState, DownInv, Waiting, Activity
<1>8. ASSUME NEW j \in Job, LookMove(j) PROVE LaneKept
  BY <1>8 DEF LookMove, Retries, Waiting, LaneKept, Late, Lane, Coming, Current, Listed,
     ActInv, ActOK, Drives, DrivenState, DownInv, Activity, Doing
<1>9. ASSUME NEW j \in Job, Working(j) PROVE LaneKept
  <2>1. CASE LearnMove(j)
    BY <2>1 DEF LearnMove, LaneKept, Late, Lane, Coming, Current, Listed, ActInv, ActOK,
       Drives, DrivenState, DownInv, Waiting, Activity
  <2>2. CASE BindMove(j)
    BY <2>2 DEF BindMove, Open, SessionFree, LaneKept, Late, Lane, Coming, Current,
       Listed, ActInv, ActOK, Drives, DrivenState, DownInv, Waiting, Activity
  <2>3. CASE EndMove(j)
    BY <2>3 DEF EndMove, LaneKept, Late, Lane, Coming, Current, Listed, ActInv, ActOK,
       Drives, DrivenState, DownInv, Waiting, Activity
  <2>4. CASE UnlockMove(j)
    BY <2>4 DEF UnlockMove, Unlocks, LaneKept, Late, Lane, Coming, Current, Listed,
       ActInv, ActOK, Drives, DrivenState, DownInv, Waiting, Activity
  <2>5. CASE UnleaseMove(j)
    BY <2>5 DEF UnleaseMove, LaneKept, Late, Lane, Coming, Current, Listed, ActInv,
       ActOK, Drives, DrivenState, DownInv, Waiting, Activity
  <2>6. QED
    BY <1>9, <2>1, <2>2, <2>3, <2>4, <2>5 DEF Working
<1>10. CASE ListMove
  BY <1>10 DEF ListMove, LaneKept, Late, Lane, Coming, Current, Listed, ActInv, ActOK,
     Drives, DrivenState, DownInv, Waiting, Activity
<1>11. CASE Restarting
  <2>1. CASE CrashMove
    BY <2>1 DEF CrashMove, Idle, LaneKept, Late, Lane, Coming, Current, Listed, ActInv,
       ActOK, Drives, DrivenState, DownInv, Waiting, Activity, Doing
  <2>2. CASE RefuseMove
    BY <2>2 DEF RefuseMove, LaneKept, Late, Lane, Coming, Current, Listed, ActInv,
       ActOK, Drives, DrivenState, DownInv, Waiting, Activity
  <2>3. CASE StartMove
    <3>1. due' = <<>> /\ act'[Tick].at = "idle"
      BY <2>3 DEF StartMove, DownInv, Idle, Doing
    <3>2. \A i \in Job : ~Coming(i)'
      BY <3>1 DEF Coming, Current, Listed
    <3>3. QED
      BY <3>2 DEF LaneKept
  <2>4. CASE Stuttering
    BY <2>4 DEF Stuttering, LaneKept, Late, Lane, Coming, Current, Listed, ActInv,
       ActOK, Drives, DrivenState, DownInv, Waiting, Activity
  <2>5. QED
    BY <1>11, <2>1, <2>2, <2>3, <2>4 DEF Restarting
<1>12. QED
  BY <1>1, <1>2, <1>3, <1>4, <1>5, <1>6, <1>7, <1>8, <1>9, <1>10, <1>11 DEF NextMove

\* The tick passes a Job by only when the tree is in use.
LEMMA ComingKeeps ==
    ASSUME TypeOK, ActInv, DownInv, TickInv, NextMove
    PROVE  ComingKept \/ \E k \in Job : LookMove(k)
<1> /\ act \in [Actor -> Activity] /\ state \in [Job -> JobState] /\ place \in [Job -> Nat]
    /\ due \in Seq(Job) /\ known \subseteq Job /\ tree \in Job \cup {None} /\ Tick \in Actor
  BY DEF TypeOK, RowsTypeOK, MemoryTypeOK, Actor
<1>1. ASSUME NEW a \in Actor, NEW j \in Job, Creating(a, j)
      PROVE  ComingKept \/ \E k \in Job : LookMove(k)
  <2>1. CASE OpenMove(a, j)
    BY <2>1 DEF OpenMove, Open, SessionFree, Keeps, ComingKept, Coming, Current, Listed,
       ActInv, ActOK, TickInv, DownInv, Waiting, Activity
  <2>2. CASE LockMove(a, j)
    <3>1. /\ tree' = tree /\ due' = due /\ \A x \in Actor : x # a => act'[x] = act[x]
          /\ act[a].at # "assign" /\ act'[a].at # "assign"
      BY <2>2 DEF LockMove, Locks, FindsBusy, TickInv, ActInv, ActOK, Waiting, Activity, Doing
    <3>2. \A i \in Job : Current(i)' <=> Current(i)
      BY <3>1 DEF Current
    <3>3. QED
      BY <3>1, <3>2 DEF ComingKept, Coming, Listed
  <2>3. CASE AddMove(a, j)
    <3>1. /\ tree' = tree /\ due' = due /\ \A x \in Actor : x # a => act'[x] = act[x]
          /\ a # Tick
      BY <2>3 DEF AddMove, TickInv, ActInv, ActOK, Waiting, Activity, Doing
    <3>2. \A i \in Job : Current(i)' <=> Current(i)
      BY <3>1 DEF Current
    <3>3. QED
      BY <3>1, <3>2 DEF ComingKept, Coming, Listed
  <2>4. CASE GiveMove(a, j)
    BY <2>4 DEF GiveMove, Unlocks, ComingKept, Coming, Current, Listed, ActInv, ActOK,
       TickInv, DownInv, Waiting, Activity
  <2>5. CASE RollMove(a, j)
    BY <2>5 DEF RollMove, ComingKept, Coming, Current, Listed, ActInv, ActOK, TickInv,
       DownInv, Waiting, Activity
  <2>6. QED
    BY <1>1, <2>1, <2>2, <2>3, <2>4, <2>5 DEF Creating
<1>2. ASSUME NEW a \in Actor, NEW j \in Job, Assigning(a, j)
      PROVE  ComingKept \/ \E k \in Job : LookMove(k)
  <2>1. CASE TakeMove(a, j)
    <3>1. tree' \in Job
      BY <2>1 DEF TakeMove
    <3>2. QED
      BY <3>1, NoneIsNoJob DEF ComingKept
  <2>2. CASE BusyMove(a, j)
    BY <2>2 DEF BusyMove, Idle, ComingKept, Coming, Current, Listed, ActInv, ActOK,
       TickInv, DownInv, Waiting, Activity, Doing
  <2>3. CASE RaiseMove(a, j)
    BY <2>3 DEF RaiseMove, Raises, Idle, ComingKept, Coming, Current, Listed, ActInv,
       ActOK, TickInv, DownInv, Waiting, Activity, Doing
  <2>4. CASE WaitMove(a, j)
    BY <2>4 DEF WaitMove, Idle, ComingKept, Coming, Current, Listed, ActInv, ActOK,
       TickInv, DownInv, Waiting, Activity, Doing
  <2>5. QED
    BY <1>2, <2>1, <2>2, <2>3, <2>4 DEF Assigning
<1>3. ASSUME NEW a \in Actor, NEW j \in Job, Starting(a, j)
      PROVE  ComingKept \/ \E k \in Job : LookMove(k)
  <2>1. CASE EnqueueMove(a, j)
    BY <2>1 DEF EnqueueMove, Appended, Idle, ComingKept, Coming, Current, Listed,
       ActInv, ActOK, TickInv, DownInv, Waiting, Activity, Doing
  <2>2. CASE WriteMove(a, j)
    BY <2>2 DEF WriteMove, Idle, ComingKept, Coming, Current, Listed, ActInv, ActOK,
       TickInv, DownInv, Waiting, Activity, Doing
  <2>3. CASE RefreshMove(a, j)
    BY <2>3 DEF RefreshMove, ComingKept, Coming, Current, Listed, ActInv, ActOK,
       TickInv, DownInv, Waiting, Activity
  <2>4. CASE BeginMove(a, j)
    BY <2>4 DEF BeginMove, Leaves, Replaces, Raises, Idle, ComingKept, Coming, Current,
       Listed, ActInv, ActOK, TickInv, DownInv, Waiting, Activity, Doing
  <2>5. QED
    BY <1>3, <2>1, <2>2, <2>3, <2>4 DEF Starting
<1>4. ASSUME NEW a \in Actor, NEW j \in Job, Requesting(a, j)
      PROVE  ComingKept \/ \E k \in Job : LookMove(k)
  <2>1. CASE CreateMove(a, j)
    BY <2>1 DEF CreateMove, ComingKept, Coming, Current, Listed, ActInv, ActOK, TickInv,
       DownInv, Waiting, Activity, Doing
  <2>2. CASE RetryMove(a, j)
    BY <2>2 DEF RetryMove, Retries, Waiting, Appended, ComingKept, Coming, Current,
       Listed, ActInv, ActOK, TickInv, DownInv, Activity, Doing
  <2>3. QED
    BY <1>4, <2>1, <2>2 DEF Requesting
<1>5. ASSUME NEW a \in Actor, NEW o \in Owner, NEW s \in Session, SwitchMove(a, o, s)
      PROVE  ComingKept \/ \E k \in Job : LookMove(k)
  BY <1>5 DEF SwitchMove, Open, SessionFree, ComingKept, Coming, Current, Listed,
     ActInv, ActOK, TickInv, DownInv, Waiting, Activity
<1>6. ASSUME NEW a \in Actor, NEW s \in Session, ReopenMove(a, s)
      PROVE  ComingKept \/ \E k \in Job : LookMove(k)
  BY <1>6 DEF ReopenMove, Idle, ComingKept, Coming, Current, Listed, ActInv, ActOK,
     TickInv, DownInv, Waiting, Activity, Doing
<1>7. ASSUME NEW i \in Job, NEW j \in Job, SwapMove(i, j)
      PROVE  ComingKept \/ \E k \in Job : LookMove(k)
  BY <1>7 DEF SwapMove, Replaces, ComingKept, Coming, Current, Listed, ActInv, ActOK,
     TickInv, DownInv, Waiting, Activity
<1>8. ASSUME NEW j \in Job, LookMove(j)
      PROVE  ComingKept \/ \E k \in Job : LookMove(k)
  BY <1>8 DEF LookMove, Retries, Waiting, ComingKept, Coming, Current, Listed, ActInv,
     ActOK, TickInv, DownInv, Activity, Doing
<1>9. ASSUME NEW j \in Job, Working(j)
      PROVE  ComingKept \/ \E k \in Job : LookMove(k)
  <2>1. CASE LearnMove(j)
    BY <2>1 DEF LearnMove, ComingKept, Coming, Current, Listed, ActInv, ActOK, TickInv,
       DownInv, Waiting, Activity
  <2>2. CASE BindMove(j)
    BY <2>2 DEF BindMove, Open, SessionFree, ComingKept, Coming, Current, Listed,
       ActInv, ActOK, TickInv, DownInv, Waiting, Activity
  <2>3. CASE EndMove(j)
    BY <2>3 DEF EndMove, ComingKept, Coming, Current, Listed, ActInv, ActOK, TickInv,
       DownInv, Waiting, Activity
  <2>4. CASE UnlockMove(j)
    BY <2>4 DEF UnlockMove, Unlocks, ComingKept, Coming, Current, Listed, ActInv, ActOK,
       TickInv, DownInv, Waiting, Activity
  <2>5. CASE UnleaseMove(j)
    BY <2>5 DEF UnleaseMove, ComingKept, Coming, Current, Listed, ActInv, ActOK,
       TickInv, DownInv, Waiting, Activity
  <2>6. QED
    BY <1>9, <2>1, <2>2, <2>3, <2>4, <2>5 DEF Working
<1>10. CASE ListMove
  BY <1>10 DEF ListMove, ComingKept, Coming, Current, Listed, ActInv, ActOK, TickInv,
     DownInv, Waiting, Activity
<1>11. CASE Restarting
  <2>1. CASE CrashMove
    BY <2>1 DEF CrashMove, Idle, ComingKept, Coming, Current, Listed, ActInv, ActOK,
       TickInv, DownInv, Waiting, Activity, Doing
  <2>2. CASE RefuseMove
    BY <2>2 DEF RefuseMove, ComingKept, Coming, Current, Listed, ActInv, ActOK, TickInv,
       DownInv, Waiting, Activity
  <2>3. CASE StartMove
    <3>1. due' = <<>> /\ act'[Tick].at = "idle"
      BY <2>3 DEF StartMove, DownInv, Idle, Doing
    <3>2. \A i \in Job : ~Coming(i)'
      BY <3>1 DEF Coming, Current, Listed
    <3>3. QED
      BY <3>2 DEF ComingKept
  <2>4. CASE Stuttering
    BY <2>4 DEF Stuttering, ComingKept, Coming, Current, Listed, ActInv, ActOK, TickInv,
       DownInv, Waiting, Activity
  <2>5. QED
    BY <1>11, <2>1, <2>2, <2>3, <2>4 DEF Restarting
<1>12. QED
  BY <1>1, <1>2, <1>3, <1>4, <1>5, <1>6, <1>7, <1>8, <1>9, <1>10, <1>11 DEF NextMove

\* A Job is given the tree only if it is free, or the Job's.
LEMMA TakeStep ==
    ASSUME TypeOK, ActInv, NextMove
    PROVE  TreeIsFree
<1> /\ act \in [Actor -> Activity] /\ state \in [Job -> JobState] /\ place \in [Job -> Nat]
    /\ due \in Seq(Job) /\ known \subseteq Job /\ tree \in Job \cup {None} /\ Tick \in Actor
  BY DEF TypeOK, RowsTypeOK, MemoryTypeOK, Actor
<1>1. ASSUME NEW a \in Actor, NEW j \in Job, Creating(a, j) PROVE TreeIsFree
  <2>1. CASE OpenMove(a, j)
    BY <2>1 DEF OpenMove, Open, SessionFree, Keeps, TreeIsFree, ActInv, ActOK, Drives,
       DrivenState, Waiting, Activity
  <2>2. CASE LockMove(a, j)
    BY <2>2 DEF LockMove, Locks, FindsBusy, Open, SessionFree, Keeps, TreeIsFree,
       ActInv, ActOK, Drives, DrivenState, Waiting, Activity, Doing
  <2>3. CASE AddMove(a, j)
    BY <2>3 DEF AddMove, Holds, Open, TreeIsFree, ActInv, ActOK, Drives, DrivenState,
       Waiting, Activity, Doing
  <2>4. CASE GiveMove(a, j)
    BY <2>4 DEF GiveMove, Unlocks, TreeIsFree, ActInv, ActOK, Drives, DrivenState,
       Waiting, Activity
  <2>5. CASE RollMove(a, j)
    BY <2>5 DEF RollMove, TreeIsFree, ActInv, ActOK, Drives, DrivenState, Waiting,
       Activity
  <2>6. QED
    BY <1>1, <2>1, <2>2, <2>3, <2>4, <2>5 DEF Creating
<1>2. ASSUME NEW a \in Actor, NEW j \in Job, Assigning(a, j) PROVE TreeIsFree
  <2>1. CASE TakeMove(a, j)
    BY <2>1 DEF TakeMove, TreeIsFree, ActInv, ActOK, Drives, DrivenState, Waiting,
       Activity
  <2>2. CASE BusyMove(a, j)
    BY <2>2 DEF BusyMove, Idle, TreeIsFree, ActInv, ActOK, Drives, DrivenState, Waiting,
       Activity, Doing
  <2>3. CASE RaiseMove(a, j)
    BY <2>3 DEF RaiseMove, Raises, Idle, TreeIsFree, ActInv, ActOK, Drives, DrivenState,
       Waiting, Activity, Doing
  <2>4. CASE WaitMove(a, j)
    BY <2>4 DEF WaitMove, Idle, TreeIsFree, ActInv, ActOK, Drives, DrivenState, Waiting,
       Activity, Doing
  <2>5. QED
    BY <1>2, <2>1, <2>2, <2>3, <2>4 DEF Assigning
<1>3. ASSUME NEW a \in Actor, NEW j \in Job, Starting(a, j) PROVE TreeIsFree
  <2>1. CASE EnqueueMove(a, j)
    BY <2>1 DEF EnqueueMove, Appended, Idle, TreeIsFree, ActInv, ActOK, Drives,
       DrivenState, Waiting, Activity, Doing
  <2>2. CASE WriteMove(a, j)
    BY <2>2 DEF WriteMove, Idle, TreeIsFree, ActInv, ActOK, Drives, DrivenState,
       Waiting, Activity, Doing
  <2>3. CASE RefreshMove(a, j)
    BY <2>3 DEF RefreshMove, TreeIsFree, ActInv, ActOK, Drives, DrivenState, Waiting,
       Activity
  <2>4. CASE BeginMove(a, j)
    BY <2>4 DEF BeginMove, Leaves, Replaces, Raises, Idle, TreeIsFree, ActInv, ActOK,
       Drives, DrivenState, Waiting, Activity, Doing
  <2>5. QED
    BY <1>3, <2>1, <2>2, <2>3, <2>4 DEF Starting
<1>4. ASSUME NEW a \in Actor, NEW j \in Job, Requesting(a, j) PROVE TreeIsFree
  <2>1. CASE CreateMove(a, j)
    BY <2>1 DEF CreateMove, TreeIsFree, ActInv, ActOK, Drives, DrivenState, Waiting,
       Activity, Doing
  <2>2. CASE RetryMove(a, j)
    BY <2>2 DEF RetryMove, Retries, Waiting, Appended, TreeIsFree, ActInv, ActOK,
       Drives, DrivenState, Activity, Doing
  <2>3. QED
    BY <1>4, <2>1, <2>2 DEF Requesting
<1>5. ASSUME NEW a \in Actor, NEW o \in Owner, NEW s \in Session, SwitchMove(a, o, s)
      PROVE  TreeIsFree
  BY <1>5 DEF SwitchMove, Open, SessionFree, TreeIsFree, ActInv, ActOK, Drives,
     DrivenState, Waiting, Activity
<1>6. ASSUME NEW a \in Actor, NEW s \in Session, ReopenMove(a, s) PROVE TreeIsFree
  BY <1>6 DEF ReopenMove, Idle, TreeIsFree, ActInv, ActOK, Drives, DrivenState, Waiting,
     Activity, Doing
<1>7. ASSUME NEW i \in Job, NEW j \in Job, SwapMove(i, j) PROVE TreeIsFree
  BY <1>7 DEF SwapMove, Replaces, TreeIsFree, ActInv, ActOK, Drives, DrivenState,
     Waiting, Activity
<1>8. ASSUME NEW j \in Job, LookMove(j) PROVE TreeIsFree
  BY <1>8 DEF LookMove, Retries, Waiting, TreeIsFree, ActInv, ActOK, Drives,
     DrivenState, Activity, Doing
<1>9. ASSUME NEW j \in Job, Working(j) PROVE TreeIsFree
  <2>1. CASE LearnMove(j)
    BY <2>1 DEF LearnMove, TreeIsFree, ActInv, ActOK, Drives, DrivenState, Waiting,
       Activity
  <2>2. CASE BindMove(j)
    BY <2>2 DEF BindMove, Open, SessionFree, TreeIsFree, ActInv, ActOK, Drives,
       DrivenState, Waiting, Activity
  <2>3. CASE EndMove(j)
    BY <2>3 DEF EndMove, TreeIsFree, ActInv, ActOK, Drives, DrivenState, Waiting,
       Activity
  <2>4. CASE UnlockMove(j)
    BY <2>4 DEF UnlockMove, Unlocks, TreeIsFree, ActInv, ActOK, Drives, DrivenState,
       Waiting, Activity
  <2>5. CASE UnleaseMove(j)
    BY <2>5 DEF UnleaseMove, TreeIsFree, ActInv, ActOK, Drives, DrivenState, Waiting,
       Activity
  <2>6. QED
    BY <1>9, <2>1, <2>2, <2>3, <2>4, <2>5 DEF Working
<1>10. CASE ListMove
  BY <1>10 DEF ListMove, TreeIsFree, ActInv, ActOK, Drives, DrivenState, Waiting,
     Activity
<1>11. CASE Restarting
  <2>1. CASE CrashMove
    BY <2>1 DEF CrashMove, Idle, TreeIsFree, ActInv, ActOK, Drives, DrivenState,
       Waiting, Activity, Doing
  <2>2. CASE RefuseMove
    BY <2>2 DEF RefuseMove, TreeIsFree, ActInv, ActOK, Drives, DrivenState, Waiting,
       Activity
  <2>3. CASE StartMove
    BY <2>3 DEF StartMove, Repaired, TreeIsFree, ActInv, ActOK, Drives, DrivenState,
       Waiting, Activity
  <2>4. CASE Stuttering
    BY <2>4 DEF Stuttering, TreeIsFree, ActInv, ActOK, Drives, DrivenState, Waiting,
       Activity
  <2>5. QED
    BY <1>11, <2>1, <2>2, <2>3, <2>4 DEF Restarting
<1>12. QED
  BY <1>1, <1>2, <1>3, <1>4, <1>5, <1>6, <1>7, <1>8, <1>9, <1>10, <1>11 DEF NextMove

\* What the tick comes to was in its list.
LEMMA ComingOnly ==
    ASSUME TickKept, NEW i \in Job
    PROVE  /\ Current(i)' => Current(i)
           /\ i \in Listed' => i \in Listed
           /\ Coming(i)' => Coming(i)
<1>1. Current(i)' => Current(i)
  BY DEF TickKept, Current
<1>2. i \in Listed' => i \in Listed
  BY DEF TickKept, Listed
<1>3. QED
  BY <1>1, <1>2 DEF Coming
\* ... and Look takes the first of it.
LEMMA LookComing ==
    ASSUME TypeOK, NEW k \in Job, LookMove(k), NEW i \in Job
    PROVE  /\ k \in Listed /\ ~Current(i)
           /\ i \in Listed' => i \in Listed
           /\ Coming(i) => i \in Listed' \/ i = k
           /\ Current(i)' => i = k /\ state[k] \in Waiting
           /\ i = k /\ i \in Lane => Current(i)'
           /\ i \in Lane' => i \in Lane /\ place'[i] = place[i]
<1> act \in [Actor -> Activity] /\ Tick \in Actor /\ place \in [Job -> Nat]
  BY DEF TypeOK, RowsTypeOK, MemoryTypeOK, Actor
<1>1. k \in Listed /\ ~Current(i)
  BY DEF LookMove, Listed, Current
<1>2. i \in Listed' => i \in Listed
  <2>1. ASSUME NEW n \in DOMAIN due', i = due'[n] PROVE i \in Listed
    <3>1. n + 1 \in DOMAIN due /\ due[n + 1] = i
      BY <2>1 DEF LookMove
    <3>2. QED
      BY <3>1 DEF Listed
  <2>2. QED
    BY <2>1 DEF Listed
<1>3. i \in Listed => i \in Listed' \/ i = k
  <2>1. ASSUME NEW n \in DOMAIN due, i = due[n], i # k PROVE i \in Listed'
    <3>1. n - 1 \in DOMAIN due' /\ due'[n - 1] = i
      BY <2>1 DEF LookMove
    <3>2. QED
      BY <3>1 DEF Listed
  <2>2. QED
    BY <2>1 DEF Listed
<1>4. Current(i)' => i = k /\ state[k] \in Waiting
  BY DEF LookMove, Retries, Doing, Current, Waiting
<1>5. i = k /\ i \in Lane => Current(i)'
  BY DEF LookMove, Retries, Doing, Current, Waiting, Lane
<1>6. i \in Lane' => i \in Lane /\ place'[i] = place[i]
  BY DEF LookMove, Lane
<1>7. QED
  BY <1>1, <1>2, <1>3, <1>4, <1>5, <1>6 DEF Coming

\* The tick looks at Jobs that have a record.
LEMMA KnownStep ==
    ASSUME TypeOK, ActInv, EndInv, TickInv, KnownInv, NextMove
    PROVE  KnownInv'
<1>1. KnownKept
  BY KnownKeeps
<1>2. CASE TickKept
  BY <1>1, <1>2, ComingOnly DEF KnownInv, KnownKept
<1>3. CASE ListMove
  BY <1>3 DEF KnownInv, ListMove, Coming, Current, Listed, rows
<1>4. ASSUME NEW k \in Job, LookMove(k) PROVE KnownInv'
  <2>1. \A i \in Job : Coming(i)' => Coming(i)
    BY <1>4, LookComing DEF Coming
  <2>2. QED
    BY <1>1, <2>1 DEF KnownInv, KnownKept
<1>5. QED
  BY <1>2, <1>3, <1>4, TickKeeps

\* It comes to them in the order of their places, and passes none by while the tree is free.
LEMMA OrderStep ==
    ASSUME TypeOK, ActInv, DownInv, EndInv, TickInv, KnownInv, SortedInv, CurrentInv, PassedInv,
           NextMove
    PROVE  SortedInv' /\ CurrentInv' /\ PassedInv'
<1> /\ act \in [Actor -> Activity] /\ state \in [Job -> JobState] /\ place \in [Job -> Nat]
    /\ due \in Seq(Job) /\ tree \in Job \cup {None} /\ Tick \in Actor /\ due' \in Seq(Job)
    /\ place' \in [Job -> Nat] /\ known \subseteq Job /\ known' \subseteq Job
  BY RestTyped, RowsTyped DEF TypeOK, RowsTypeOK, MemoryTypeOK, Actor, RestTypeOK, JobRowsTypeOK
<1>1. CASE disturbed' = TRUE
  BY <1>1 DEF SortedInv, CurrentInv, PassedInv
<1>2. CASE \A i \in Job : ~Coming(i)'
  <2>1. DOMAIN due' = {}
    BY <1>2 DEF Coming, Listed
  <2>2. SortedInv'
    BY <2>1 DEF SortedInv
  <2>3. \A i \in Lane' : ~Coming(i)'
    BY <1>2 DEF Lane
  <2>4. CurrentInv'
    BY <2>3 DEF CurrentInv, Coming
  <2>5. PassedInv'
    BY <2>3 DEF PassedInv
  <2>6. QED
    BY <2>2, <2>4, <2>5
<1>3. CASE ListMove
  <2>1. known' = known /\ place' = place /\ state' = state /\ Listed' = known /\ Lane' = Lane
        /\ \A i \in Job : ~Current(i)'
    BY <1>3 DEF ListMove, Listed, Current, Lane, rows
  <2>2. SortedInv'
    BY <1>3, <2>1 DEF ListMove, SortedInv, Lane
  <2>3. \A i \in Lane' : Coming(i)'
    BY <2>1 DEF Coming, Lane
  <2>4. CurrentInv'
    BY <2>1 DEF CurrentInv, Lane
  <2>5. PassedInv'
    BY <2>3 DEF PassedInv
  <2>6. QED
    BY <2>2, <2>4, <2>5
<1>4. ASSUME NEW k \in Job, LookMove(k) PROVE SortedInv' /\ CurrentInv' /\ PassedInv'
  <2>1. /\ disturbed' = disturbed /\ tree' = tree /\ due[1] = k /\ 1 \in DOMAIN due
        /\ \A n \in DOMAIN due' :
              n \in Nat /\ n # 0 /\ n + 1 \in DOMAIN due /\ due'[n] = due[n + 1]
    BY <1>4 DEF LookMove
  <2>2. \A i \in Job : i \in Lane' => i \in Lane /\ place'[i] = place[i]
    BY <1>4, LookComing
  <2>3. SortedInv'
    <3>1. SUFFICES ASSUME ~disturbed', NEW m \in DOMAIN due', NEW n \in DOMAIN due', m < n,
                          due'[m] \in Lane', due'[n] \in Lane'
                   PROVE  place'[due'[m]] <= place'[due'[n]]
      BY DEF SortedInv
    <3>2. m + 1 \in DOMAIN due /\ n + 1 \in DOMAIN due /\ m + 1 < n + 1
      BY <2>1, <3>1
    <3>3. QED
      BY <2>1, <2>2, <3>1, <3>2 DEF SortedInv
  <2>4. CurrentInv'
    <3>1. SUFFICES ASSUME ~disturbed', NEW x \in Job, NEW y \in Job, x \in Lane', y \in Lane',
                          Current(x)', y \in Listed'
                   PROVE  place'[x] <= place'[y]
      BY DEF CurrentInv, Lane
    <3>2. x = due[1]
      BY <1>4, <2>1, <3>1, LookComing
    <3>3. PICK n \in DOMAIN due' : y = due'[n]
      BY <3>1 DEF Listed
    <3>4. n + 1 \in DOMAIN due /\ y = due[n + 1] /\ 1 < n + 1
      BY <2>1, <3>3
    <3>5. QED
      BY <2>1, <2>2, <3>1, <3>2, <3>4 DEF SortedInv
  <2>5. PassedInv'
    <3>1. SUFFICES ASSUME ~disturbed', tree' = None, NEW x \in Job, NEW y \in Job, x \in Lane',
                          y \in Lane', Coming(x)', ~Coming(y)'
                   PROVE  place'[x] <= place'[y]
      BY DEF PassedInv, Lane
    <3>2. Coming(x)
      BY <1>4, <3>1, LookComing DEF Coming
    <3>3. ~Coming(y)
      BY <1>4, <2>2, <3>1, LookComing DEF Coming
    <3>4. QED
      BY <2>1, <2>2, <3>1, <3>2, <3>3 DEF PassedInv
  <2>6. QED
    BY <2>3, <2>4, <2>5
<1>5. ASSUME TickKept, disturbed' = disturbed,
             \A i \in Job : i \in Lane' => (i \in Lane /\ place'[i] = place[i]) \/ Late(i),
             tree' # None \/ (tree = None /\ \A i \in Job : Coming(i)' <=> Coming(i))
      PROVE  SortedInv' /\ CurrentInv' /\ PassedInv'
  <2>1. ASSUME NEW i \in Job, i \in Lane', Coming(i)' PROVE i \in Lane /\ place'[i] = place[i]
    <3>1. Live(i)
      BY <2>1, KnownKeeps DEF KnownKept, Live, Lane
    <3>2. i \in known
      BY <1>5, <2>1, <3>1, ComingOnly DEF KnownInv
    <3>3. QED
      BY <1>5, <2>1, <3>2 DEF Late
  <2>2. SortedInv'
    <3>1. SUFFICES ASSUME ~disturbed', NEW m \in DOMAIN due', NEW n \in DOMAIN due', m < n,
                          due'[m] \in Lane', due'[n] \in Lane'
                   PROVE  place'[due'[m]] <= place'[due'[n]]
      BY DEF SortedInv
    <3>2. due' = due
      BY <1>5, <3>1 DEF TickKept
    <3>3. due[m] \in Job /\ due[n] \in Job /\ Coming(due[m])' /\ Coming(due[n])'
      BY <3>1, <3>2 DEF Coming, Listed
    <3>4. QED
      BY <1>5, <2>1, <3>1, <3>2, <3>3 DEF SortedInv
  <2>3. CurrentInv'
    <3>1. SUFFICES ASSUME ~disturbed', NEW x \in Job, NEW y \in Job, x \in Lane', y \in Lane',
                          Current(x)', y \in Listed'
                   PROVE  place'[x] <= place'[y]
      BY DEF CurrentInv, Lane
    <3>2. Current(x) /\ y \in Listed /\ Coming(x)' /\ Coming(y)'
      BY <1>5, <3>1, ComingOnly DEF Coming
    <3>3. QED
      BY <1>5, <2>1, <3>1, <3>2 DEF CurrentInv
  <2>4. PassedInv'
    <3>1. SUFFICES ASSUME ~disturbed', tree' = None, NEW x \in Job, NEW y \in Job, x \in Lane',
                          y \in Lane', Coming(x)', ~Coming(y)'
                   PROVE  place'[x] <= place'[y]
      BY DEF PassedInv, Lane
    <3>2. x \in Lane /\ place'[x] = place[x] /\ Coming(x) /\ ~Coming(y)
      BY <1>5, <2>1, <3>1
    <3>3. CASE Late(y)
      BY <3>3 DEF Late
    <3>4. CASE y \in Lane /\ place'[y] = place[y]
      BY <1>5, <3>1, <3>2, <3>4 DEF PassedInv
    <3>5. QED
      BY <1>5, <3>1, <3>3, <3>4
  <2>5. QED
    BY <2>2, <2>3, <2>4
<1>6. QED
  <2>1. LaneKept /\ (ComingKept \/ \E k \in Job : LookMove(k))
        /\ (TickKept \/ ListMove \/ \E k \in Job : LookMove(k))
    BY LaneKeeps, ComingKeeps, TickKeeps
  <2>2. QED
    BY <1>1, <1>2, <1>3, <1>4, <1>5, <2>1 DEF LaneKept, ComingKept

\* While the tree is free the tick takes the first of its list.
LEMMA TakesFirst ==
    ASSUME IInv, NextMove, NEW i \in Job, NEW j \in Job,
           act[Tick].at = "assign", act[Tick].job = j, state[j] = "WAITING_LEASE", state'[j] = "ASSIGNED",
           i \in Lane, place[i] < place[j]
    PROVE  disturbed
<1> /\ place \in [Job -> Nat] /\ tree \in Job \cup {None} /\ disturbed \in BOOLEAN
  BY DEF IInv, TypeOK, RowsTypeOK, HistoryTypeOK
<1>1. tree = None
  BY TakeStep DEF TreeIsFree, IInv, TreeInv
<1>2. Current(j) /\ Coming(j)
  BY DEF Current, Coming
<1>3. place[j] # 0 /\ j \in known
  BY <1>2 DEF Lane, IInv, KnownInv, Live
<1>4. j \in Lane /\ i # j
  BY <1>3 DEF Lane
<1>5. ~(place[j] <= place[i])
  OBVIOUS
<1>6. CASE ~Coming(i)
  BY <1>1, <1>2, <1>4, <1>5, <1>6 DEF IInv, PassedInv
<1>7. CASE Coming(i)
  <2>1. i \in Listed
    BY <1>4, <1>7 DEF Coming, Current
  <2>2. QED
    BY <1>2, <1>4, <1>5, <2>1 DEF IInv, CurrentInv
<1>8. QED
  BY <1>6, <1>7

-----------------------------------------------------------------------------
(* The invariant and the theorems.                                         *)

\* Crashes and requests are counted.
LEMMA CountsTyped ==
    ASSUME TypeOK, [Next]_vars
    PROVE  {crashes', requests'} \subseteq Nat
<1> /\ {crashes, requests} \subseteq Nat
    /\ crashes + 1 \in Nat /\ requests + 1 \in Nat
  BY DEF TypeOK, HistoryTypeOK
<1>1. \/ UNCHANGED <<crashes, requests>>
      \/ crashes' = crashes + 1 /\ UNCHANGED requests
      \/ requests' = requests + 1 /\ UNCHANGED crashes
  <2>1. ASSUME NEW a \in Actor, Proceed(a) PROVE UNCHANGED <<crashes, requests>>
    BY <2>1 DEF Proceed, Acquire, LockNew, AddJob, Assign, GiveBack, Rollback, Wait, Enqueue,
                WriteBack, Refresh, Begin, Reopen
  <2>2. ASSUME NEW j \in Job, Work(j) PROVE UNCHANGED <<crashes, requests>>
    BY <2>2 DEF Work, Learn, Bind, End, Release
  <2>3. ASSUME NEW a \in Request, NEW j \in Job, Create(a, j) \/ ManualRetry(a, j)
        PROVE  UNCHANGED crashes /\ requests' \in {requests, requests + 1}
    BY <2>3 DEF Create, ManualRetry, Requested
  <2>4. ASSUME NEW a \in Request, NEW o \in Owner, NEW s \in Session, Switch(a, o, s)
        PROVE  requests' = requests + 1 /\ UNCHANGED crashes
    BY <2>4 DEF Switch, Requested
  <2>5. ASSUME NEW i \in Job, NEW j \in Job, Reorder(i, j)
        PROVE  requests' = requests + 1 /\ UNCHANGED crashes
    BY <2>5 DEF Reorder, Requested
  <2>6. ASSUME NEW j \in Job, Cancel(j) PROVE requests' = requests + 1 /\ UNCHANGED crashes
    BY <2>6 DEF Cancel, Requested
  <2>7. CASE List \/ Look \/ Restart \/ UNCHANGED vars
    BY <2>7 DEF List, Look, Restart, vars
  <2>8. CASE Crash
    BY <2>8 DEF Crash
  <2>9. QED
    BY <2>1, <2>2, <2>3, <2>4, <2>5, <2>6, <2>7, <2>8 DEF Next
<1>2. QED
  BY <1>1

\* Every step leaves the whole state well formed.
LEMMA TypeStep ==
    ASSUME TypeOK, NextMove, [Next]_vars
    PROVE  TypeOK'
<1>1. RowsTypeOK'
  <2>1. session' \in [Session -> SessionRow]
    BY SessionsTyped DEF Sessions
  <2>2. QED
    BY <2>1, RowsTyped DEF RowsTypeOK, JobRowsTypeOK, SessionRow
<1>2. MemoryTypeOK'
  <2>1. act' \in [Actor -> Activity]
    BY ActTyped DEF Activities
  <2>2. QED
    BY <2>1, RestTyped DEF MemoryTypeOK, RestTypeOK
<1>3. HistoryTypeOK'
  BY HistoryTyped, CountsTyped DEF HistoryTypeOK
<1>4. QED
  BY <1>1, <1>2, <1>3 DEF TypeOK

\* The invariant holds before the first Job is created.
LEMMA InvInit == Init => IInv
<1> SUFFICES ASSUME Init PROVE IInv
  OBVIOUS
<1>1. TypeOK
  <2>1. (CHOOSE o \in Owner : TRUE) \in Owner
    BY OwnerAssumption
  <2>2. RowsTypeOK
    BY <2>1, OwnerAssumption DEF Init, RowsTypeOK, NoSession, JobState, Thread
  <2>3. MemoryTypeOK
    BY DEF Init, MemoryTypeOK, Idle, Doing, Activity, Thread
  <2>4. HistoryTypeOK
    <3>1. disturbed \in BOOLEAN
      BY DEF Init
    <3>2. {crashes, requests, stale} \subseteq Nat
      BY DEF Init
    <3>3. QED
      BY <3>1, <3>2 DEF HistoryTypeOK
  <2>5. QED
    BY <2>2, <2>3, <2>4 DEF TypeOK
<1>2. /\ \A a \in Actor : act[a].at = "idle" /\ act[a].job = None
      /\ \A j \in Job : state[j] = "none" /\ place[j] = 0
      /\ \A s \in Session : session[s].status = "none"
      /\ due = <<>> /\ tree = None /\ up = "up" /\ Tick \in Actor
  BY DEF Init, Idle, Doing, NoSession, Actor
<1>3. ActInv /\ AloneInv
  BY <1>2 DEF ActInv, ActOK, AloneInv, Drives
<1>4. DownInv /\ EndInv
  BY DEF Init, DownInv, EndInv
<1>5. SingleInv /\ KeepInv
  BY <1>2 DEF SingleInv, KeepInv, KeepOK, Keeps
<1>6. ThreadInv /\ RunsInSession
  BY <1>2 DEF ThreadInv, ThreadOK, RunsInSession
<1>7. PlaceInv
  BY <1>2 DEF PlaceInv, Writes
<1>8. TreeInv /\ TickInv
  BY <1>2, NoneIsNoJob DEF TreeInv, TickInv
<1>9. KnownInv /\ SortedInv
  BY <1>2 DEF KnownInv, SortedInv, Coming, Current, Listed
<1>10. CurrentInv /\ PassedInv
  BY <1>2 DEF CurrentInv, PassedInv, Coming, Current, Listed
<1>11. QED
  BY <1>1, <1>3, <1>4, <1>5, <1>6, <1>7, <1>8, <1>9, <1>10 DEF IInv

\* Every step is one of the moves ...
LEMMA InvMove == IInv /\ [Next]_vars => NextMove
BY NextMoves DEF IInv

\* ... and preserves the invariant.
LEMMA InvStep == IInv /\ [Next]_vars => IInv'
<1> SUFFICES ASSUME IInv, [Next]_vars PROVE IInv'
  OBVIOUS
<1>1. NextMove
  BY InvMove
<1>2. TypeOK'
  BY <1>1, TypeStep DEF IInv
<1>3. ActInv' /\ DownInv' /\ AloneInv' /\ EndInv'
  BY <1>1, ActStep, DownStep, AloneStep, EndStep DEF IInv
<1>4. SingleInv'
  BY <1>1, SingleStep DEF IInv
<1>5. KeepInv'
  BY <1>1, ApartStep, KeepStep DEF IInv, KeepInv, Apart
<1>6. ThreadInv' /\ RunsInSession'
  BY <1>1, ThreadStep, RunsStep DEF IInv
<1>7. PlaceInv' /\ TreeInv' /\ TickInv'
  BY <1>1, PlaceStep, TreeStep, TickStep DEF IInv
<1>8. KnownInv'
  BY <1>1, KnownStep DEF IInv
<1>9. SortedInv' /\ CurrentInv' /\ PassedInv'
  BY <1>1, OrderStep DEF IInv
<1>10. QED
  BY <1>2, <1>3, <1>4, <1>5, <1>6, <1>7, <1>8, <1>9 DEF IInv

\* The invariant of the queue and the sessions that the other theorems rest on.
THEOREM Invariance == Spec => []IInv
<1>1. QED
  BY InvInit, InvStep, PTL DEF Spec

\* Every row, every record and every phase is of its kind.
THEOREM TypeCorrect == Spec => []TypeOK
<1>1. IInv => TypeOK
  BY DEF IInv
<1>2. QED
  BY <1>1, Invariance, PTL

\* However requests that create Jobs and open sessions interleave, an owner has one open
\* session at most.
THEOREM OneSessionIsOpen == Spec => []OneOpenSession
<1>1. IInv => OneOpenSession
  <2>1. SUFFICES ASSUME IInv, NEW o \in Owner PROVE Cardinality(Open(o)) <= 1
    BY DEF OneOpenSession
  <2>2. CASE Open(o) = {}
    BY <2>2, FS_EmptySet
  <2>3. ASSUME NEW s \in Open(o) PROVE Cardinality(Open(o)) <= 1
    <3>1. Open(o) = {s}
      BY <2>1, <2>3 DEF IInv, SingleInv, Open
    <3>2. QED
      BY <3>1, FS_Singleton
  <2>4. QED
    BY <2>2, <2>3
<1>2. QED
  BY <1>1, Invariance, PTL

\* A Job at work has the open session of its owner to itself and continues its thread,
\* whoever else creates Jobs, switches sessions, binds or unlocks meanwhile.
THEOREM JobsRunInTheirSession == Spec => []RunsInSession
<1>1. IInv => RunsInSession
  BY DEF IInv
<1>2. QED
  BY <1>1, Invariance, PTL

\* As long as no place was replaced while it was being written back, no two queued Jobs
\* have the same one.
THEOREM PlacesStayDistinct == Spec => [](stale = 0 => PlacesDistinct)
<1>1. IInv => (stale = 0 => PlacesDistinct)
  BY DEF IInv, PlaceInv, PlacesDistinct, Lane, Live, TypeOK, RowsTypeOK
<1>2. QED
  BY <1>1, Invariance, PTL

\* A tick that finds the tree free gives it to no Job in front of which another Job of
\* its user waits.
THEOREM TicksKeepTheOrder == Spec => QueueOrder
<1> DEFINE InOrderStep ==
        \A i, j \in Job :
          /\ act[Tick].at = "assign" /\ act[Tick].job = j /\ act[Tick].from = "WAITING_LEASE"
          /\ state[j] = "WAITING_LEASE" /\ state'[j] = "ASSIGNED"
          /\ i \in Lane /\ owner[i] = owner[j] /\ place[i] < place[j]
          => disturbed
<1>1. IInv /\ [Next]_vars => InOrderStep
  BY InvMove, TakesFirst
<1> HIDE DEF InOrderStep
<1>2. Spec => [][InOrderStep]_vars
  BY <1>1, Invariance, PTL DEF Spec
<1>3. QED
  BY <1>2 DEF InOrderStep, QueueOrder

=============================================================================
