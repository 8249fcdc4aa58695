--------------------------- MODULE TaskQueueProofs ---------------------------
(***************************************************************************)
(* Safety of the task queue for every number of tasks, workers, instances, *)
(* pauses, retries and restarts, and, while nobody pauses, that it         *)
(* implements TaskLifecycle.                                               *)
(***************************************************************************)
EXTENDS TaskQueueRefinement, FiniteSetTheorems, TLAPS

-----------------------------------------------------------------------------
(* Types                                                                    *)

TypeInv == TypeOK /\ IsFiniteSet(queue)

\* A put adds one well-formed entry of the task and keeps all others.
LEMMA PutFacts ==
  ASSUME IsFiniteSet(queue), queue \subseteq Entry,
         NEW t \in Tasks, NEW p \in 0..100, NEW at \in Nat
  PROVE  /\ WithEntry(t, p, at) \subseteq Entry
         /\ IsFiniteSet(WithEntry(t, p, at))
         /\ queue \subseteq WithEntry(t, p, at)
         /\ \E e \in WithEntry(t, p, at) : e.id = t
         /\ \A e \in WithEntry(t, p, at) : e \in queue \/ e.id = t
<1> DEFINE n == Cardinality(CopiesOf(t, p, at))
           e0 == [id |-> t, prio |-> p, at |-> at, copy |-> n]
<1>1. IsFiniteSet(CopiesOf(t, p, at))
  BY FS_Subset DEF CopiesOf
<1>2. n \in Nat
  BY <1>1, FS_CardinalityType
<1>3. e0 \in Entry /\ e0.id = t
  BY <1>2 DEF Entry
<1>4. WithEntry(t, p, at) = queue \cup {e0}
  BY DEF WithEntry
<1>5. IsFiniteSet(queue \cup {e0})
  BY FS_AddElement
<1> HIDE DEF e0
<1>6. QED
  BY <1>3, <1>4, <1>5

LEMMA OrDefaultType == \A p \in 0..100 : OrDefault(p) \in 0..100
  BY DEF OrDefault

LEMMA TypeInit == Init => TypeInv
<1> SUFFICES ASSUME Init PROVE TypeInv
  OBVIOUS
<1> USE TaskQueueAssumption DEF Init
<1>1. Blank \in Task
  BY DEF Blank, Task, Statuses, Missing
<1>2. task \in [Tasks -> Task]
  BY <1>1
<1>3. lockQ \in [Keys -> Seq(Workers)]
  OBVIOUS
<1>4. IsFiniteSet(queue)
  BY FS_EmptySet
<1>5. QED
  BY <1>2, <1>3, <1>4 DEF TypeInv, TypeOK

-----------------------------------------------------------------------------
(* The inductive invariant                                                  *)

\* A worker that waits or executes has a task in hand, and nothing a worker
\* has in hand or the queue lists is external or not yet created: therefore
\* nobody rebinds the key under which the worker took its lock.
HandsFull == \A w \in Workers : pc[w] \in Executing \cup {"lockwait"} => hand[w] \in Tasks
Known(t) == task[t].status # "absent" /\ ~task[t].external
HandsKnown == \A w \in Workers : hand[w] \in Tasks => Known(hand[w])
EntriesKnown == \A e \in queue : Known(e.id)
ExternalStatus == \A t \in Tasks : task[t].external => task[t].status \notin {"absent", "queued", "paused"}

\* Who executes is first in the queue of its instance lock.
ExecutingIsFirst ==
  \A w \in Workers : pc[w] \in Executing =>
    lockQ[task[hand[w]].key] # <<>> /\ Head(lockQ[task[hand[w]].key]) = w

IInv ==
  /\ TypeInv
  /\ HandsFull
  /\ HandsKnown
  /\ EntriesKnown
  /\ ExternalStatus
  /\ ExecutingIsFirst

-----------------------------------------------------------------------------
(* What one step does to the types                                          *)

\* The updates of a task record that the actions make keep its type.
LEMMA RecordUpdates ==
  ASSUME NEW r \in Task, NEW st \in Statuses
  PROVE  /\ [r EXCEPT !.status = st] \in Task
         /\ \A k \in Keys : [r EXCEPT !.key = k] \in Task
         /\ \A b \in BOOLEAN : [r EXCEPT !.pauseReq = b, !.status = st] \in Task
         /\ [r EXCEPT !.cancelReq = TRUE, !.pauseReq = FALSE, !.status = st] \in Task
         /\ [r EXCEPT !.started = TRUE, !.attempt = r.attempt + 1, !.status = st] \in Task
<1>1. [r EXCEPT !.status = st] \in Task
  BY DEF Task
<1>2. \A k \in Keys : [r EXCEPT !.key = k] \in Task
  BY DEF Task
<1>3. \A b \in BOOLEAN : [r EXCEPT !.pauseReq = b, !.status = st] \in Task
  BY DEF Task
<1>4. [r EXCEPT !.cancelReq = TRUE, !.pauseReq = FALSE, !.status = st] \in Task
  BY DEF Task
<1>5. [r EXCEPT !.started = TRUE, !.attempt = r.attempt + 1, !.status = st] \in Task
  <2>1. \A n \in Nat : [r EXCEPT !.started = TRUE, !.attempt = n, !.status = st] \in Task
    BY DEF Task
  <2>2. r.attempt + 1 \in Nat
    BY DEF Task
  <2>3. QED
    BY <2>1, <2>2
<1>6. QED
  BY <1>1, <1>2, <1>3, <1>4, <1>5

LEMMA LeaveType ==
  ASSUME TypeInv, NEW w \in Workers, NEW t \in Tasks,
         NEW locks \in [Keys -> Seq(Workers)], NEW where \in {"idle", "backoff"},
         locks[task[t].key] # <<>>,
         Leave(w, t, locks, where)
  PROVE  /\ lockQ' \in [Keys -> Seq(Workers)]
         /\ pc' \in [Workers -> Executing \cup {"idle", "lockwait", "backoff"}]
         /\ hand' \in [Workers -> Tasks \cup {NoTask}]
  BY DEF Leave, TypeInv, TypeOK, Task

LEMMA CancelTaskType ==
  ASSUME TypeInv, NEW t \in Tasks, CancelTask(t)
  PROVE  task' \in [Tasks -> Task] /\ event' \in [Tasks -> BOOLEAN]
<1>1. CASE task[t].status \in Terminal
  BY <1>1 DEF CancelTask, TypeInv, TypeOK
<1>2. CASE task[t].status \notin Terminal
  <2> DEFINE st == IF task[t].status \in {"queued", "paused"} THEN "cancelled" ELSE "cancelling"
  <2>1. st \in Statuses
    BY DEF Statuses, Terminal
  <2> HIDE DEF st
  <2>2. task' = [task EXCEPT ![t].cancelReq = TRUE, ![t].pauseReq = FALSE, ![t].status = st]
    BY <1>2 DEF CancelTask, st
  <2>3. task' \in [Tasks -> Task]
    <3>1. task[t] \in Task
      BY DEF TypeInv, TypeOK
    <3>2. [task[t] EXCEPT !.cancelReq = TRUE, !.pauseReq = FALSE, !.status = st] \in Task
      BY <3>1, <2>1, RecordUpdates
    <3>3. QED
      BY <3>2, <2>2 DEF TypeInv, TypeOK
  <2>4. event' \in [Tasks -> BOOLEAN]
    BY <1>2 DEF CancelTask, TypeInv, TypeOK
  <2>5. QED
    BY <2>3, <2>4
<1>3. QED
  BY <1>1, <1>2

LEMMA BeginType ==
  ASSUME TypeInv, NEW w \in Workers, NEW t \in Tasks,
         NEW locks \in [Keys -> Seq(Workers)], locks[task[t].key] # <<>>,
         Begin(w, t, locks)
  PROVE  /\ task' \in [Tasks -> Task]
         /\ event' \in [Tasks -> BOOLEAN]
         /\ lockQ' \in [Keys -> Seq(Workers)]
         /\ pc' \in [Workers -> Executing \cup {"idle", "lockwait", "backoff"}]
         /\ hand' \in [Workers -> Tasks \cup {NoTask}]
<1>1. CASE ~Exists(t)
  BY <1>1, LeaveType DEF Begin, TypeInv, TypeOK
<1>2. CASE Exists(t) /\ task[t].cancelReq
  BY <1>2, LeaveType, CancelTaskType DEF Begin
<1>3. CASE Exists(t) /\ ~task[t].cancelReq
  <2> DEFINE st == IF task[t].pauseReq THEN "paused" ELSE "running"
  <2>1. st \in Statuses
    BY DEF Statuses
  <2>2. task' = [task EXCEPT ![t].started = TRUE, ![t].attempt = @ + 1, ![t].status = st]
    BY <1>3 DEF Begin
  <2> HIDE DEF st
  <2>3. task' \in [Tasks -> Task]
    <3>1. task[t] \in Task
      BY DEF TypeInv, TypeOK
    <3>2. [task[t] EXCEPT !.started = TRUE, !.attempt = @ + 1, !.status = st] \in Task
      BY <3>1, <2>1, RecordUpdates
    <3>3. QED
      BY <3>2, <2>2 DEF TypeInv, TypeOK
  <2>4. /\ event' = event
        /\ lockQ' = locks
        /\ pc' = [pc EXCEPT ![w] = IF task[t].pauseReq THEN "checkpoint" ELSE "handler"]
        /\ hand' = [hand EXCEPT ![w] = t]
    BY <1>3 DEF Begin
  <2>5. QED
    BY <2>3, <2>4 DEF TypeInv, TypeOK, Executing
<1>4. QED
  BY <1>1, <1>2, <1>3

LEMMA EndsType ==
  ASSUME TypeInv, NEW w \in Workers, NEW t \in Tasks, NEW st \in Terminal,
         lockQ[task[t].key] # <<>>, Ends(w, t, st)
  PROVE  TypeInv'
<1>1. task' \in [Tasks -> Task]
  <2>1. task[t] \in Task /\ st \in Statuses
    BY DEF TypeInv, TypeOK, Statuses
  <2>2. [task[t] EXCEPT !.status = st] \in Task
    BY <2>1, RecordUpdates
  <2>3. QED
    BY <2>2 DEF Ends, TypeInv, TypeOK
<1>2. event' \in [Tasks -> BOOLEAN]
  BY DEF Ends, TypeInv, TypeOK
<1>3. lockQ \in [Keys -> Seq(Workers)] /\ Leave(w, t, lockQ, "idle")
  BY DEF Ends, TypeInv, TypeOK
<1>4. /\ lockQ' \in [Keys -> Seq(Workers)]
      /\ pc' \in [Workers -> Executing \cup {"idle", "lockwait", "backoff"}]
      /\ hand' \in [Workers -> Tasks \cup {NoTask}]
  BY <1>3, LeaveType
<1>5. QED
  BY <1>1, <1>2, <1>4 DEF Ends, TypeInv, TypeOK

LEMMA AddType ==
  ASSUME TypeInv, NEW t \in Tasks, NEW k \in Keys, NEW p \in 0..100, NEW m \in Nat,
         Add(t, k, p, m)
  PROVE  /\ task' \in [Tasks -> Task]
         /\ event' \in [Tasks -> BOOLEAN]
         /\ queue' \subseteq Entry /\ IsFiniteSet(queue')
         /\ clock' \in Nat
<1>1. NewTask(k, p, m, FALSE) \in Task
  BY DEF NewTask, Task, TypeInv, TypeOK, Statuses
<1>2. task' \in [Tasks -> Task]
  BY <1>1 DEF Add, TypeInv, TypeOK
<1>3. queue' \subseteq Entry /\ IsFiniteSet(queue')
  BY PutFacts DEF Add, TypeInv, TypeOK
<1>4. event' \in [Tasks -> BOOLEAN] /\ clock' \in Nat
  BY DEF Add, TypeInv, TypeOK
<1>5. QED
  BY <1>2, <1>3, <1>4

LEMMA RestartType ==
  ASSUME TypeInv, Restart
  PROVE  TypeInv'
<1> USE TaskQueueAssumption
<1>1. task' \in [Tasks -> Task]
  <2>1. \A r \in Task : Loaded(r) \in Task
    <3>1. "failed" \in Statuses
      BY DEF Statuses, Terminal
    <3>2. QED
      BY <3>1, RecordUpdates DEF Loaded
  <2>2. QED
    BY <2>1 DEF Restart, TypeInv, TypeOK
<1>2. queue' \subseteq Entry /\ IsFiniteSet(queue')
  <2> DEFINE Q == {u \in Tasks : Loaded(task[u]).status = "queued"}
             E(t) == [id |-> t, prio |-> OrDefault(task[t].prio), at |-> task[t].created, copy |-> 0]
             f == [t \in Q |-> E(t)]
  <2>1. queue' = {E(t) : t \in Q}
    BY DEF Restart
  <2>2. \A t \in Tasks : task[t].prio \in 0..100 /\ task[t].created \in Nat
    BY DEF TypeInv, TypeOK, Task
  <2>3. \A t \in Tasks : E(t) \in Entry
    BY <2>2, OrDefaultType DEF Entry
  <2>4. queue' \subseteq Entry
    BY <2>1, <2>3
  <2>5. IsFiniteSet(Q)
    BY FS_Subset
  <2>6. f \in Surjection(Q, queue')
    <3> HIDE DEF Q, E
    <3>1. f \in [Q -> queue']
      BY <2>1
    <3>2. \A e \in queue' : \E t \in Q : f[t] = e
      BY <2>1
    <3>3. QED
      BY <3>1, <3>2 DEF Surjection
  <2> HIDE DEF f, Q
  <2>7. QED
    BY <2>4, <2>5, <2>6, FS_Surjection
<1>3. QED
  BY <1>1, <1>2 DEF Restart, TypeInv, TypeOK

LEMMA RequestType ==
  ASSUME TypeInv, NEW t \in Tasks, Request(t)
  PROVE  TypeInv'
<1> USE TaskQueueAssumption
<1>0. task \in [Tasks -> Task] /\ task[t] \in Task
  BY DEF TypeInv, TypeOK
<1>1. CASE Enqueue(t)
  <2>1. PICK k \in Keys, p \in Priorities, m \in RetryLimits : Add(t, k, p, m) /\ UNCHANGED caller
    BY <1>1 DEF Enqueue
  <2>2. p \in 0..100 /\ m \in Nat
    OBVIOUS
  <2>3. QED
    BY <2>1, <2>2, AddType DEF Add, TypeInv, TypeOK
<1>2. CASE EnqueueAndWait(t)
  <2>1. PICK k \in Keys, p \in Priorities : Add(t, k, p, 0) /\ caller' = [caller EXCEPT ![t] = "waiting"]
    BY <1>2 DEF EnqueueAndWait
  <2>2. p \in 0..100 /\ 0 \in Nat
    OBVIOUS
  <2>3. QED
    BY <2>1, <2>2, AddType DEF Add, TypeInv, TypeOK
<1>3. CASE Cancel(t)
  BY <1>3, CancelTaskType DEF Cancel, TypeInv, TypeOK
<1>4. CASE Pause(t)
  <2> DEFINE st == IF task[t].status = "queued" THEN "paused" ELSE task[t].status
  <2>1. st \in Statuses
    BY <1>0 DEF Task, Statuses
  <2>2. [task[t] EXCEPT !.pauseReq = TRUE, !.status = st] \in Task
    BY <1>0, <2>1, RecordUpdates
  <2>3. task' \in [Tasks -> Task]
    BY <1>0, <1>4, <2>2 DEF Pause
  <2>4. QED
    BY <1>4, <2>3 DEF Pause, TypeInv, TypeOK
<1>5. CASE Resume(t)
  <2> DEFINE st == IF task[t].status = "paused" /\ ~task[t].started THEN "queued" ELSE task[t].status
  <2>1. st \in Statuses
    BY <1>0 DEF Task, Statuses
  <2>2. [task[t] EXCEPT !.pauseReq = FALSE, !.status = st] \in Task
    BY <1>0, <2>1, RecordUpdates
  <2>3. task' \in [Tasks -> Task]
    BY <1>0, <1>5, <2>2 DEF Resume
  <2>4. queue' \subseteq Entry /\ IsFiniteSet(queue')
    <3>1. task[t].prio \in 0..100 /\ task[t].created \in Nat
      BY <1>0 DEF Task
    <3>2. queue \subseteq Entry /\ IsFiniteSet(queue)
      BY DEF TypeInv, TypeOK
    <3>3. queue' = queue \/ queue' = WithEntry(t, task[t].prio, task[t].created)
      BY <1>5 DEF Resume
    <3>4. CASE queue' = queue
      BY <3>2, <3>4
    <3>5. CASE queue' = WithEntry(t, task[t].prio, task[t].created)
      <4>1. PICK p \in 0..100, at \in Nat : p = task[t].prio /\ at = task[t].created
        BY <3>1
      <4>2. WithEntry(t, p, at) \subseteq Entry /\ IsFiniteSet(WithEntry(t, p, at))
        BY <3>2, PutFacts
      <4>3. QED
        BY <3>5, <4>1, <4>2
    <3>6. QED
      BY <3>3, <3>4, <3>5
  <2>5. QED
    BY <1>5, <2>3, <2>4 DEF Resume, TypeInv, TypeOK
<1>6. CASE \E old \in Tasks : Retry(old, t)
  <2>1. PICK old \in Tasks : Retry(old, t)
    BY <1>6
  <2>2. task[old].key \in Keys /\ OrDefault(task[old].prio) \in 0..100 /\ task[old].maxRetries \in Nat
    BY <1>0, OrDefaultType DEF Task
  <2>3. QED
    BY <2>1, <2>2, AddType DEF Retry, Add, TypeInv, TypeOK
<1>7. CASE CreateExternal(t)
  <2>1. PICK p \in Priorities : task' = [task EXCEPT ![t] = NewTask(GlobalKey, p, 0, TRUE)]
    BY <1>7 DEF CreateExternal
  <2>2. NewTask(GlobalKey, p, 0, TRUE) \in Task
    BY DEF NewTask, Task, Statuses, TypeInv, TypeOK
  <2>3. task' \in [Tasks -> Task]
    BY <1>0, <2>1, <2>2
  <2>4. clock' \in Nat /\ event' \in [Tasks -> BOOLEAN]
    BY <1>7 DEF CreateExternal, TypeInv, TypeOK
  <2>5. QED
    BY <1>7, <2>3, <2>4 DEF CreateExternal, TypeInv, TypeOK
<1>8. CASE BindExternal(t)
  <2>1. PICK k \in Keys : task' = [task EXCEPT ![t].key = k]
    BY <1>8 DEF BindExternal
  <2>2. [task[t] EXCEPT !.key = k] \in Task
    BY <1>0, RecordUpdates DEF Task
  <2>3. task' \in [Tasks -> Task]
    BY <1>0, <2>1, <2>2
  <2>4. QED
    BY <1>8, <2>3 DEF BindExternal, TypeInv, TypeOK
<1>9. CASE FinishExternal(t)
  <2>1. PICK v \in {"completed", "failed"} : task' = [task EXCEPT ![t].status = v]
    BY <1>9 DEF FinishExternal
  <2>2. [task[t] EXCEPT !.status = v] \in Task
    BY <1>0, RecordUpdates DEF Statuses, Terminal
  <2>3. task' \in [Tasks -> Task]
    BY <1>0, <2>1, <2>2
  <2>4. QED
    BY <1>9, <2>3 DEF FinishExternal, TypeInv, TypeOK
<1>10. QED
  BY <1>1, <1>2, <1>3, <1>4, <1>5, <1>6, <1>7, <1>8, <1>9 DEF Request

LEMMA WorkerType ==
  ASSUME IInv, NEW w \in Workers, WorkerStep(w)
  PROVE  TypeInv'
<1> USE TaskQueueAssumption
<1>0. /\ TypeInv
      /\ task \in [Tasks -> Task] /\ lockQ \in [Keys -> Seq(Workers)]
      /\ queue \subseteq Entry /\ IsFiniteSet(queue)
      /\ pc[w] \in Executing \cup {"lockwait"} => hand[w] \in Tasks
      /\ pc[w] \in Executing => lockQ[task[hand[w]].key] # <<>>
  BY DEF IInv, TypeInv, TypeOK, HandsFull, ExecutingIsFirst
<1>1. ASSUME NEW e \in queue, TakeEntry(w, e)
      PROVE  /\ queue' \subseteq Entry /\ IsFiniteSet(queue')
             /\ e.id \in Tasks /\ task[e.id].key \in Keys
             /\ UNCHANGED <<caller, clock, restarts>>
  <2>1. queue' = queue \ {e} /\ e \in Entry
    BY <1>0, <1>1 DEF TakeEntry
  <2>2. e.id \in Tasks
    BY <2>1 DEF Entry
  <2>3. task[e.id].key \in Keys
    BY <1>0, <2>2 DEF Task
  <2>4. QED
    BY <1>0, <1>1, <2>1, <2>2, <2>3, FS_RemoveElement DEF TakeEntry
<1>2. CASE PickSkips(w)
  BY <1>0, <1>1, <1>2 DEF PickSkips, TypeInv, TypeOK
<1>3. CASE PickPauses(w)
  <2>1. PICK e \in queue : TakeEntry(w, e) /\ task' = [task EXCEPT ![e.id].status = "paused"]
    BY <1>3 DEF PickPauses
  <2>2. e.id \in Tasks
    BY <1>1, <2>1
  <2>3. task' \in [Tasks -> Task]
    <3>1. [task[e.id] EXCEPT !.status = "paused"] \in Task
      BY <1>0, <2>2, RecordUpdates DEF Statuses
    <3>2. QED
      BY <1>0, <2>1, <2>2, <3>1
  <2>4. QED
    BY <1>0, <1>1, <1>3, <2>1, <2>3 DEF PickPauses, TypeInv, TypeOK
<1>4. CASE PickBegins(w)
  <2>1. PICK e \in queue : /\ TakeEntry(w, e)
                           /\ Begin(w, e.id, [lockQ EXCEPT ![task[e.id].key] = <<w>>])
    BY <1>4 DEF PickBegins
  <2>2. PICK t \in Tasks : t = e.id
    BY <1>1, <2>1
  <2>3. PICK locks \in [Keys -> Seq(Workers)] : locks = [lockQ EXCEPT ![task[e.id].key] = <<w>>]
    <3>1. <<w>> \in Seq(Workers)
      OBVIOUS
    <3>2. [lockQ EXCEPT ![task[e.id].key] = <<w>>] \in [Keys -> Seq(Workers)]
      BY <1>0, <3>1
    <3>3. QED
      BY <3>2
  <2>4. locks[task[t].key] # <<>> /\ Begin(w, t, locks)
    BY <1>0, <1>1, <2>1, <2>2, <2>3
  <2>5. QED
    BY <1>0, <1>1, <2>1, <2>4, BeginType DEF TypeInv, TypeOK
<1>5. CASE PickWaits(w)
  BY <1>0, <1>1, <1>5 DEF PickWaits, TypeInv, TypeOK
<1>6. CASE LockGranted(w)
  <2>1. PICK t \in Tasks : t = hand[w]
    BY <1>0, <1>6 DEF LockGranted
  <2>2. PICK locks \in [Keys -> Seq(Workers)] : locks = lockQ
    BY <1>0
  <2>3. locks[task[t].key] # <<>> /\ Begin(w, t, locks)
    BY <1>6, <2>1, <2>2 DEF LockGranted
  <2>4. QED
    BY <1>0, <1>6, <2>3, BeginType DEF LockGranted, TypeInv, TypeOK
<1>7. ASSUME pc[w] \in Executing, NEW st \in Terminal, Ends(w, hand[w], st)
      PROVE  TypeInv'
  <2>1. PICK t \in Tasks : t = hand[w]
    BY <1>0, <1>7
  <2>2. QED
    BY <1>0, <1>7, <2>1, EndsType
<1>8. CASE Succeeds(w)
  BY <1>7, <1>8 DEF Succeeds, Executing, Terminal
<1>9. CASE Fails(w)
  BY <1>7, <1>9 DEF Fails, Executing, Terminal
<1>10. CASE FailsAndRequeues(w)
  <2>1. PICK t \in Tasks : t = hand[w]
    BY <1>0, <1>10 DEF FailsAndRequeues, Executing
  <2>2. PICK p \in 0..100 : p = task[t].prio
    BY <1>0, <2>1 DEF Task
  <2>3. PICK at \in Nat : at = clock
    BY <1>0 DEF TypeInv, TypeOK
  <2>4. queue' \subseteq Entry /\ IsFiniteSet(queue')
    <3>1. queue' = WithEntry(t, p, at)
      BY <1>10, <2>1, <2>2, <2>3 DEF FailsAndRequeues
    <3>2. QED
      BY <1>0, <3>1, PutFacts
  <2>5. task' \in [Tasks -> Task]
    <3>1. [task[t] EXCEPT !.status = "queued"] \in Task
      BY <1>0, RecordUpdates DEF Statuses
    <3>2. QED
      BY <1>0, <1>10, <2>1, <3>1 DEF FailsAndRequeues
  <2>6. PICK locks \in [Keys -> Seq(Workers)] : locks = lockQ
    BY <1>0
  <2>7. Leave(w, t, locks, "idle") /\ locks[task[t].key] # <<>>
    BY <1>0, <1>10, <2>1, <2>6 DEF FailsAndRequeues, Executing
  <2>8. /\ lockQ' \in [Keys -> Seq(Workers)]
        /\ pc' \in [Workers -> Executing \cup {"idle", "lockwait", "backoff"}]
        /\ hand' \in [Workers -> Tasks \cup {NoTask}]
    BY <1>0, <2>7, LeaveType
  <2>9. QED
    BY <1>0, <1>10, <2>4, <2>5, <2>8 DEF FailsAndRequeues, TypeInv, TypeOK
<1>11. CASE CheckpointCancels(w)
  BY <1>7, <1>11 DEF CheckpointCancels, Executing, Terminal
<1>12. ASSUME pc[w] \in Executing, NEW st \in Statuses, NEW where \in Executing,
              task' = [task EXCEPT ![hand[w]].status = st],
              pc' = [pc EXCEPT ![w] = where],
              UNCHANGED <<queue, hand, lockQ, event, caller, clock, restarts>>
       PROVE  TypeInv'
  <2>1. [task[hand[w]] EXCEPT !.status = st] \in Task
    BY <1>0, <1>12, RecordUpdates
  <2>2. task' \in [Tasks -> Task]
    BY <1>0, <1>12, <2>1
  <2>3. QED
    BY <1>12, <1>0, <2>2 DEF TypeInv, TypeOK
<1>13. CASE CheckpointPauses(w)
  BY <1>12, <1>13 DEF CheckpointPauses, Executing, Statuses
<1>14. CASE CheckpointGone(w)
  <2>1. PICK t \in Tasks : t = hand[w]
    BY <1>0, <1>14 DEF CheckpointGone, Executing
  <2>2. PICK locks \in [Keys -> Seq(Workers)] : locks = lockQ
    BY <1>0
  <2>3. Leave(w, t, locks, "backoff") /\ locks[task[t].key] # <<>>
    BY <1>0, <1>14, <2>1, <2>2 DEF CheckpointGone, Executing
  <2>4. /\ lockQ' \in [Keys -> Seq(Workers)]
        /\ pc' \in [Workers -> Executing \cup {"idle", "lockwait", "backoff"}]
        /\ hand' \in [Workers -> Tasks \cup {NoTask}]
    BY <1>0, <2>3, LeaveType
  <2>5. QED
    BY <1>0, <1>14, <2>4 DEF CheckpointGone, TypeInv, TypeOK
<1>15. CASE CheckpointWakesCancelled(w)
  BY <1>7, <1>15 DEF CheckpointWakesCancelled, Executing, Terminal
<1>16. CASE CheckpointContinues(w)
  <2> DEFINE st == IF task[hand[w]].status = "paused" THEN "running" ELSE task[hand[w]].status
  <2>1. hand[w] \in Tasks /\ pc[w] \in Executing
    BY <1>0, <1>16 DEF CheckpointContinues, Executing
  <2>2. st \in Statuses
    BY <1>0, <2>1 DEF Task, Statuses
  <2>3. task' = [task EXCEPT ![hand[w]].status = st]
    BY <1>0, <1>16, <2>1 DEF CheckpointContinues
  <2>4. QED
    BY <1>12, <1>16, <2>1, <2>2, <2>3 DEF CheckpointContinues, Executing
<1>17. CASE BackoffEnds(w)
  BY <1>0, <1>17 DEF BackoffEnds, TypeInv, TypeOK
<1>18. QED
  BY <1>2, <1>3, <1>4, <1>5, <1>6, <1>8, <1>9, <1>10, <1>11, <1>13, <1>14, <1>15, <1>16, <1>17
     DEF WorkerStep

LEMMA TypeStep == IInv /\ [Next]_vars => TypeInv'
<1> SUFFICES ASSUME IInv, [Next]_vars PROVE TypeInv'
  OBVIOUS
<1>0. TypeInv
  BY DEF IInv
<1>1. ASSUME NEW t \in Tasks, Request(t) PROVE TypeInv'
  BY <1>0, <1>1, RequestType
<1>2. ASSUME NEW t \in Tasks, CallerWakes(t) PROVE TypeInv'
  BY <1>0, <1>2 DEF CallerWakes, TypeInv, TypeOK
<1>3. CASE ClearCompleted
  <2>1. \A r \in Task : Popped(r) \in Task
    <3>1. Blank \in Task
      BY TaskQueueAssumption DEF Blank, Task, Statuses, Missing
    <3>2. \A b \in Task, k \in Keys : [b EXCEPT !.status = "cleared", !.key = k] \in Task
      BY DEF Task, Statuses, Missing
    <3>3. \A r \in Task : r.key \in Keys
      BY DEF Task
    <3>4. QED
      BY <3>1, <3>2, <3>3 DEF Popped
  <2>2. task' \in [Tasks -> Task]
    BY <1>0, <1>3, <2>1 DEF ClearCompleted, TypeInv, TypeOK
  <2>3. QED
    BY <1>0, <1>3, <2>2 DEF ClearCompleted, TypeInv, TypeOK
<1>4. ASSUME NEW w \in Workers, WorkerStep(w) PROVE TypeInv'
  BY <1>4, WorkerType
<1>5. CASE Restart
  BY <1>0, <1>5, RestartType
<1>6. CASE UNCHANGED vars
  BY <1>0, <1>6 DEF vars, TypeInv, TypeOK
<1>7. QED
  BY <1>1, <1>2, <1>3, <1>4, <1>5, <1>6 DEF Next

-----------------------------------------------------------------------------
(* What one step does to a task that a worker or the queue knows            *)

\* Known tasks stay known and keep their key, and external ones stay out of
\* the states from which a worker takes tasks.
Frame ==
  \A t \in Tasks :
    /\ Known(t) => Known(t)' /\ task'[t].key = task[t].key
    /\ task'[t].external => task'[t].status \notin {"absent", "queued", "paused"}

LEMMA FrameOfUpdate ==
  ASSUME IInv, NEW t \in Tasks, NEW r, task' = [task EXCEPT ![t] = r],
         Known(t) => r.status # "absent" /\ ~r.external /\ r.key = task[t].key,
         r.external => r.status \notin {"absent", "queued", "paused"}
  PROVE  Frame
  BY DEF IInv, TypeInv, TypeOK, Frame, Known, ExternalStatus

LEMMA FrameOfUnchanged == ASSUME IInv, UNCHANGED task PROVE Frame
  BY DEF IInv, Frame, Known, ExternalStatus

\* A worker that changes the status of a known task.
LEMMA FrameOfStatus ==
  ASSUME IInv, NEW t \in Tasks, Known(t), NEW st \in Statuses, st # "absent",
         task' = [task EXCEPT ![t].status = st]
  PROVE  Frame
<1>1. task[t] \in Task
  BY DEF IInv, TypeInv, TypeOK
<1> DEFINE r == [task[t] EXCEPT !.status = st]
<1>2. r.status = st /\ r.external = task[t].external /\ r.key = task[t].key
  BY <1>1 DEF Task
<1>3. task' = [task EXCEPT ![t] = r]
  OBVIOUS
<1> HIDE DEF r
<1>4. QED
  BY <1>2, <1>3, FrameOfUpdate DEF Known

LEMMA FrameOfCancel ==
  ASSUME IInv, NEW t \in Tasks, Exists(t), CancelTask(t)
  PROVE  Frame
<1>1. CASE task[t].status \in Terminal
  BY <1>1, FrameOfUnchanged DEF CancelTask
<1>2. CASE task[t].status \notin Terminal
  <2> DEFINE st == IF task[t].status \in {"queued", "paused"} THEN "cancelled" ELSE "cancelling"
             r == [task[t] EXCEPT !.cancelReq = TRUE, !.pauseReq = FALSE, !.status = st]
  <2>1. task[t] \in Task
    BY DEF IInv, TypeInv, TypeOK
  <2>2. r.status = st /\ r.external = task[t].external /\ r.key = task[t].key
    BY <2>1 DEF Task
  <2>3. task' = [task EXCEPT ![t] = r]
    BY <1>2 DEF CancelTask
  <2>4. st \notin {"absent", "queued", "paused"}
    OBVIOUS
  <2> HIDE DEF r, st
  <2>5. QED
    BY <2>2, <2>3, <2>4, FrameOfUpdate DEF Known
<1>3. QED
  BY <1>1, <1>2

LEMMA FrameOfBegin ==
  ASSUME IInv, NEW w \in Workers, NEW t \in Tasks, Known(t), NEW locks, Begin(w, t, locks)
  PROVE  Frame
<1>1. CASE ~Exists(t)
  BY <1>1, FrameOfUnchanged DEF Begin
<1>2. CASE Exists(t) /\ task[t].cancelReq
  BY <1>2, FrameOfCancel DEF Begin
<1>3. CASE Exists(t) /\ ~task[t].cancelReq
  <2> DEFINE st == IF task[t].pauseReq THEN "paused" ELSE "running"
             r == [task[t] EXCEPT !.started = TRUE, !.attempt = @ + 1, !.status = st]
  <2>1. task[t] \in Task
    BY DEF IInv, TypeInv, TypeOK
  <2>2. r.status = st /\ r.external = task[t].external /\ r.key = task[t].key
    BY <2>1 DEF Task
  <2>3. task' = [task EXCEPT ![t] = r]
    BY <1>3 DEF Begin
  <2>4. st # "absent"
    OBVIOUS
  <2> HIDE DEF r, st
  <2>5. QED
    BY <2>2, <2>3, <2>4, FrameOfUpdate DEF Known
<1>4. QED
  BY <1>1, <1>2, <1>3

LEMMA FrameOfRequest ==
  ASSUME IInv, NEW t \in Tasks, Request(t)
  PROVE  Frame
<1>0. task \in [Tasks -> Task] /\ task[t] \in Task
  BY DEF IInv, TypeInv, TypeOK
<1>1. ASSUME NEW k, NEW p, NEW m, Add(t, k, p, m) PROVE Frame
  <2>1. task' = [task EXCEPT ![t] = NewTask(k, p, m, FALSE)] /\ ~Known(t)
    BY <1>1 DEF Add, Known
  <2>2. ~NewTask(k, p, m, FALSE).external
    BY DEF NewTask
  <2>3. QED
    BY <2>1, <2>2, FrameOfUpdate
<1>2. CASE Cancel(t)
  BY <1>2, FrameOfCancel DEF Cancel, Live
<1>3. CASE Pause(t)
  <2> DEFINE st == IF task[t].status = "queued" THEN "paused" ELSE task[t].status
             r == [task[t] EXCEPT !.pauseReq = TRUE, !.status = st]
  <2>1. r.status = st /\ r.external = task[t].external /\ r.key = task[t].key
    BY <1>0 DEF Task
  <2>2. task' = [task EXCEPT ![t] = r]
    BY <1>0, <1>3 DEF Pause
  <2>3. Known(t) => st # "absent"
    BY DEF Known
  <2>4. task[t].external => st \notin {"absent", "queued", "paused"}
    BY DEF IInv, ExternalStatus
  <2> HIDE DEF r, st
  <2>5. QED
    BY <2>1, <2>2, <2>3, <2>4, FrameOfUpdate DEF Known
<1>4. CASE Resume(t)
  <2> DEFINE st == IF task[t].status = "paused" /\ ~task[t].started THEN "queued" ELSE task[t].status
             r == [task[t] EXCEPT !.pauseReq = FALSE, !.status = st]
  <2>1. r.status = st /\ r.external = task[t].external /\ r.key = task[t].key
    BY <1>0 DEF Task
  <2>2. task' = [task EXCEPT ![t] = r]
    BY <1>0, <1>4 DEF Resume
  <2>3. Known(t) => st # "absent"
    BY DEF Known
  <2>4. task[t].external => st \notin {"absent", "queued", "paused"}
    BY DEF IInv, ExternalStatus
  <2> HIDE DEF r, st
  <2>5. QED
    BY <2>1, <2>2, <2>3, <2>4, FrameOfUpdate DEF Known
<1>5. CASE CreateExternal(t)
  <2>1. PICK p \in Priorities : task' = [task EXCEPT ![t] = NewTask(GlobalKey, p, 0, TRUE)]
    BY <1>5 DEF CreateExternal
  <2>2. ~Known(t) /\ NewTask(GlobalKey, p, 0, TRUE).status = "running"
    BY <1>5 DEF CreateExternal, Known, NewTask
  <2>3. QED
    BY <2>1, <2>2, FrameOfUpdate
<1>6. CASE BindExternal(t)
  <2>1. PICK k \in Keys : task' = [task EXCEPT ![t] = [task[t] EXCEPT !.key = k]]
    BY <1>6 DEF BindExternal
  <2>2. ~Known(t) /\ [task[t] EXCEPT !.key = k].status = task[t].status
    BY <1>0, <1>6 DEF BindExternal, Known, Task
  <2>3. task[t].status \notin {"absent", "queued", "paused"}
    BY <1>6 DEF BindExternal, IInv, ExternalStatus
  <2>4. QED
    BY <2>1, <2>2, <2>3, FrameOfUpdate
<1>7. CASE FinishExternal(t)
  <2>1. PICK v \in {"completed", "failed"} : task' = [task EXCEPT ![t] = [task[t] EXCEPT !.status = v]]
    BY <1>7 DEF FinishExternal
  <2>2. ~Known(t) /\ [task[t] EXCEPT !.status = v].status = v
    BY <1>0, <1>7 DEF FinishExternal, Known, Task
  <2>3. QED
    BY <2>1, <2>2, FrameOfUpdate
<1>8. QED
  BY <1>1, <1>2, <1>3, <1>4, <1>5, <1>6, <1>7 DEF Request, Enqueue, EnqueueAndWait, Retry

LEMMA FrameOfWorker ==
  ASSUME IInv, NEW w \in Workers, WorkerStep(w)
  PROVE  Frame
<1>1. \A e \in queue : e.id \in Tasks /\ Known(e.id)
  BY DEF IInv, TypeInv, TypeOK, Entry, EntriesKnown
<1>2. pc[w] \in Executing \cup {"lockwait"} => hand[w] \in Tasks /\ Known(hand[w])
  BY DEF IInv, HandsFull, HandsKnown
<1>3. CASE PickSkips(w) \/ PickWaits(w) \/ CheckpointGone(w) \/ BackoffEnds(w)
  BY <1>3, FrameOfUnchanged DEF PickSkips, PickWaits, CheckpointGone, BackoffEnds
<1>4. CASE PickPauses(w)
  BY <1>1, <1>4, FrameOfStatus DEF PickPauses, Statuses
<1>5. CASE PickBegins(w)
  BY <1>1, <1>5, FrameOfBegin DEF PickBegins
<1>6. CASE LockGranted(w)
  BY <1>2, <1>6, FrameOfBegin DEF LockGranted
<1>7. CASE Succeeds(w) \/ Fails(w) \/ CheckpointCancels(w) \/ CheckpointWakesCancelled(w)
  <2>1. PICK st \in Terminal : pc[w] \in Executing /\ task' = [task EXCEPT ![hand[w]].status = st]
    BY <1>7 DEF Succeeds, Fails, CheckpointCancels, CheckpointWakesCancelled, Ends, Executing, Terminal
  <2>2. st \in Statuses /\ st # "absent"
    BY DEF Statuses, Terminal
  <2>3. QED
    BY <1>2, <2>1, <2>2, FrameOfStatus
<1>8. CASE FailsAndRequeues(w)
  BY <1>2, <1>8, FrameOfStatus DEF FailsAndRequeues, Executing, Statuses
<1>9. CASE CheckpointPauses(w)
  BY <1>2, <1>9, FrameOfStatus DEF CheckpointPauses, Executing, Statuses
<1>10. CASE CheckpointContinues(w)
  <2> DEFINE st == IF task[hand[w]].status = "paused" THEN "running" ELSE task[hand[w]].status
  <2>1. hand[w] \in Tasks /\ Known(hand[w])
    BY <1>2, <1>10 DEF CheckpointContinues, Executing
  <2>2. task[hand[w]] \in Task
    BY <2>1 DEF IInv, TypeInv, TypeOK
  <2>3. st \in Statuses /\ st # "absent"
    BY <2>1, <2>2 DEF Known, Task, Statuses
  <2>4. task' = [task EXCEPT ![hand[w]].status = st]
    BY <1>10, <2>1 DEF CheckpointContinues, IInv, TypeInv, TypeOK
  <2>5. QED
    BY <2>1, <2>3, <2>4, FrameOfStatus
<1>11. QED
  BY <1>3, <1>4, <1>5, <1>6, <1>7, <1>8, <1>9, <1>10 DEF WorkerStep

LEMMA FrameStep == IInv /\ [Next]_vars => Frame
<1> SUFFICES ASSUME IInv, [Next]_vars PROVE Frame
  OBVIOUS
<1>1. ASSUME NEW t \in Tasks, Request(t) PROVE Frame
  BY <1>1, FrameOfRequest
<1>2. CASE (\E t \in Tasks : CallerWakes(t)) \/ UNCHANGED vars
  BY <1>2, FrameOfUnchanged DEF CallerWakes, vars
<1>3. CASE ClearCompleted
  <2>1. \A r \in Task : Popped(r).key = r.key /\ ~Popped(r).external /\ Popped(r).status = "cleared"
    BY DEF Popped, Blank
  <2>2. QED
    BY <1>3, <2>1 DEF ClearCompleted, Frame, Known, IInv, TypeInv, TypeOK, ExternalStatus
<1>4. ASSUME NEW w \in Workers, WorkerStep(w) PROVE Frame
  BY <1>4, FrameOfWorker
<1>5. CASE Restart
  <2>1. \A r \in Task : /\ Loaded(r).key = r.key /\ Loaded(r).external = r.external
                        /\ Loaded(r).status = r.status \/ Loaded(r).status = "failed"
    BY DEF Loaded, Task
  <2>2. QED
    BY <1>5, <2>1 DEF Restart, Frame, Known, IInv, TypeInv, TypeOK, ExternalStatus
<1>6. QED
  BY <1>1, <1>2, <1>3, <1>4, <1>5 DEF Next

-----------------------------------------------------------------------------
(* What a worker's step does to the locks, the five ways there are          *)

Keeps(w) == UNCHANGED <<hand, lockQ>> /\ pc'[w] \notin Executing \cup {"lockwait"}
              /\ pc' = [pc EXCEPT ![w] = pc'[w]]
Enters(w) == \E t \in Tasks :
  /\ Known(t)
  /\ hand' = [hand EXCEPT ![w] = t]
  /\ \/ /\ pc' = [pc EXCEPT ![w] = "lockwait"]
        /\ lockQ[task[t].key] # <<>>
        /\ lockQ' = [lockQ EXCEPT ![task[t].key] = Append(@, w)]
     \/ /\ \E x \in Executing : pc' = [pc EXCEPT ![w] = x]
        /\ lockQ[task[t].key] = <<>>
        /\ lockQ' = [lockQ EXCEPT ![task[t].key] = <<w>>]
HoldsFirst(w) == /\ hand[w] \in Tasks /\ lockQ[task[hand[w]].key] # <<>>
                 /\ Head(lockQ[task[hand[w]].key]) = w
GoesOn(w) == /\ HoldsFirst(w) /\ UNCHANGED <<hand, lockQ>>
             /\ \E x \in Executing : pc' = [pc EXCEPT ![w] = x]
GoesAway(w) == /\ HoldsFirst(w)
               /\ lockQ' = [lockQ EXCEPT ![task[hand[w]].key] = Tail(@)]
               /\ hand' = [hand EXCEPT ![w] = NoTask]
               /\ \E x \in {"idle", "backoff"} : pc' = [pc EXCEPT ![w] = x]
ComesAndGoes(w) == /\ UNCHANGED lockQ
                   /\ hand' = [hand EXCEPT ![w] = NoTask]
                   /\ \E x \in {"idle", "backoff"} : pc' = [pc EXCEPT ![w] = x]

Moves(w) == \/ UNCHANGED <<pc, hand, lockQ>>
            \/ Keeps(w) \/ Enters(w) \/ GoesOn(w) \/ GoesAway(w) \/ ComesAndGoes(w)

LEMMA WorkerMoves ==
  ASSUME IInv, NEW w \in Workers, WorkerStep(w)
  PROVE  Moves(w)
<1>0. /\ \A e \in queue : e.id \in Tasks /\ Known(e.id)
      /\ pc[w] \in Executing => HoldsFirst(w)
      /\ pc[w] = "lockwait" => hand[w] \in Tasks
      /\ pc \in [Workers -> Executing \cup {"idle", "lockwait", "backoff"}]
      /\ hand \in [Workers -> Tasks \cup {NoTask}]
      /\ lockQ \in [Keys -> Seq(Workers)]
      /\ \A t \in Tasks : task[t].key \in Keys
  BY DEF IInv, TypeInv, TypeOK, Entry, EntriesKnown, HandsFull, ExecutingIsFirst, HoldsFirst, Task
<1>1. CASE PickSkips(w) \/ PickPauses(w)
  BY <1>1 DEF PickSkips, PickPauses, Moves
<1>2. CASE PickWaits(w)
  <2>1. Enters(w)
    BY <1>0, <1>2 DEF PickWaits, Enters
  <2>2. QED
    BY <2>1 DEF Moves
<1>3. CASE PickBegins(w)
  <2>1. PICK e \in queue : /\ lockQ[task[e.id].key] = <<>>
                           /\ Begin(w, e.id, [lockQ EXCEPT ![task[e.id].key] = <<w>>])
    BY <1>3 DEF PickBegins
  <2>2. CASE Enters(w)
    BY <2>2 DEF Moves
  <2>3. CASE ~Enters(w)
    <3> DEFINE k == task[e.id].key
               locks == [lockQ EXCEPT ![k] = <<w>>]
    <3>1. \E x \in {"idle", "backoff"} : Leave(w, e.id, locks, x)
      BY <1>0, <2>1, <2>3 DEF Begin, Enters, Executing
    <3>2. lockQ' = [locks EXCEPT ![k] = Tail(locks[k])]
      BY <3>1 DEF Leave
    <3>3. k \in Keys
      BY <1>0
    <3>4. locks[k] = <<w>> /\ Tail(<<w>>) = <<>>
      BY <1>0, <3>3
    <3>5. lockQ' = lockQ
      BY <1>0, <2>1, <3>2, <3>3, <3>4
    <3>6. ComesAndGoes(w)
      BY <3>1, <3>5 DEF Leave, ComesAndGoes
    <3>7. QED
      BY <3>6 DEF Moves
  <2>4. QED
    BY <2>2, <2>3
<1>4. CASE LockGranted(w)
  <2>1. HoldsFirst(w) /\ Begin(w, hand[w], lockQ)
    BY <1>0, <1>4 DEF LockGranted, HoldsFirst
  <2>2. CASE \E x \in {"idle", "backoff"} : Leave(w, hand[w], lockQ, x)
    <3>1. GoesAway(w)
      BY <2>1, <2>2 DEF Leave, GoesAway
    <3>2. QED
      BY <3>1 DEF Moves
  <2>3. CASE ~\E x \in {"idle", "backoff"} : Leave(w, hand[w], lockQ, x)
    <3>1. /\ hand' = [hand EXCEPT ![w] = hand[w]] /\ lockQ' = lockQ
          /\ \E x \in Executing : pc' = [pc EXCEPT ![w] = x]
      BY <2>1, <2>3 DEF Begin, Executing
    <3>2. GoesOn(w)
      BY <1>0, <2>1, <3>1 DEF GoesOn
    <3>3. QED
      BY <3>2 DEF Moves
  <2>4. QED
    BY <2>2, <2>3
<1>5. CASE \/ Succeeds(w) \/ Fails(w) \/ FailsAndRequeues(w) \/ CheckpointCancels(w)
           \/ CheckpointGone(w) \/ CheckpointWakesCancelled(w)
  <2>1. pc[w] \in Executing /\ \E x \in {"idle", "backoff"} : Leave(w, hand[w], lockQ, x)
    BY <1>5 DEF Succeeds, Fails, FailsAndRequeues, CheckpointCancels, CheckpointGone,
                CheckpointWakesCancelled, Ends, Executing
  <2>2. GoesAway(w)
    BY <1>0, <2>1 DEF Leave, GoesAway
  <2>3. QED
    BY <2>2 DEF Moves
<1>6. CASE CheckpointPauses(w) \/ CheckpointContinues(w)
  <2>1. GoesOn(w)
    BY <1>0, <1>6 DEF CheckpointPauses, CheckpointContinues, GoesOn, Executing
  <2>2. QED
    BY <2>1 DEF Moves
<1>7. CASE BackoffEnds(w)
  <2>1. Keeps(w)
    BY <1>0, <1>7 DEF BackoffEnds, Keeps, Executing
  <2>2. QED
    BY <2>1 DEF Moves
<1>8. QED
  BY <1>1, <1>2, <1>3, <1>4, <1>5, <1>6, <1>7 DEF WorkerStep

-----------------------------------------------------------------------------
(* The invariant is inductive                                               *)

WorkersOK == HandsFull /\ HandsKnown /\ ExecutingIsFirst

LEMMA MovesKeepWorkers ==
  ASSUME IInv, Frame, NEW w \in Workers, Moves(w)
  PROVE  WorkersOK'
<1>0. /\ pc \in [Workers -> Executing \cup {"idle", "lockwait", "backoff"}]
      /\ hand \in [Workers -> Tasks \cup {NoTask}]
      /\ lockQ \in [Keys -> Seq(Workers)]
      /\ \A t \in Tasks : task[t].key \in Keys
      /\ NoTask \notin Tasks
      /\ \A t \in Tasks : Known(t) => Known(t)' /\ task'[t].key = task[t].key
      /\ HandsFull /\ HandsKnown /\ ExecutingIsFirst
  BY TaskQueueAssumption DEF IInv, TypeInv, TypeOK, Task, Frame
<1>1. \A v \in Workers : v # w => pc'[v] = pc[v] /\ hand'[v] = hand[v]
  BY <1>0 DEF Moves, Keeps, Enters, GoesOn, GoesAway, ComesAndGoes
<1>2. HandsFull'
  BY <1>0, <1>1 DEF HandsFull, Moves, Keeps, Enters, GoesOn, GoesAway, HoldsFirst, ComesAndGoes, Executing
<1>3. HandsKnown'
  <2>1. \A v \in Workers : hand'[v] \in Tasks => Known(hand'[v])
    BY <1>0, <1>1 DEF HandsKnown, Moves, Keeps, Enters, GoesOn, GoesAway, ComesAndGoes
  <2>2. QED
    BY <1>0, <2>1 DEF HandsKnown, Known
<1>4. ASSUME NEW v \in Workers, pc'[v] \in Executing
      PROVE  lockQ'[task'[hand'[v]].key] # <<>> /\ Head(lockQ'[task'[hand'[v]].key]) = v
  <2>0. hand'[v] \in Tasks /\ Known(hand'[v]) /\ task'[hand'[v]].key = task[hand'[v]].key
    <3>1. hand'[v] \in Tasks
      BY <1>2, <1>4 DEF HandsFull
    <3>2. Known(hand'[v])
      BY <1>0, <1>1, <3>1 DEF HandsKnown, Moves, Keeps, Enters, GoesOn, GoesAway, ComesAndGoes
    <3>3. QED
      BY <1>0, <3>1, <3>2
  <2> DEFINE k == task[hand'[v]].key
  <2>1. k \in Keys
    BY <1>0, <2>0
  <2>2. SUFFICES lockQ'[k] # <<>> /\ Head(lockQ'[k]) = v
    BY <2>0
  <2>3. CASE v # w
    <3>1. hand'[v] = hand[v] /\ lockQ[k] # <<>> /\ Head(lockQ[k]) = v /\ pc[v] \in Executing
      BY <1>0, <1>1, <1>4, <2>3 DEF ExecutingIsFirst
    <3>2. CASE UNCHANGED lockQ
      BY <3>1, <3>2
    <3>3. CASE Enters(w)
      <4>1. PICK t \in Tasks :
              \/ lockQ[task[t].key] # <<>> /\ lockQ' = [lockQ EXCEPT ![task[t].key] = Append(@, w)]
              \/ lockQ[task[t].key] = <<>> /\ lockQ' = [lockQ EXCEPT ![task[t].key] = <<w>>]
        BY <3>3 DEF Enters
      <4>2. lockQ[k] \in Seq(Workers)
        BY <1>0, <2>1
      <4>3. Append(lockQ[k], w) # <<>> /\ Head(Append(lockQ[k], w)) = v
        BY <3>1, <4>2
      <4> HIDE DEF k
      <4>4. CASE lockQ'[k] = lockQ[k]
        BY <3>1, <4>4
      <4>5. CASE lockQ'[k] # lockQ[k]
        BY <1>0, <2>1, <3>1, <4>1, <4>3, <4>5
      <4>6. QED
        BY <4>4, <4>5
    <3>4. CASE GoesAway(w)
      <4>1. task[hand[w]].key # k
        BY <2>3, <3>1, <3>4 DEF GoesAway, HoldsFirst
      <4> HIDE DEF k
      <4>2. lockQ'[k] = lockQ[k]
        BY <1>0, <2>1, <3>4, <4>1 DEF GoesAway, HoldsFirst
      <4>3. QED
        BY <3>1, <4>2
    <3>5. QED
      BY <3>2, <3>3, <3>4 DEF Moves, Keeps, GoesOn, ComesAndGoes
  <2>4. CASE v = w
    <3>1. CASE UNCHANGED <<pc, hand, lockQ>>
      BY <1>0, <1>4, <3>1 DEF ExecutingIsFirst
    <3>2. CASE Enters(w)
      <4>1. PICK t \in Tasks : /\ hand' = [hand EXCEPT ![w] = t]
                              /\ lockQ' = [lockQ EXCEPT ![task[t].key] = <<w>>]
        BY <1>0, <1>4, <2>4, <3>2 DEF Enters, Executing
      <4>2. hand'[v] = t
        BY <1>0, <2>4, <4>1
      <4>3. lockQ'[k] = <<w>>
        BY <1>0, <2>1, <4>1, <4>2
      <4>4. QED
        BY <2>4, <4>3
    <3>3. CASE GoesOn(w)
      BY <2>4, <3>3 DEF GoesOn, HoldsFirst
    <3>4. CASE Keeps(w) \/ GoesAway(w) \/ ComesAndGoes(w)
      BY <1>0, <1>4, <2>4, <3>4 DEF Keeps, GoesAway, ComesAndGoes, Executing
    <3>5. QED
      BY <3>1, <3>2, <3>3, <3>4 DEF Moves
  <2>5. QED
    BY <2>3, <2>4
<1>5. QED
  BY <1>2, <1>3, <1>4 DEF WorkersOK, ExecutingIsFirst

LEMMA WorkersStep == IInv /\ [Next]_vars => WorkersOK'
<1> SUFFICES ASSUME IInv, [Next]_vars PROVE WorkersOK'
  OBVIOUS
<1>1. Frame
  BY FrameStep
<1>2. CASE UNCHANGED <<pc, hand, lockQ>>
  BY <1>1, <1>2 DEF IInv, TypeInv, TypeOK, Frame, WorkersOK, HandsFull, HandsKnown, Known, ExecutingIsFirst
<1>3. ASSUME NEW w \in Workers, WorkerStep(w) PROVE WorkersOK'
  BY <1>1, <1>3, WorkerMoves, MovesKeepWorkers
<1>4. CASE Restart
  BY <1>4, TaskQueueAssumption DEF Restart, WorkersOK, HandsFull, HandsKnown, ExecutingIsFirst, Executing
<1>5. QED
  BY <1>2, <1>3, <1>4 DEF Next, Request, Enqueue, EnqueueAndWait, Add, Cancel, Pause, Resume,
     Retry, CreateExternal, BindExternal, FinishExternal, CallerWakes, ClearCompleted, vars

\* Whatever is put in the queue is known after the step.
LEMMA EntriesStep == IInv /\ [Next]_vars => EntriesKnown'
<1> SUFFICES ASSUME IInv, [Next]_vars PROVE EntriesKnown'
  OBVIOUS
<1>0. /\ Frame /\ EntriesKnown /\ queue \subseteq Entry /\ IsFiniteSet(queue)
      /\ task \in [Tasks -> Task] /\ clock \in Nat
      /\ \A e \in queue : e.id \in Tasks
      /\ \A t \in Tasks : task[t].status \in {"queued", "paused"} => Known(t)
  BY FrameStep DEF IInv, TypeInv, TypeOK, Entry, ExternalStatus, Known
<1>1. ASSUME \A e \in queue' : e \in queue \/ (e.id \in Tasks /\ Known(e.id)')
      PROVE  EntriesKnown'
  BY <1>0, <1>1 DEF EntriesKnown, Frame, Known
<1>2. CASE queue' \subseteq queue
  BY <1>1, <1>2
<1>3. ASSUME NEW t \in Tasks, NEW p \in 0..100, NEW at \in Nat,
             queue' = WithEntry(t, p, at), Known(t)'
      PROVE  EntriesKnown'
  <2>1. \A e \in WithEntry(t, p, at) : e \in queue \/ e.id = t
    BY <1>0, PutFacts
  <2>2. QED
    BY <1>1, <1>3, <2>1
<1>4. ASSUME NEW t \in Tasks, NEW k, NEW p \in 0..100, NEW m, Add(t, k, p, m)
      PROVE  EntriesKnown'
  <2>1. Known(t)'
    BY <1>0, <1>4 DEF Add, NewTask, Known
  <2>2. PICK at \in Nat : at = clock
    BY <1>0
  <2>3. queue' = WithEntry(t, p, at)
    BY <1>4, <2>2 DEF Add
  <2>4. QED
    BY <1>3, <2>1, <2>3
<1>5. ASSUME NEW t \in Tasks, Request(t) PROVE EntriesKnown'
  <2>1. CASE Enqueue(t) \/ EnqueueAndWait(t)
    BY <1>4, <2>1, TaskQueueAssumption DEF Enqueue, EnqueueAndWait
  <2>2. CASE \E old \in Tasks : Retry(old, t)
    <3>1. PICK old \in Tasks : Retry(old, t)
      BY <2>2
    <3>2. PICK p \in 0..100 : p = OrDefault(task[old].prio)
      BY <1>0, OrDefaultType DEF Task
    <3>3. QED
      BY <1>4, <3>1, <3>2 DEF Retry
  <2>3. CASE Resume(t)
    <3>1. CASE queue' = queue
      BY <1>2, <3>1
    <3>2. CASE queue' # queue
      <4>1. Known(t)
        BY <1>0, <2>3, <3>2 DEF Resume
      <4>2. Known(t)'
        BY <1>0, <4>1 DEF Frame
      <4>3. PICK p \in 0..100, at \in Nat : p = task[t].prio /\ at = task[t].created
        BY <1>0 DEF Task
      <4>4. QED
        BY <1>3, <2>3, <3>2, <4>2, <4>3 DEF Resume
    <3>3. QED
      BY <3>1, <3>2
  <2>4. CASE Cancel(t) \/ Pause(t) \/ CreateExternal(t) \/ BindExternal(t) \/ FinishExternal(t)
    BY <1>2, <2>4 DEF Cancel, Pause, CreateExternal, BindExternal, FinishExternal
  <2>5. QED
    BY <1>5, <2>1, <2>2, <2>3, <2>4 DEF Request
<1>6. CASE (\E t \in Tasks : CallerWakes(t)) \/ ClearCompleted \/ UNCHANGED vars
  BY <1>2, <1>6 DEF CallerWakes, ClearCompleted, vars
<1>7. ASSUME NEW w \in Workers, WorkerStep(w) PROVE EntriesKnown'
  <2>1. CASE FailsAndRequeues(w)
    <3>1. hand[w] \in Tasks /\ Known(hand[w])
      BY <2>1 DEF FailsAndRequeues, IInv, HandsFull, HandsKnown, Executing
    <3>2. PICK t \in Tasks, p \in 0..100, at \in Nat : t = hand[w] /\ p = task[t].prio /\ at = clock
      BY <1>0, <3>1 DEF Task
    <3>3. Known(t)'
      BY <1>0, <3>1, <3>2 DEF Frame
    <3>4. QED
      BY <1>3, <2>1, <3>2, <3>3 DEF FailsAndRequeues
  <2>2. CASE ~FailsAndRequeues(w)
    <3>1. queue' \subseteq queue
      BY <1>7, <2>2 DEF WorkerStep, PickSkips, PickPauses, PickBegins, PickWaits, TakeEntry,
         LockGranted, Succeeds, Fails, CheckpointCancels, CheckpointWakesCancelled, Ends,
         CheckpointPauses, CheckpointGone, CheckpointContinues, BackoffEnds
    <3>2. QED
      BY <1>2, <3>1
  <2>3. QED
    BY <2>1, <2>2
<1>8. CASE Restart
  <2>1. \A e \in queue' : \E t \in Tasks : e.id = t /\ Loaded(task[t]).status = "queued"
    BY <1>8 DEF Restart
  <2>2. \A t \in Tasks : Loaded(task[t]).status = "queued" => task[t].status = "queued"
    BY <1>0 DEF Loaded, Task
  <2>3. \A e \in queue' : e.id \in Tasks /\ Known(e.id)
    BY <1>0, <2>1, <2>2
  <2>4. QED
    BY <1>0, <1>1, <2>3 DEF Frame
<1>9. QED
  BY <1>5, <1>6, <1>7, <1>8 DEF Next

LEMMA IInvInit == Init => IInv
<1> SUFFICES ASSUME Init PROVE IInv
  OBVIOUS
<1>1. TypeInv
  BY TypeInit
<1>2. HandsFull /\ HandsKnown /\ ExecutingIsFirst
  BY TaskQueueAssumption DEF Init, HandsFull, HandsKnown, ExecutingIsFirst, Executing
<1>3. EntriesKnown /\ ExternalStatus
  BY DEF Init, EntriesKnown, ExternalStatus, Blank
<1>4. QED
  BY <1>1, <1>2, <1>3 DEF IInv

LEMMA IInvStep == IInv /\ [Next]_vars => IInv'
<1> SUFFICES ASSUME IInv, [Next]_vars PROVE IInv'
  OBVIOUS
<1>1. TypeInv' /\ WorkersOK' /\ EntriesKnown' /\ Frame
  BY TypeStep, WorkersStep, EntriesStep, FrameStep
<1>2. ExternalStatus'
  BY <1>1 DEF Frame, ExternalStatus
<1>3. QED
  BY <1>1, <1>2 DEF IInv, WorkersOK

LEMMA Invariance == Spec => []IInv
  BY IInvInit, IInvStep, PTL DEF Spec

-----------------------------------------------------------------------------
(* Theorems                                                                 *)

\* Every reachable state is well typed: no counter, queue entry or lock queue
\* of task_queue.py leaves its range.
THEOREM TypeCorrect == Spec => []TypeOK
<1>1. IInv => TypeOK
  BY DEF IInv, TypeInv
<1>2. QED
  BY Invariance, <1>1, PTL

\* Two workers never execute tasks of one server instance at the same time,
\* even for a task that was put in the queue twice (_worker, `async with lock`).
THEOREM Serialization == Spec => []SerializedPerInstance
<1>1. IInv => SerializedPerInstance
  BY DEF IInv, ExecutingIsFirst, SerializedPerInstance
<1>2. QED
  BY Invariance, <1>1, PTL

\* The external tasks of deploy_jobs.py never reach a worker.
THEOREM ExternalStaysOut == Spec => []ExternalHasNoWorker
<1>1. IInv => ExternalHasNoWorker
  BY DEF IInv, HandsKnown, EntriesKnown, Known, ExternalHasNoWorker
<1>2. QED
  BY Invariance, <1>1, PTL

-----------------------------------------------------------------------------
(* No queued task is forgotten                                              *)

Scheduled(t) ==
  \/ \E e \in queue : e.id = t
  \/ \E w \in Workers : pc[w] = "lockwait" /\ hand[w] = t

\* A task that begins, or whose worker finds it cancelled, is not queued.
LEMMA BeginLeavesQueued ==
  ASSUME TypeInv, NEW w \in Workers, NEW t \in Tasks, NEW locks, Begin(w, t, locks)
  PROVE  /\ task'[t].status # "queued"
         /\ \A u \in Tasks : u # t => task'[u] = task[u]
<1>0. task \in [Tasks -> Task] /\ task[t] \in Task
  BY DEF TypeInv, TypeOK
<1>1. CASE ~Exists(t)
  BY <1>1 DEF Begin, Exists, Missing
<1>2. CASE Exists(t) /\ task[t].cancelReq
  BY <1>0, <1>2 DEF Begin, CancelTask, Terminal, Task
<1>3. CASE Exists(t) /\ ~task[t].cancelReq
  BY <1>0, <1>3 DEF Begin, Task
<1>4. QED
  BY <1>1, <1>2, <1>3

LEMMA SchedOfPut ==
  ASSUME IInv, QueuedIsScheduled, NEW t \in Tasks, NEW p \in 0..100, NEW at \in Nat,
         queue' = WithEntry(t, p, at), UNCHANGED <<pc, hand>>,
         \A u \in Tasks : u # t => task'[u] = task[u]
  PROVE  QueuedIsScheduled'
<1>1. queue \subseteq queue' /\ \E e \in queue' : e.id = t
  BY PutFacts DEF IInv, TypeInv, TypeOK
<1>2. QED
  BY <1>1 DEF QueuedIsScheduled

LEMMA SchedOfRest ==
  ASSUME QueuedIsScheduled, UNCHANGED <<queue, pc, hand>>,
         \A t \in Tasks : task'[t].status = "queued" => task[t].status = "queued"
  PROVE  QueuedIsScheduled'
  BY DEF QueuedIsScheduled

LEMMA SchedRequest ==
  ASSUME IInv, QueuedIsScheduled, NEW t \in Tasks, Request(t)
  PROVE  QueuedIsScheduled'
<1>0. task \in [Tasks -> Task] /\ task[t] \in Task /\ clock \in Nat
  BY DEF IInv, TypeInv, TypeOK
<1>1. ASSUME NEW k, NEW p \in 0..100, NEW m, Add(t, k, p, m)
      PROVE  QueuedIsScheduled'
  <2>1. PICK at \in Nat : at = clock
    BY <1>0
  <2>2. /\ queue' = WithEntry(t, p, at) /\ UNCHANGED <<pc, hand>>
        /\ \A u \in Tasks : u # t => task'[u] = task[u]
    BY <1>0, <1>1, <2>1 DEF Add
  <2>3. QED
    BY <2>2, SchedOfPut
<1>2. CASE Enqueue(t) \/ EnqueueAndWait(t)
  BY <1>1, <1>2, TaskQueueAssumption DEF Enqueue, EnqueueAndWait
<1>3. CASE \E old \in Tasks : Retry(old, t)
  <2>1. PICK old \in Tasks : Retry(old, t)
    BY <1>3
  <2>2. PICK p \in 0..100 : p = OrDefault(task[old].prio)
    BY <1>0, OrDefaultType DEF Task
  <2>3. QED
    BY <1>1, <2>1, <2>2 DEF Retry
<1>4. CASE Resume(t)
  <2>1. /\ UNCHANGED <<pc, hand>>
        /\ \A u \in Tasks : u # t => task'[u] = task[u]
    BY <1>0, <1>4 DEF Resume
  <2>2. PICK p \in 0..100, at \in Nat : p = task[t].prio /\ at = task[t].created
    BY <1>0 DEF Task
  <2>3. CASE task[t].status = "paused" /\ ~task[t].started
    BY <1>4, <2>1, <2>2, <2>3, SchedOfPut DEF Resume
  <2>4. CASE ~(task[t].status = "paused" /\ ~task[t].started)
    <3>1. task'[t].status = task[t].status /\ queue' = queue
      BY <1>0, <1>4, <2>4 DEF Resume, Task
    <3>2. QED
      BY <2>1, <3>1, SchedOfRest
  <2>5. QED
    BY <2>3, <2>4
<1>5. CASE Cancel(t) \/ Pause(t) \/ CreateExternal(t) \/ BindExternal(t) \/ FinishExternal(t)
  <2>1. UNCHANGED <<queue, pc, hand>>
    BY <1>5 DEF Cancel, Pause, CreateExternal, BindExternal, FinishExternal
  <2>2. \A u \in Tasks : u # t => task'[u] = task[u]
    BY <1>0, <1>5 DEF Cancel, CancelTask, Pause, CreateExternal, BindExternal, FinishExternal
  <2>3. task'[t].status = "queued" => task[t].status = "queued"
    <3>1. CASE Cancel(t) \/ Pause(t)
      BY <1>0, <3>1 DEF Cancel, CancelTask, Pause, Task
    <3>2. CASE CreateExternal(t)
      BY <1>0, <3>2 DEF CreateExternal, NewTask
    <3>3. CASE BindExternal(t) \/ FinishExternal(t)
      BY <1>0, <3>3 DEF BindExternal, FinishExternal, Task
    <3>4. QED
      BY <1>5, <3>1, <3>2, <3>3
  <2>4. QED
    BY <2>1, <2>2, <2>3, SchedOfRest
<1>6. QED
  BY <1>2, <1>3, <1>4, <1>5 DEF Request

LEMMA SchedWorker ==
  ASSUME IInv, QueuedIsScheduled, NEW w \in Workers, WorkerStep(w)
  PROVE  QueuedIsScheduled'
<1>0. /\ task \in [Tasks -> Task] /\ clock \in Nat
      /\ pc \in [Workers -> Executing \cup {"idle", "lockwait", "backoff"}]
      /\ hand \in [Workers -> Tasks \cup {NoTask}]
      /\ \A e \in queue : e.id \in Tasks
      /\ \A v \in Workers : pc[v] \in Executing \cup {"lockwait"} => hand[v] \in Tasks
      /\ \A t \in Tasks : task[t].status = "queued" => Scheduled(t)
      /\ TypeInv
  BY DEF IInv, TypeInv, TypeOK, Entry, HandsFull, QueuedIsScheduled, Scheduled
<1>1. SUFFICES ASSUME NEW t \in Tasks, task'[t].status = "queued"
               PROVE  \/ \E e \in queue' : e.id = t
                      \/ \E v \in Workers : pc'[v] = "lockwait" /\ hand'[v] = t
  BY DEF QueuedIsScheduled
<1>2. ASSUME pc[w] # "lockwait", task[t].status = "queued", queue \subseteq queue',
             \A v \in Workers : v # w => pc'[v] = pc[v] /\ hand'[v] = hand[v]
      PROVE  \/ \E e \in queue' : e.id = t
             \/ \E v \in Workers : pc'[v] = "lockwait" /\ hand'[v] = t
  BY <1>0, <1>2 DEF Scheduled
<1>3. ASSUME NEW e \in queue, pc[w] = "idle", queue' = queue \ {e}, e.id # t,
             task[t].status = "queued",
             \A v \in Workers : v # w => pc'[v] = pc[v] /\ hand'[v] = hand[v]
      PROVE  \/ \E f \in queue' : f.id = t
             \/ \E v \in Workers : pc'[v] = "lockwait" /\ hand'[v] = t
  BY <1>0, <1>3 DEF Scheduled
<1>4. CASE PickSkips(w)
  BY <1>1, <1>3, <1>4 DEF PickSkips, TakeEntry
<1>5. CASE PickPauses(w)
  <2>1. PICK e \in queue : TakeEntry(w, e) /\ task' = [task EXCEPT ![e.id].status = "paused"]
    BY <1>5 DEF PickPauses
  <2>2. e.id # t
    <3>1. task'[e.id].status = "paused"
      BY <1>0, <2>1 DEF Task
    <3>2. QED
      BY <1>1, <3>1
  <2>3. task[t].status = "queued"
    BY <1>0, <1>1, <2>1, <2>2
  <2>4. QED
    BY <1>3, <1>5, <2>1, <2>2, <2>3 DEF PickPauses, TakeEntry
<1>6. CASE PickBegins(w)
  <2>1. PICK e \in queue : /\ TakeEntry(w, e) /\ task[e.id].status = "queued"
                           /\ Begin(w, e.id, [lockQ EXCEPT ![task[e.id].key] = <<w>>])
    BY <1>6 DEF PickBegins
  <2>2. PICK u \in Tasks : u = e.id
    BY <1>0
  <2>3. u # t /\ task'[t] = task[t]
    BY <1>0, <1>1, <2>1, <2>2, BeginLeavesQueued
  <2>4. \A v \in Workers : v # w => pc'[v] = pc[v] /\ hand'[v] = hand[v]
    BY <1>0, <2>1 DEF Begin, Leave
  <2>5. QED
    BY <1>1, <1>3, <2>1, <2>2, <2>3, <2>4 DEF TakeEntry
<1>7. CASE PickWaits(w)
  <2>1. PICK e \in queue : /\ TakeEntry(w, e) /\ UNCHANGED task
                           /\ pc' = [pc EXCEPT ![w] = "lockwait"]
                           /\ hand' = [hand EXCEPT ![w] = e.id]
    BY <1>7 DEF PickWaits
  <2>2. CASE e.id = t
    BY <1>0, <2>1, <2>2
  <2>3. CASE e.id # t
    BY <1>0, <1>1, <1>3, <2>1, <2>3 DEF TakeEntry
  <2>4. QED
    BY <2>2, <2>3
<1>8. CASE LockGranted(w)
  <2>1. PICK u \in Tasks : u = hand[w]
    BY <1>0, <1>8 DEF LockGranted
  <2>2. Begin(w, u, lockQ) /\ queue' = queue
    BY <1>8, <2>1 DEF LockGranted
  <2>3. task[t].status = "queued" /\ u # t
    BY <1>0, <1>1, <2>2, BeginLeavesQueued
  <2>4. \A v \in Workers : v # w => pc'[v] = pc[v] /\ hand'[v] = hand[v]
    BY <1>0, <2>2 DEF Begin, Leave
  <2>5. QED
    BY <1>0, <2>1, <2>2, <2>3, <2>4 DEF Scheduled
<1>9. CASE Succeeds(w) \/ Fails(w) \/ CheckpointCancels(w) \/ CheckpointWakesCancelled(w)
  <2>1. PICK st \in Terminal : pc[w] \in Executing /\ Ends(w, hand[w], st)
    BY <1>9 DEF Succeeds, Fails, CheckpointCancels, CheckpointWakesCancelled, Executing, Terminal
  <2>2. task[t].status = "queued"
    BY <1>0, <1>1, <2>1 DEF Ends, Terminal, Task
  <2>3. \A v \in Workers : v # w => pc'[v] = pc[v] /\ hand'[v] = hand[v]
    BY <1>0, <2>1 DEF Ends, Leave
  <2>4. QED
    BY <1>2, <2>1, <2>2, <2>3 DEF Ends, Executing
<1>10. CASE FailsAndRequeues(w)
  <2>1. \A v \in Workers : v # w => pc'[v] = pc[v] /\ hand'[v] = hand[v]
    BY <1>0, <1>10 DEF FailsAndRequeues, Leave
  <2>2. PICK u \in Tasks, p \in 0..100, at \in Nat : u = hand[w] /\ p = task[u].prio /\ at = clock
    BY <1>0, <1>10 DEF FailsAndRequeues, Executing, Task
  <2>3. queue' = WithEntry(u, p, at) /\ queue \subseteq Entry /\ IsFiniteSet(queue)
    BY <1>0, <1>10, <2>2 DEF FailsAndRequeues, TypeInv, TypeOK
  <2>4. queue \subseteq queue' /\ \E e \in queue' : e.id = u
    BY <2>3, PutFacts
  <2>5. CASE u = t
    BY <2>4, <2>5
  <2>6. CASE u # t
    BY <1>0, <1>1, <1>2, <1>10, <2>1, <2>2, <2>4, <2>6 DEF FailsAndRequeues
  <2>7. QED
    BY <2>5, <2>6
<1>11. CASE CheckpointPauses(w) \/ CheckpointContinues(w)
  <2>1. pc[w] \in Executing /\ UNCHANGED <<queue, hand>>
    BY <1>11 DEF CheckpointPauses, CheckpointContinues, Executing
  <2>2. task[t].status = "queued"
    BY <1>0, <1>1, <1>11 DEF CheckpointPauses, CheckpointContinues, Task, Executing
  <2>3. \A v \in Workers : v # w => pc'[v] = pc[v]
    BY <1>0, <1>11 DEF CheckpointPauses, CheckpointContinues
  <2>4. QED
    BY <1>2, <2>1, <2>2, <2>3 DEF Executing
<1>12. CASE CheckpointGone(w) \/ BackoffEnds(w)
  <2>1. pc[w] # "lockwait" /\ UNCHANGED <<queue, task>>
    BY <1>12 DEF CheckpointGone, BackoffEnds
  <2>2. \A v \in Workers : v # w => pc'[v] = pc[v] /\ hand'[v] = hand[v]
    BY <1>0, <1>12 DEF CheckpointGone, BackoffEnds, Leave
  <2>3. QED
    BY <1>1, <1>2, <2>1, <2>2
<1>13. QED
  BY <1>4, <1>5, <1>6, <1>7, <1>8, <1>9, <1>10, <1>11, <1>12 DEF WorkerStep

LEMMA SchedStep == IInv /\ QueuedIsScheduled /\ [Next]_vars => QueuedIsScheduled'
<1> SUFFICES ASSUME IInv, QueuedIsScheduled, [Next]_vars PROVE QueuedIsScheduled'
  OBVIOUS
<1>1. ASSUME NEW t \in Tasks, Request(t) PROVE QueuedIsScheduled'
  BY <1>1, SchedRequest
<1>2. ASSUME NEW w \in Workers, WorkerStep(w) PROVE QueuedIsScheduled'
  BY <1>2, SchedWorker
<1>3. CASE (\E t \in Tasks : CallerWakes(t)) \/ UNCHANGED vars
  BY <1>3, SchedOfRest DEF CallerWakes, vars
<1>4. CASE ClearCompleted
  <2>1. \A t \in Tasks : task'[t].status = "queued" => task[t].status = "queued"
    BY <1>4 DEF ClearCompleted, Popped, Blank
  <2>2. QED
    BY <1>4, <2>1, SchedOfRest DEF ClearCompleted
<1>5. CASE Restart
  <2>1. ASSUME NEW t \in Tasks, task'[t].status = "queued"
        PROVE  \E e \in queue' : e.id = t
    <3> DEFINE e == [id |-> t, prio |-> OrDefault(task[t].prio), at |-> task[t].created, copy |-> 0]
    <3>1. Loaded(task[t]).status = "queued"
      BY <1>5, <2>1 DEF Restart
    <3>2. e \in queue'
      BY <1>5, <3>1 DEF Restart
    <3>3. e.id = t
      OBVIOUS
    <3>4. QED
      BY <3>2, <3>3
  <2>2. QED
    BY <2>1 DEF QueuedIsScheduled
<1>6. QED
  BY <1>1, <1>2, <1>3, <1>4, <1>5 DEF Next

\* A task shown as queued always has an entry or a worker that will take it,
\* through every pause, resume, retry, cancellation and restart.
THEOREM NoTaskForgotten == Spec => []QueuedIsScheduled
<1>1. Init => QueuedIsScheduled
  BY DEF Init, QueuedIsScheduled, Blank
<1>2. QED
  BY Invariance, <1>1, SchedStep, PTL DEF Spec

-----------------------------------------------------------------------------
(* Pauses                                                                   *)

\* A task without retries has not begun when it is queued; what a worker
\* executes has begun and is alive, or its end is known to the checkpoint.
Begun(t) == task[t].started /\ task[t].attempt >= 1
Fresh(t) == task[t].status = "queued" /\ task[t].maxRetries = 0 => ~task[t].started
Sound(w) ==
  /\ pc[w] = "handler" => Begun(hand[w]) /\ task[hand[w]].status \in {"running", "cancelling"}
  /\ pc[w] = "checkpoint" =>
       \/ ~Exists(hand[w])
       \/ Begun(hand[w]) /\ (task[hand[w]].status = "paused" \/ task[hand[w]].cancelReq)
Stuck(t) == task[t].status = "paused" /\ task[t].started /\ task[t].maxRetries = 0

PauseInv ==
  /\ \A t \in Tasks : Fresh(t)
  /\ \A w \in Workers : Sound(w)
  /\ restarts = 0 => PausedIsHeld

\* A request changes one task and no worker.
LEMMA PauseOfRequest ==
  ASSUME IInv, PauseInv, NEW t \in Tasks, UNCHANGED <<pc, hand, restarts>>,
         \A u \in Tasks : u # t => task'[u] = task[u],
         Fresh(t)', Stuck(t)' => Stuck(t),
         \A w \in Workers : hand[w] = t => Sound(w)'
  PROVE  PauseInv'
<1>1. \A u \in Tasks : Fresh(u)'
  BY DEF PauseInv, Fresh
<1>2. ASSUME NEW w \in Workers PROVE Sound(w)'
  <2>1. CASE hand[w] = t
    BY <2>1
  <2>2. CASE hand[w] # t /\ pc[w] \in Executing
    <3>1. hand[w] \in Tasks /\ task'[hand[w]] = task[hand[w]]
      BY <2>2 DEF IInv, HandsFull
    <3> QED BY <3>1 DEF PauseInv, Sound, Begun, Exists
  <2>3. CASE pc[w] \notin Executing
    BY <2>3 DEF Sound, Executing
  <2> QED BY <2>1, <2>2, <2>3
<1>3. restarts' = 0 => PausedIsHeld'
  BY DEF PauseInv, PausedIsHeld, Held, Stuck
<1> QED BY <1>1, <1>2, <1>3 DEF PauseInv

\* A worker changes the task it has in hand, which no other worker executes.
LEMMA PauseOfWorker ==
  ASSUME IInv, PauseInv, NEW w \in Workers, NEW t \in Tasks, UNCHANGED restarts,
         \A u \in Tasks : u # t => task'[u] = task[u],
         \A v \in Workers : v # w => pc'[v] = pc[v] /\ hand'[v] = hand[v],
         \A v \in Workers : v # w /\ pc[v] \in Executing => hand[v] # t,
         pc[w] \in Executing => hand[w] = t,
         Fresh(t)', Sound(w)', Stuck(t)' => Held(t)' \/ restarts # 0
  PROVE  PauseInv'
<1>1. \A u \in Tasks : Fresh(u)'
  BY DEF PauseInv, Fresh
<1>2. ASSUME NEW v \in Workers, v # w PROVE Sound(v)'
  <2>1. CASE pc[v] \in Executing
    <3>1. hand[v] \in Tasks /\ task'[hand[v]] = task[hand[v]]
      BY <1>2, <2>1 DEF IInv, HandsFull
    <3> QED BY <1>2, <3>1 DEF PauseInv, Sound, Begun, Exists
  <2>2. CASE pc[v] \notin Executing
    BY <1>2, <2>2 DEF Sound, Executing
  <2> QED BY <2>1, <2>2
<1>3. ASSUME restarts' = 0, NEW u \in Tasks, Stuck(u)' PROVE Held(u)'
  <2>1. CASE u = t
    BY <1>3, <2>1
  <2>2. CASE u # t
    <3>1. Stuck(u) /\ restarts = 0
      BY <1>3, <2>2 DEF Stuck
    <3>2. PICK v \in Workers : pc[v] \in Executing /\ hand[v] = u
      BY <3>1 DEF PauseInv, PausedIsHeld, Held, Stuck
    <3>3. v # w
      BY <2>2, <3>2
    <3> QED BY <3>2, <3>3 DEF Held
  <2> QED BY <2>1, <2>2
<1>4. restarts' = 0 => PausedIsHeld'
  BY <1>3 DEF PausedIsHeld, Stuck
<1> QED BY <1>1, <1>2, <1>4 DEF PauseInv

LEMMA PauseRequest ==
  ASSUME IInv, PauseInv, NEW t \in Tasks, Request(t)
  PROVE  PauseInv'
<1>0. /\ task \in [Tasks -> Task] /\ task[t] \in Task
      /\ Fresh(t) /\ \A w \in Workers : Sound(w)
      /\ \A w \in Workers : hand[w] = t => Known(t)
  BY DEF IInv, TypeInv, TypeOK, HandsKnown, PauseInv
<1>1. ASSUME NEW k, NEW p, NEW m, Add(t, k, p, m) PROVE PauseInv'
  <2>1. /\ task' = [task EXCEPT ![t] = NewTask(k, p, m, FALSE)]
        /\ task[t].status = "absent" /\ UNCHANGED <<pc, hand, restarts>>
    BY <1>1 DEF Add
  <2>2. task'[t].status = "queued" /\ ~task'[t].started
    BY <1>0, <2>1 DEF NewTask
  <2>3. Fresh(t)' /\ (Stuck(t)' => Stuck(t))
    BY <2>2 DEF Fresh, Stuck
  <2>4. \A w \in Workers : hand[w] # t
    BY <1>0, <2>1 DEF Known
  <2> QED BY <1>0, <2>1, <2>3, <2>4, PauseOfRequest
<1>2. ASSUME NEW st, NEW cr, NEW pr,
             task' = [task EXCEPT ![t] = [task[t] EXCEPT !.status = st, !.cancelReq = cr, !.pauseReq = pr]],
             UNCHANGED <<pc, hand, restarts>>,
             st = "queued" => ~task[t].started \/ task[t].status = "queued",
             st = "paused" => task[t].status = "paused" \/ ~task[t].started \/ task[t].maxRetries # 0,
             task[t].status \in {"running", "cancelling"} => st \in {"running", "cancelling"},
             task[t].cancelReq => cr,
             task[t].status \in Missing => st \in Missing,
             task[t].status = "paused" /\ task[t].started => st = "paused" \/ cr
      PROVE  PauseInv'
  <2>1. /\ task'[t].status = st /\ task'[t].cancelReq = cr
        /\ task'[t].started = task[t].started /\ task'[t].attempt = task[t].attempt
        /\ task'[t].maxRetries = task[t].maxRetries
    BY <1>0, <1>2 DEF Task
  <2>2. Fresh(t)'
    BY <1>0, <1>2, <2>1 DEF Fresh
  <2>3. Stuck(t)' => Stuck(t)
    BY <1>0, <1>2, <2>1 DEF Stuck
  <2>4. ASSUME NEW w \in Workers, hand[w] = t PROVE Sound(w)'
    <3>1. Sound(w)
      BY <1>0
    <3>2. pc'[w] = pc[w] /\ hand'[w] = t
      BY <1>2, <2>4
    <3>3. pc[w] = "handler" => Begun(t)' /\ task'[t].status \in {"running", "cancelling"}
      BY <1>2, <2>1, <2>4, <3>1 DEF Sound, Begun
    <3>4. pc[w] = "checkpoint" => \/ ~Exists(t)'
                                  \/ Begun(t)' /\ (task'[t].status = "paused" \/ task'[t].cancelReq)
      BY <1>2, <2>1, <2>4, <3>1 DEF Sound, Begun, Exists
    <3> QED BY <3>2, <3>3, <3>4 DEF Sound, Begun, Exists
  <2>5. \A u \in Tasks : u # t => task'[u] = task[u]
    BY <1>0, <1>2
  <2> QED BY <1>2, <2>2, <2>3, <2>4, <2>5, PauseOfRequest
<1>3. CASE Cancel(t)
  <2>1. CASE task[t].status \in Terminal
    BY <1>3, <2>1 DEF Cancel, Live
  <2>2. CASE task[t].status \notin Terminal
    <3> DEFINE st == IF task[t].status \in {"queued", "paused"} THEN "cancelled" ELSE "cancelling"
    <3>1. task' = [task EXCEPT ![t] = [task[t] EXCEPT !.status = st, !.cancelReq = TRUE, !.pauseReq = FALSE]]
      BY <1>0, <1>3, <2>2 DEF Cancel, CancelTask, Task
    <3>2. /\ st \notin {"queued", "paused"} /\ task[t].status \notin Missing
          /\ task[t].status \in {"running", "cancelling"} => st \in {"running", "cancelling"}
      BY <1>3 DEF Cancel, Live, Exists
    <3>3. UNCHANGED <<pc, hand, restarts>>
      BY <1>3 DEF Cancel
    <3> HIDE DEF st
    <3> QED BY <1>2, <3>1, <3>2, <3>3
  <2> QED BY <2>1, <2>2
<1>4. CASE Pause(t)
  <2> DEFINE st == IF task[t].status = "queued" THEN "paused" ELSE task[t].status
  <2>1. task' = [task EXCEPT ![t] = [task[t] EXCEPT !.status = st, !.cancelReq = task[t].cancelReq, !.pauseReq = TRUE]]
    BY <1>0, <1>4 DEF Pause, Task
  <2>2. /\ st = "queued" => task[t].status = "queued"
        /\ st = "paused" => task[t].status = "paused" \/ ~task[t].started \/ task[t].maxRetries # 0
        /\ task[t].status \in {"running", "cancelling"} => st \in {"running", "cancelling"}
        /\ task[t].status \in Missing => st \in Missing
        /\ task[t].status = "paused" => st = "paused"
    BY <1>0 DEF Fresh, Missing
  <2>3. UNCHANGED <<pc, hand, restarts>>
    BY <1>4 DEF Pause
  <2> HIDE DEF st
  <2> QED BY <1>2, <2>1, <2>2, <2>3
<1>5. CASE Resume(t)
  <2> DEFINE st == IF task[t].status = "paused" /\ ~task[t].started THEN "queued" ELSE task[t].status
  <2>1. task' = [task EXCEPT ![t] = [task[t] EXCEPT !.status = st, !.cancelReq = task[t].cancelReq, !.pauseReq = FALSE]]
    BY <1>0, <1>5 DEF Resume, Task
  <2>2. /\ st = "queued" => ~task[t].started \/ task[t].status = "queued"
        /\ st = "paused" => task[t].status = "paused"
        /\ task[t].status \in {"running", "cancelling"} => st \in {"running", "cancelling"}
        /\ task[t].status \in Missing => st \in Missing
        /\ task[t].status = "paused" /\ task[t].started => st = "paused"
    BY DEF Missing
  <2>3. UNCHANGED <<pc, hand, restarts>>
    BY <1>5 DEF Resume
  <2> HIDE DEF st
  <2> QED BY <1>2, <2>1, <2>2, <2>3
<1>6. CASE CreateExternal(t) \/ BindExternal(t) \/ FinishExternal(t)
  <2>1. \A w \in Workers : hand[w] # t
    BY <1>0, <1>6 DEF Known, CreateExternal, BindExternal, FinishExternal
  <2>2. task'[t].status \notin {"queued", "paused"}
    <3>1. task'[t].external
      BY <1>0, <1>6 DEF CreateExternal, BindExternal, FinishExternal, NewTask, Task
    <3> QED BY <3>1, FrameOfRequest DEF Frame
  <2>3. Fresh(t)' /\ ~Stuck(t)'
    BY <2>2 DEF Fresh, Stuck
  <2>4. UNCHANGED <<pc, hand, restarts>> /\ \A u \in Tasks : u # t => task'[u] = task[u]
    BY <1>0, <1>6 DEF CreateExternal, BindExternal, FinishExternal
  <2> QED BY <2>1, <2>3, <2>4, PauseOfRequest
<1>7. CASE Enqueue(t) \/ EnqueueAndWait(t) \/ \E old \in Tasks : Retry(old, t)
  BY <1>1, <1>7 DEF Enqueue, EnqueueAndWait, Retry
<1> QED BY <1>3, <1>4, <1>5, <1>6, <1>7 DEF Request

\* A worker that gets or has the lock of a task is the only one executing it.
LEMMA Alone ==
  ASSUME IInv, NEW w \in Workers, NEW t \in Tasks,
         \/ lockQ[task[t].key] = <<>>
         \/ lockQ[task[t].key] # <<>> /\ Head(lockQ[task[t].key]) = w
  PROVE  \A v \in Workers : v # w /\ pc[v] \in Executing => hand[v] # t
BY DEF IInv, ExecutingIsFirst

LEMMA PauseBegin ==
  ASSUME IInv, PauseInv, NEW w \in Workers, NEW t \in Tasks, NEW locks, pc[w] \notin Executing,
         UNCHANGED restarts,
         \A v \in Workers : v # w /\ pc[v] \in Executing => hand[v] # t,
         Begin(w, t, locks)
  PROVE  PauseInv'
<1>0. /\ task \in [Tasks -> Task] /\ task[t] \in Task /\ task[t].attempt \in Nat
      /\ pc \in [Workers -> Executing \cup {"idle", "lockwait", "backoff"}]
      /\ hand \in [Workers -> Tasks \cup {NoTask}]
      /\ Fresh(t) /\ (Stuck(t) => Held(t) \/ restarts # 0)
  BY DEF IInv, TypeInv, TypeOK, Task, PauseInv, PausedIsHeld, Stuck
<1>1. ~Held(t)
  BY DEF Held
<1>2. \A v \in Workers : v # w => pc'[v] = pc[v] /\ hand'[v] = hand[v]
  BY <1>0 DEF Begin, Leave
<1>3. CASE ~Exists(t)
  <2>1. task' = task /\ pc'[w] = "backoff"
    BY <1>0, <1>3 DEF Begin, Leave
  <2>2. Fresh(t)' /\ ~Stuck(t)'
    BY <1>0, <1>3, <2>1 DEF Fresh, Stuck, Exists, Missing
  <2>3. Sound(w)'
    BY <2>1 DEF Sound
  <2> QED BY <1>2, <2>1, <2>2, <2>3, PauseOfWorker
<1>4. CASE Exists(t) /\ task[t].cancelReq
  <2>1. CancelTask(t) /\ pc'[w] = "idle"
    BY <1>0, <1>4 DEF Begin, Leave
  <2>2. task'[t].status \notin {"queued", "paused"} /\ \A u \in Tasks : u # t => task'[u] = task[u]
    BY <1>0, <2>1 DEF CancelTask, Terminal, Task
  <2>3. Fresh(t)' /\ ~Stuck(t)'
    BY <2>2 DEF Fresh, Stuck
  <2>4. Sound(w)'
    BY <2>1 DEF Sound
  <2> QED BY <1>2, <2>2, <2>3, <2>4, PauseOfWorker
<1>5. CASE Exists(t) /\ ~task[t].cancelReq
  <2>1. /\ task'[t].started /\ task'[t].attempt = task[t].attempt + 1
        /\ task'[t].status = IF task[t].pauseReq THEN "paused" ELSE "running"
        /\ pc'[w] = IF task[t].pauseReq THEN "checkpoint" ELSE "handler"
        /\ hand'[w] = t
        /\ \A u \in Tasks : u # t => task'[u] = task[u]
    BY <1>0, <1>5 DEF Begin, Task
  <2>2. Begun(t)'
    BY <1>0, <2>1 DEF Begun
  <2>3. Sound(w)'
    BY <2>1, <2>2 DEF Sound, Begun
  <2>4. Held(t)'
    BY <2>1 DEF Held, Executing
  <2>5. Fresh(t)'
    BY <2>1 DEF Fresh
  <2> QED BY <1>2, <2>1, <2>3, <2>4, <2>5, PauseOfWorker
<1> QED BY <1>3, <1>4, <1>5

LEMMA PauseWorker ==
  ASSUME IInv, PauseInv, NEW w \in Workers, WorkerStep(w)
  PROVE  PauseInv'
<1>0. /\ task \in [Tasks -> Task]
      /\ pc \in [Workers -> Executing \cup {"idle", "lockwait", "backoff"}]
      /\ hand \in [Workers -> Tasks \cup {NoTask}]
      /\ \A e \in queue : e.id \in Tasks
      /\ \A v \in Workers : pc[v] \in Executing \cup {"lockwait"} => hand[v] \in Tasks
      /\ pc[w] \in Executing => lockQ[task[hand[w]].key] # <<>> /\ Head(lockQ[task[hand[w]].key]) = w
      /\ Sound(w) /\ \A t \in Tasks : Fresh(t)
      /\ restarts = 0 => PausedIsHeld
  BY DEF IInv, TypeInv, TypeOK, Entry, HandsFull, ExecutingIsFirst, PauseInv
<1>1. CASE PickSkips(w) \/ PickWaits(w) \/ BackoffEnds(w)
  <2>1. /\ UNCHANGED <<task, restarts>> /\ pc[w] \notin Executing /\ pc'[w] \notin Executing
        /\ \A v \in Workers : v # w => pc'[v] = pc[v] /\ hand'[v] = hand[v]
    BY <1>0, <1>1 DEF PickSkips, PickWaits, BackoffEnds, TakeEntry, Executing
  <2>2. \A t \in Tasks : Held(t) => Held(t)'
    BY <2>1 DEF Held
  <2>3. \A v \in Workers : Sound(v)'
    BY <2>1 DEF PauseInv, Sound, Begun, Exists, Executing
  <2> QED BY <1>0, <2>1, <2>2, <2>3 DEF PauseInv, PausedIsHeld, Fresh
<1>2. CASE PickPauses(w)
  <2>1. PICK t \in Tasks : task[t].status = "queued" /\ task' = [task EXCEPT ![t].status = "paused"]
    BY <1>0, <1>2 DEF PickPauses
  <2>2. UNCHANGED <<pc, hand, restarts>>
    BY <1>2 DEF PickPauses, TakeEntry
  <2>3. /\ task'[t].status = "paused" /\ task'[t].started = task[t].started
        /\ task'[t].maxRetries = task[t].maxRetries /\ task'[t].attempt = task[t].attempt
        /\ task'[t].cancelReq = task[t].cancelReq
        /\ \A u \in Tasks : u # t => task'[u] = task[u]
    BY <1>0, <2>1 DEF Task
  <2>4. Fresh(t)' /\ ~Stuck(t)'
    BY <1>0, <2>1, <2>3 DEF Fresh, Stuck
  <2>5. ASSUME NEW v \in Workers, hand[v] = t PROVE Sound(v)'
    BY <2>1, <2>2, <2>3, <2>5 DEF PauseInv, Sound, Begun, Exists, Missing
  <2> QED BY <2>2, <2>3, <2>4, <2>5, PauseOfRequest
<1>3. CASE PickBegins(w)
  <2>1. PICK t \in Tasks : /\ lockQ[task[t].key] = <<>>
                           /\ Begin(w, t, [lockQ EXCEPT ![task[t].key] = <<w>>])
    BY <1>0, <1>3 DEF PickBegins
  <2>2. pc[w] \notin Executing /\ UNCHANGED restarts
    BY <1>3 DEF PickBegins, TakeEntry, Executing
  <2> QED BY <2>1, <2>2, Alone, PauseBegin
<1>4. CASE LockGranted(w)
  <2>1. PICK t \in Tasks : t = hand[w]
    BY <1>0, <1>4 DEF LockGranted
  <2>2. /\ Begin(w, t, lockQ) /\ pc[w] \notin Executing /\ UNCHANGED restarts
        /\ lockQ[task[t].key] # <<>> /\ Head(lockQ[task[t].key]) = w
    BY <1>4, <2>1 DEF LockGranted, Executing
  <2> QED BY <2>2, Alone, PauseBegin
<1>5. ASSUME pc[w] \in Executing, NEW t \in Tasks, t = hand[w], UNCHANGED restarts,
             \A u \in Tasks : u # t => task'[u] = task[u],
             \A v \in Workers : v # w => pc'[v] = pc[v] /\ hand'[v] = hand[v],
             Fresh(t)', Sound(w)', Stuck(t)' => Held(t)'
      PROVE  PauseInv'
  <2>1. \A v \in Workers : v # w /\ pc[v] \in Executing => hand[v] # t
    BY <1>0, <1>5, Alone
  <2> QED BY <1>5, <2>1, PauseOfWorker
<1>6. CASE Succeeds(w) \/ Fails(w) \/ CheckpointCancels(w) \/ CheckpointWakesCancelled(w)
  <2>1. PICK t \in Tasks, st \in Terminal : pc[w] \in Executing /\ t = hand[w] /\ Ends(w, t, st)
    BY <1>0, <1>6 DEF Succeeds, Fails, CheckpointCancels, CheckpointWakesCancelled, Executing, Terminal
  <2>2. /\ task'[t].status = st /\ pc'[w] = "idle" /\ UNCHANGED restarts
        /\ \A u \in Tasks : u # t => task'[u] = task[u]
        /\ \A v \in Workers : v # w => pc'[v] = pc[v] /\ hand'[v] = hand[v]
    BY <1>0, <2>1 DEF Ends, Leave, Task
  <2>3. Fresh(t)' /\ ~Stuck(t)' /\ Sound(w)'
    BY <2>2 DEF Fresh, Stuck, Sound, Terminal
  <2> QED BY <1>5, <2>1, <2>2, <2>3
<1>7. CASE FailsAndRequeues(w)
  <2>1. PICK t \in Tasks : t = hand[w]
    BY <1>0, <1>7 DEF FailsAndRequeues, Executing
  <2>2. /\ task'[t].status = "queued" /\ pc'[w] = "idle" /\ UNCHANGED restarts
        /\ task'[t].maxRetries = task[t].maxRetries
        /\ \A u \in Tasks : u # t => task'[u] = task[u]
        /\ \A v \in Workers : v # w => pc'[v] = pc[v] /\ hand'[v] = hand[v]
    BY <1>0, <1>7, <2>1 DEF FailsAndRequeues, Leave, Task
  <2>3. pc[w] = "handler" /\ task[t].attempt >= 1 /\ task[t].attempt <= task[t].maxRetries
    BY <1>0, <1>7, <2>1 DEF FailsAndRequeues, Sound, Begun
  <2>4. task[t].maxRetries # 0
    BY <1>0, <2>3 DEF Task
  <2>5. Fresh(t)' /\ ~Stuck(t)' /\ Sound(w)'
    BY <2>2, <2>4 DEF Fresh, Stuck, Sound
  <2> QED BY <1>5, <2>1, <2>2, <2>3, <2>5 DEF Executing
<1>8. CASE CheckpointPauses(w)
  <2>1. PICK t \in Tasks : t = hand[w]
    BY <1>0, <1>8 DEF CheckpointPauses, Executing
  <2>2. /\ task'[t].status = "paused" /\ pc'[w] = "checkpoint" /\ UNCHANGED <<hand, restarts>>
        /\ task'[t].started = task[t].started /\ task'[t].attempt = task[t].attempt
        /\ \A u \in Tasks : u # t => task'[u] = task[u]
        /\ \A v \in Workers : v # w => pc'[v] = pc[v]
    BY <1>0, <1>8, <2>1 DEF CheckpointPauses, Task
  <2>3. pc[w] = "handler" /\ Begun(t)
    BY <1>0, <1>8, <2>1 DEF CheckpointPauses, Sound
  <2>4. Fresh(t)' /\ Sound(w)' /\ Held(t)'
    BY <2>1, <2>2, <2>3 DEF Fresh, Sound, Begun, Held, Executing
  <2> QED BY <1>5, <2>1, <2>2, <2>3, <2>4 DEF Executing
<1>9. CASE CheckpointGone(w)
  <2>1. PICK t \in Tasks : t = hand[w]
    BY <1>0, <1>9 DEF CheckpointGone, Executing
  <2>2. /\ pc[w] = "checkpoint" /\ ~Exists(t) /\ UNCHANGED <<task, restarts>> /\ pc'[w] = "backoff"
        /\ \A v \in Workers : v # w => pc'[v] = pc[v] /\ hand'[v] = hand[v]
    BY <1>0, <1>9, <2>1 DEF CheckpointGone, Leave
  <2>3. Fresh(t)' /\ ~Stuck(t)' /\ Sound(w)'
    BY <1>0, <2>2 DEF Fresh, Stuck, Sound, Exists, Missing
  <2> QED BY <1>5, <2>1, <2>2, <2>3 DEF Executing
<1>10. CASE CheckpointContinues(w)
  <2>1. PICK t \in Tasks : t = hand[w]
    BY <1>0, <1>10 DEF CheckpointContinues, Executing
  <2>2. /\ pc[w] = "checkpoint" /\ Begun(t) /\ task[t].status = "paused"
    BY <1>0, <1>10, <2>1 DEF CheckpointContinues, Sound
  <2>3. /\ task'[t].status = "running" /\ pc'[w] = "handler" /\ UNCHANGED <<hand, restarts>>
        /\ task'[t].started = task[t].started /\ task'[t].attempt = task[t].attempt
        /\ \A u \in Tasks : u # t => task'[u] = task[u]
        /\ \A v \in Workers : v # w => pc'[v] = pc[v]
    BY <1>0, <1>10, <2>1, <2>2 DEF CheckpointContinues, Task
  <2>4. Fresh(t)' /\ ~Stuck(t)' /\ Sound(w)'
    BY <2>1, <2>2, <2>3 DEF Fresh, Stuck, Sound, Begun
  <2> QED BY <1>5, <2>1, <2>2, <2>3, <2>4 DEF Executing
<1> QED BY <1>1, <1>2, <1>3, <1>4, <1>6, <1>7, <1>8, <1>9, <1>10 DEF WorkerStep

LEMMA PauseStep == IInv /\ PauseInv /\ [Next]_vars => PauseInv'
<1> SUFFICES ASSUME IInv, PauseInv, [Next]_vars PROVE PauseInv'
  OBVIOUS
<1>0. /\ task \in [Tasks -> Task] /\ restarts \in Nat
      /\ \A w \in Workers : pc[w] \in Executing => hand[w] \in Tasks
  BY DEF IInv, TypeInv, TypeOK, HandsFull
<1>1. ASSUME NEW t \in Tasks, Request(t) PROVE PauseInv'
  BY <1>1, PauseRequest
<1>2. ASSUME NEW w \in Workers, WorkerStep(w) PROVE PauseInv'
  BY <1>2, PauseWorker
<1>3. CASE (\E t \in Tasks : CallerWakes(t)) \/ UNCHANGED vars
  <2>1. UNCHANGED <<task, pc, hand, restarts>>
    BY <1>3 DEF CallerWakes, vars
  <2> QED BY <2>1 DEF PauseInv, PausedIsHeld, Held, Fresh, Sound, Begun, Exists
<1>4. CASE ClearCompleted
  <2>1. /\ \A t \in Tasks : IF task[t].status \in Terminal
                            THEN task'[t].status = "cleared" ELSE task'[t] = task[t]
        /\ UNCHANGED <<pc, hand, restarts>>
    BY <1>4 DEF ClearCompleted, Popped, Blank
  <2>2. \A t \in Tasks : Fresh(t)' /\ (Stuck(t)' => Stuck(t))
    BY <2>1 DEF PauseInv, Fresh, Stuck
  <2>3. ASSUME NEW w \in Workers PROVE Sound(w)'
    <3>1. CASE pc[w] \in Executing /\ task[hand[w]].status \in Terminal
      BY <1>0, <2>1, <3>1 DEF PauseInv, Sound, Exists, Missing, Terminal
    <3>2. CASE pc[w] \in Executing /\ task[hand[w]].status \notin Terminal
      BY <1>0, <2>1, <3>2 DEF PauseInv, Sound, Begun, Exists
    <3>3. CASE pc[w] \notin Executing
      BY <2>1, <3>3 DEF Sound, Executing
    <3> QED BY <3>1, <3>2, <3>3
  <2>4. restarts' = 0 => PausedIsHeld'
    BY <2>1, <2>2 DEF PauseInv, PausedIsHeld, Held, Stuck
  <2> QED BY <2>2, <2>3, <2>4 DEF PauseInv
<1>5. CASE Restart
  <2>1. \A t \in Tasks : task'[t] = Loaded(task[t])
    BY <1>5 DEF Restart
  <2>2. \A t \in Tasks : Fresh(t)'
    BY <1>0, <2>1 DEF PauseInv, Fresh, Loaded, Task
  <2>3. \A w \in Workers : Sound(w)'
    BY <1>5 DEF Restart, Sound
  <2>4. restarts' # 0
    BY <1>0, <1>5 DEF Restart
  <2> QED BY <2>2, <2>3, <2>4 DEF PauseInv
<1> QED BY <1>1, <1>2, <1>3, <1>4, <1>5 DEF Next

\* As long as the program has not been restarted, a paused task that had begun
\* and has no retries is in the checkpoint of a worker: a resume reaches it.
\* (After a restart nobody holds it; the README says what becomes of it.)
THEOREM PausesAreHeld == Spec => [](restarts = 0 => PausedIsHeld)
<1>1. Init => PauseInv
  BY DEF Init, PauseInv, Fresh, Sound, PausedIsHeld, Blank
<1>2. PauseInv => (restarts = 0 => PausedIsHeld)
  BY DEF PauseInv
<1> QED BY Invariance, <1>1, <1>2, PauseStep, PTL DEF Spec

-----------------------------------------------------------------------------
(* Callers                                                                  *)

\* What a step may do to a task and to the one who waits for it.
Serves(t) ==
  \/ Live(t)'
  \/ event'[t]
  \/ caller'[t] # "waiting"
  \/ ~Live(t) /\ event'[t] = event[t] /\ caller'[t] = caller[t]

LEMMA ServesAll ==
  ASSUME NoCallerLeftBehind, \A t \in Tasks : Serves(t)
  PROVE  NoCallerLeftBehind'
BY DEF NoCallerLeftBehind, Serves

LEMMA ServesOne ==
  ASSUME IInv, NEW t \in Tasks, Serves(t),
         \A u \in Tasks : u # t => task'[u] = task[u] /\ event'[u] = event[u] /\ caller'[u] = caller[u]
  PROVE  \A u \in Tasks : Serves(u)
BY DEF Serves, Live, Exists

LEMMA RequestServes ==
  ASSUME IInv, NEW t \in Tasks, Request(t) \/ CallerWakes(t)
  PROVE  \A u \in Tasks : Serves(u)
<1>0. task \in [Tasks -> Task] /\ event \in [Tasks -> BOOLEAN] /\ task[t] \in Task
      /\ caller \in [Tasks -> {"none", "waiting", "answered", "KeyError", "died"}]
  BY DEF IInv, TypeInv, TypeOK
<1> SUFFICES Serves(t) /\ \A u \in Tasks : u # t =>
               task'[u] = task[u] /\ event'[u] = event[u] /\ caller'[u] = caller[u]
  BY ServesOne
<1>1. ASSUME NEW k, NEW p, NEW m, Add(t, k, p, m)
      PROVE  Live(t)' /\ \A u \in Tasks : u # t => task'[u] = task[u] /\ event'[u] = event[u]
  BY <1>0, <1>1 DEF Add, NewTask, Live, Exists, Missing, Terminal
<1>2. CASE Enqueue(t) \/ EnqueueAndWait(t) \/ \E old \in Tasks : Retry(old, t)
  BY <1>0, <1>1, <1>2 DEF Enqueue, EnqueueAndWait, Retry, Serves
<1>3. CASE CallerWakes(t)
  BY <1>0, <1>3 DEF CallerWakes, Serves
<1>4. CASE Cancel(t)
  BY <1>0, <1>4 DEF Cancel, CancelTask, Serves, Live, Exists, Missing, Terminal, Task
<1>5. CASE Pause(t) \/ Resume(t)
  BY <1>0, <1>5 DEF Pause, Resume, Serves, Live, Exists, Missing, Terminal, Task
<1>6. CASE CreateExternal(t) \/ BindExternal(t) \/ FinishExternal(t)
  BY <1>0, <1>6 DEF CreateExternal, BindExternal, FinishExternal, NewTask, Serves, Live, Exists,
     Missing, Terminal, Task
<1> QED BY <1>2, <1>3, <1>4, <1>5, <1>6 DEF Request

LEMMA BeginServes ==
  ASSUME IInv, NEW w \in Workers, NEW t \in Tasks, NEW locks, Begin(w, t, locks), UNCHANGED caller
  PROVE  \A u \in Tasks : Serves(u)
<1>0. task \in [Tasks -> Task] /\ event \in [Tasks -> BOOLEAN] /\ task[t] \in Task
  BY DEF IInv, TypeInv, TypeOK
<1>1. CASE ~Exists(t)
  BY <1>0, <1>1 DEF Begin, Serves, Live, Exists
<1>2. CASE Exists(t) /\ task[t].cancelReq
  <2>1. CancelTask(t)
    BY <1>2 DEF Begin
  <2>2. Serves(t) /\ \A u \in Tasks : u # t => task'[u] = task[u] /\ event'[u] = event[u]
    BY <1>0, <1>2, <2>1 DEF CancelTask, Serves, Live, Exists, Missing, Terminal, Task
  <2> QED BY <2>2, ServesOne
<1>3. CASE Exists(t) /\ ~task[t].cancelReq
  <2>1. Serves(t) /\ \A u \in Tasks : u # t => task'[u] = task[u] /\ event'[u] = event[u]
    BY <1>0, <1>3 DEF Begin, Serves, Live, Exists, Missing, Terminal, Task
  <2> QED BY <2>1, ServesOne
<1> QED BY <1>1, <1>2, <1>3

LEMMA WorkerServes ==
  ASSUME IInv, NEW w \in Workers, WorkerStep(w)
  PROVE  \A u \in Tasks : Serves(u)
<1>0. /\ task \in [Tasks -> Task] /\ event \in [Tasks -> BOOLEAN]
      /\ \A e \in queue : e.id \in Tasks
      /\ \A v \in Workers : pc[v] \in Executing \cup {"lockwait"} => hand[v] \in Tasks
  BY DEF IInv, TypeInv, TypeOK, Entry, HandsFull
<1>1. CASE PickSkips(w) \/ PickWaits(w) \/ BackoffEnds(w)
  BY <1>1 DEF PickSkips, PickWaits, BackoffEnds, TakeEntry, Serves, Live, Exists
<1>2. CASE PickPauses(w)
  <2>1. PICK t \in Tasks : task[t].status = "queued" /\ task' = [task EXCEPT ![t].status = "paused"]
    BY <1>0, <1>2 DEF PickPauses
  <2>2. Serves(t) /\ \A u \in Tasks : u # t => task'[u] = task[u]
    BY <1>0, <2>1 DEF Serves, Live, Exists, Missing, Terminal, Task
  <2> QED BY <1>2, <2>2, ServesOne DEF PickPauses, TakeEntry
<1>3. CASE PickBegins(w)
  <2>1. PICK e \in queue : Begin(w, e.id, [lockQ EXCEPT ![task[e.id].key] = <<w>>]) /\ UNCHANGED caller
    BY <1>3 DEF PickBegins, TakeEntry
  <2> QED BY <1>0, <2>1, BeginServes
<1>4. CASE LockGranted(w)
  BY <1>0, <1>4, BeginServes DEF LockGranted
<1>5. CASE Succeeds(w) \/ Fails(w) \/ CheckpointCancels(w) \/ CheckpointWakesCancelled(w)
  <2>1. PICK t \in Tasks, st \in Terminal : Ends(w, t, st)
    BY <1>0, <1>5 DEF Succeeds, Fails, CheckpointCancels, CheckpointWakesCancelled, Executing, Terminal
  <2>2. Serves(t) /\ \A u \in Tasks : u # t => task'[u] = task[u] /\ event'[u] = event[u]
    BY <1>0, <2>1 DEF Ends, Serves
  <2> QED BY <2>1, <2>2, ServesOne DEF Ends
<1>6. CASE FailsAndRequeues(w) \/ CheckpointPauses(w)
  <2>1. PICK t \in Tasks : t = hand[w]
    BY <1>0, <1>6 DEF FailsAndRequeues, CheckpointPauses, Executing
  <2>2. Serves(t) /\ \A u \in Tasks : u # t => task'[u] = task[u]
    BY <1>0, <1>6, <2>1 DEF FailsAndRequeues, CheckpointPauses, Serves, Live, Exists, Missing,
       Terminal, Task
  <2> QED BY <1>6, <2>2, ServesOne DEF FailsAndRequeues, CheckpointPauses
<1>7. CASE CheckpointGone(w)
  <2>1. PICK t \in Tasks : t = hand[w]
    BY <1>0, <1>7 DEF CheckpointGone, Executing
  <2>2. Serves(t) /\ \A u \in Tasks : u # t => event'[u] = event[u]
    BY <1>0, <1>7, <2>1 DEF CheckpointGone, Serves
  <2> QED BY <1>7, <2>2, ServesOne DEF CheckpointGone
<1>8. CASE CheckpointContinues(w)
  <2>1. PICK t \in Tasks : t = hand[w]
    BY <1>0, <1>8 DEF CheckpointContinues, Executing
  <2>2. Serves(t) /\ \A u \in Tasks : u # t => task'[u] = task[u]
    <3>1. task'[t].status = IF task[t].status = "paused" THEN "running" ELSE task[t].status
      BY <1>0, <1>8, <2>1 DEF CheckpointContinues, Task
    <3> QED BY <1>0, <1>8, <2>1, <3>1 DEF CheckpointContinues, Serves, Live, Exists, Missing, Terminal
  <2> QED BY <1>8, <2>2, ServesOne DEF CheckpointContinues
<1> QED BY <1>1, <1>2, <1>3, <1>4, <1>5, <1>6, <1>7, <1>8 DEF WorkerStep

LEMMA ServesStep == IInv /\ NoCallerLeftBehind /\ [Next]_vars => NoCallerLeftBehind'
<1> SUFFICES ASSUME IInv, NoCallerLeftBehind, [Next]_vars PROVE NoCallerLeftBehind'
  OBVIOUS
<1>1. CASE \E t \in Tasks : Request(t) \/ CallerWakes(t)
  BY <1>1, RequestServes, ServesAll
<1>2. CASE \E w \in Workers : WorkerStep(w)
  BY <1>2, WorkerServes, ServesAll
<1>3. CASE ClearCompleted
  <2>1. \A t \in Tasks : task[t].status \in Terminal => ~Live(t)
    BY DEF Live
  <2>2. \A t \in Tasks : Serves(t)
    BY <1>3, <2>1 DEF ClearCompleted, Serves, Live, Exists
  <2> QED BY <2>2, ServesAll
<1>4. CASE Restart
  BY <1>4 DEF Restart, NoCallerLeftBehind
<1>5. CASE UNCHANGED vars
  BY <1>5 DEF vars, NoCallerLeftBehind, Live, Exists
<1> QED BY <1>1, <1>2, <1>3, <1>4, <1>5 DEF Next

\* Nobody waits in enqueue_and_wait for a task that has ended or was cleared: the
\* event is set on every path, through pauses, retries and restarts.
THEOREM CallersAreToldOfTheEnd == Spec => []NoCallerLeftBehind
<1>1. Init => NoCallerLeftBehind
  BY DEF Init, NoCallerLeftBehind
<1> QED BY <1>1, ServesStep, Invariance, PTL DEF Spec

-----------------------------------------------------------------------------
(* The queue without pauses and external tasks                              *)

Quiet == Ops \cap {"pause", "external"} = {}

\* Without pauses a task that runs is in a worker's handler.
Plain(t) ==
  /\ task[t].status # "paused" /\ ~task[t].pauseReq /\ ~task[t].external
  /\ task[t].maxRetries \in RetryLimits \cup {0}
  /\ task[t].status = "queued" => task[t].attempt <= task[t].maxRetries
  /\ task[t].status \in {"running", "cancelling"} => Held(t)

InHand(w) ==
  /\ pc[w] \in {"idle", "backoff"} => hand[w] = NoTask
  /\ pc[w] # "checkpoint"
  /\ pc[w] = "handler" => task[hand[w]].status \in {"running", "cancelling"}
  /\ pc[w] = "lockwait" => \/ task[hand[w]].status \in {"queued", "cleared"}
                           \/ task[hand[w]].status = "cancelled" /\ task[hand[w]].cancelReq

\* A task is in one place: an entry of the queue, or one worker's hands.
OnePlace ==
  /\ \A v, w \in Workers : hand[v] = hand[w] /\ hand[v] # NoTask => v = w
  /\ \A e \in queue : \A w \in Workers : hand[w] # e.id
  /\ \A e, f \in queue : e.id = f.id => e = f

QuietInv == (\A t \in Tasks : Plain(t)) /\ (\A w \in Workers : InHand(w)) /\ OnePlace

\* What TaskLifecycle sees of a task.
PhaseOf(r, held) ==
  IF r.status = "absent" THEN "none" ELSE IF held THEN "active"
  ELSE IF r.status = "queued" THEN "pending" ELSE "over"
LeftOf(r, held) ==
  IF PhaseOf(r, held) \in {"pending", "active"} THEN r.maxRetries + 1 - r.attempt ELSE 0

LEMMA Mapping ==
  /\ phase = [t \in Tasks |-> PhaseOf(task[t], Held(t))]
  /\ place = [t \in Tasks |-> task[t].key]
  /\ left = [t \in Tasks |-> LeftOf(task[t], Held(t))]
  /\ phase' = [t \in Tasks |-> PhaseOf(task'[t], Held(t)')]
  /\ place' = [t \in Tasks |-> task'[t].key]
  /\ left' = [t \in Tasks |-> LeftOf(task'[t], Held(t)')]
BY DEF phase, place, left, PhaseOf, LeftOf

\* A step that shows nothing to TaskLifecycle, or a change of one task.
LEMMA Stutters ==
  ASSUME \A t \in Tasks : /\ PhaseOf(task'[t], Held(t)') = PhaseOf(task[t], Held(t))
                          /\ LeftOf(task'[t], Held(t)') = LeftOf(task[t], Held(t))
                          /\ task'[t].key = task[t].key
  PROVE  UNCHANGED Lifecycle!vars
BY Mapping DEF Lifecycle!vars

LEMMA OneTask ==
  ASSUME NEW t \in Tasks,
         \A u \in Tasks : u # t => task'[u] = task[u] /\ (Held(u)' <=> Held(u))
  PROVE  /\ phase' = [phase EXCEPT ![t] = PhaseOf(task'[t], Held(t)')]
         /\ place' = [place EXCEPT ![t] = task'[t].key]
         /\ left' = [left EXCEPT ![t] = LeftOf(task'[t], Held(t)')]
<1>1. \A u \in Tasks : u # t => /\ PhaseOf(task'[u], Held(u)') = PhaseOf(task[u], Held(u))
                                /\ LeftOf(task'[u], Held(u)') = LeftOf(task[u], Held(u))
  BY DEF PhaseOf, LeftOf
<1> QED BY <1>1, Mapping

\* What a step of a request does to the others: nothing.
LEMMA RequestKeeps ==
  ASSUME IInv, QuietInv, NEW t \in Tasks,
         \A u \in Tasks : u # t => task'[u] = task[u],
         UNCHANGED <<pc, hand>>,
         \A e \in queue' : e \in queue \/ (e.id = t /\ \A w \in Workers : hand[w] # t),
         \A e, f \in queue' : e.id = f.id => e = f,
         Plain(t)', \A w \in Workers : hand[w] = t => InHand(w)'
  PROVE  QuietInv' /\ \A u \in Tasks : u # t => (Held(u)' <=> Held(u))
<1>1. \A u \in Tasks : Held(u)' <=> Held(u)
  BY DEF Held
<1>2. ASSUME NEW u \in Tasks PROVE Plain(u)'
  BY <1>1 DEF QuietInv, Plain
<1>3. ASSUME NEW w \in Workers PROVE InHand(w)'
  <2>1. hand[w] \in Tasks \/ pc[w] \notin {"handler", "lockwait"}
    BY DEF IInv, HandsFull, Executing
  <2> QED BY <2>1 DEF QuietInv, InHand
<1>4. OnePlace'
  BY DEF QuietInv, OnePlace
<1> QED BY <1>1, <1>2, <1>3, <1>4 DEF QuietInv

\* A step of worker w on task t, which is nowhere else.
LEMMA WorkerKeeps ==
  ASSUME IInv, QuietInv, NEW w \in Workers, NEW t \in Tasks,
         \A u \in Tasks : u # t => task'[u] = task[u],
         \A v \in Workers : v # w => pc'[v] = pc[v] /\ hand'[v] = hand[v] /\ hand[v] # t,
         hand[w] \in {t, NoTask}, hand'[w] \in {t, NoTask},
         \A e \in queue' : e \in queue \/ e.id = t,
         \A e \in queue' : e.id = t => hand'[w] = NoTask,
         \A e, f \in queue' : e.id = f.id => e = f,
         Plain(t)', InHand(w)'
  PROVE  QuietInv' /\ \A u \in Tasks : u # t => (Held(u)' <=> Held(u))
<1>0. \A e \in queue : e.id \in Tasks
  BY DEF IInv, TypeInv, TypeOK, Entry
<1>1. ASSUME NEW u \in Tasks, u # t PROVE Held(u)' <=> Held(u)
  <2>1. hand[w] # u /\ hand'[w] # u
    BY <1>1, TaskQueueAssumption
  <2> QED BY <2>1 DEF Held
<1>2. ASSUME NEW u \in Tasks PROVE Plain(u)'
  BY <1>1 DEF QuietInv, Plain
<1>3. ASSUME NEW v \in Workers PROVE InHand(v)'
  <2>1. hand[v] \in Tasks \/ pc[v] \notin {"handler", "lockwait"}
    BY DEF IInv, HandsFull, Executing
  <2> QED BY <2>1 DEF QuietInv, InHand
<1>4. OnePlace'
  <2>1. \A v, x \in Workers : hand'[v] = hand'[x] /\ hand'[v] # NoTask => v = x
    BY DEF QuietInv, OnePlace
  <2>2. \A e \in queue' : \A v \in Workers : hand'[v] # e.id
    <3> SUFFICES ASSUME NEW e \in queue', NEW v \in Workers PROVE hand'[v] # e.id
      OBVIOUS
    <3>1. e.id \in Tasks
      BY <1>0
    <3>2. CASE v = w
      BY <3>1, <3>2, TaskQueueAssumption
    <3>3. CASE v # w
      BY <3>3 DEF QuietInv, OnePlace
    <3> QED BY <3>2, <3>3
  <2> QED BY <2>1, <2>2 DEF OnePlace
<1> QED BY <1>1, <1>2, <1>3, <1>4 DEF QuietInv

-----------------------------------------------------------------------------
(* The requests                                                             *)

\* What is over stays as it is, or is cleared.
Final == \A t \in Tasks : task[t].status \in Terminal => task'[t].status \in {task[t].status, "cleared"}
Goes == QuietInv' /\ [Lifecycle!Next]_Lifecycle!vars /\ Final

LEMMA HandsHeld ==
  ASSUME IInv, QuietInv, NEW t \in Tasks
  PROVE  /\ Held(t) => task[t].status \in {"running", "cancelling"}
         /\ task[t].status \in {"running", "cancelling"} => Held(t)
BY DEF QuietInv, InHand, Plain, Held, Executing

LEMMA AddGoes ==
  ASSUME IInv, QuietInv, NEW t \in Tasks, NEW k \in Keys, NEW p \in 0..100,
         NEW m \in RetryLimits \cup {0}, Add(t, k, p, m)
  PROVE  Goes
<1>0. task \in [Tasks -> Task] /\ task[t].status = "absent" /\ clock \in Nat /\ m \in Nat
  BY TaskQueueAssumption DEF IInv, TypeInv, TypeOK, Add
<1>1. \A w \in Workers : hand[w] # t
  BY <1>0 DEF IInv, HandsKnown, Known
<1>2. \A e \in queue : e.id # t
  BY <1>0 DEF IInv, EntriesKnown, Known
<1>3. task'[t] = NewTask(k, p, m, FALSE) /\ \A u \in Tasks : u # t => task'[u] = task[u]
  BY <1>0 DEF Add
<1>4. UNCHANGED <<pc, hand>>
  BY DEF Add
<1>5. ~Held(t) /\ ~Held(t)'
  BY <1>1, <1>4 DEF Held
<1>6. /\ \A e \in queue' : e \in queue \/ e.id = t
      /\ \A e, f \in queue' : e.id = f.id => e = f
  BY <1>2 DEF Add, WithEntry, QuietInv, OnePlace
<1>7. Plain(t)'
  BY <1>0, <1>3, <1>5 DEF Plain, NewTask
<1>8. QuietInv' /\ \A u \in Tasks : u # t => (Held(u)' <=> Held(u))
  BY <1>1, <1>3, <1>4, <1>6, <1>7, RequestKeeps
<1>9. Lifecycle!Submit(t)
  <2>1. PhaseOf(task[t], Held(t)) = "none" /\ PhaseOf(task'[t], Held(t)') = "pending"
        /\ LeftOf(task'[t], Held(t)') = m + 1 /\ task'[t].key = k
    BY <1>0, <1>3, <1>5 DEF PhaseOf, LeftOf, NewTask
  <2>2. phase[t] = "none"
    BY <2>1, Mapping
  <2> QED BY <1>3, <1>8, <2>1, <2>2, OneTask DEF Lifecycle!Submit
<1>10. Final
  BY <1>0, <1>3 DEF Final, Terminal
<1> QED BY <1>8, <1>9, <1>10 DEF Goes, Lifecycle!Next

LEMMA CancelGoes ==
  ASSUME IInv, QuietInv, NEW t \in Tasks, Cancel(t)
  PROVE  Goes
<1>0. task \in [Tasks -> Task] /\ task[t] \in Task /\ Live(t) /\ UNCHANGED <<queue, pc, hand>>
  BY DEF IInv, TypeInv, TypeOK, Cancel
<1>1. /\ task[t].status \in {"queued", "running", "cancelling"} /\ task[t].status \notin Terminal
      /\ Plain(t)
  BY <1>0 DEF QuietInv, Plain, Live, Exists, Task, Statuses
<1>2. /\ \A u \in Tasks : u # t => task'[u] = task[u]
      /\ task'[t] = [task[t] EXCEPT !.cancelReq = TRUE, !.pauseReq = FALSE,
                       !.status = IF task[t].status = "queued" THEN "cancelled" ELSE "cancelling"]
  BY <1>0, <1>1 DEF Cancel, CancelTask
<1>3. /\ task'[t].status = (IF task[t].status = "queued" THEN "cancelled" ELSE "cancelling")
      /\ task'[t].cancelReq = TRUE /\ task'[t].pauseReq = FALSE /\ task'[t].external = task[t].external
      /\ task'[t].key = task[t].key /\ task'[t].attempt = task[t].attempt
      /\ task'[t].maxRetries = task[t].maxRetries
  BY <1>0, <1>2 DEF Task
<1>4. Held(t)' <=> Held(t)
  BY <1>0 DEF Held
<1>5. Plain(t)'
  BY <1>1, <1>3, <1>4 DEF Plain
<1>6. \A w \in Workers : hand[w] = t => InHand(w)'
  BY <1>0, <1>1, <1>3 DEF QuietInv, InHand
<1>7. /\ UNCHANGED <<pc, hand>>
      /\ \A e \in queue' : e \in queue \/ (e.id = t /\ \A w \in Workers : hand[w] # t)
      /\ \A e, f \in queue' : e.id = f.id => e = f
  BY <1>0 DEF QuietInv, OnePlace
<1>8. QuietInv' /\ \A u \in Tasks : u # t => (Held(u)' <=> Held(u))
  BY <1>2, <1>5, <1>6, <1>7, RequestKeeps
<1>9. Final
  BY <1>1, <1>2 DEF Final
<1>10. CASE task[t].status = "queued"
  <2>1. ~Held(t)
    BY <1>10, HandsHeld
  <2>2. PhaseOf(task[t], Held(t)) = "pending" /\ PhaseOf(task'[t], Held(t)') = "over"
        /\ LeftOf(task'[t], Held(t)') = 0
    BY <1>3, <1>4, <1>10, <2>1 DEF PhaseOf, LeftOf
  <2>3. place' = place
    BY <1>2, <1>3, Mapping
  <2>4. Lifecycle!End(t)
    BY <1>2, <1>8, <2>2, <2>3, OneTask, Mapping DEF Lifecycle!End
  <2> QED BY <1>8, <1>9, <2>4 DEF Goes, Lifecycle!Next
<1>11. CASE task[t].status # "queued"
  <2>1. Held(t)
    BY <1>1, <1>11, HandsHeld
  <2>2. /\ PhaseOf(task'[t], Held(t)') = PhaseOf(task[t], Held(t))
        /\ LeftOf(task'[t], Held(t)') = LeftOf(task[t], Held(t))
    BY <1>1, <1>3, <1>4, <1>11, <2>1 DEF PhaseOf, LeftOf
  <2>3. \A u \in Tasks : /\ PhaseOf(task'[u], Held(u)') = PhaseOf(task[u], Held(u))
                         /\ LeftOf(task'[u], Held(u)') = LeftOf(task[u], Held(u))
                         /\ task'[u].key = task[u].key
    BY <1>2, <1>3, <1>8, <2>2 DEF PhaseOf, LeftOf
  <2> QED BY <1>8, <1>9, <2>3, Stutters DEF Goes
<1> QED BY <1>10, <1>11

\* Steps that only drop entries, or move nobody in or out of a handler.
LEMMA OthersGo ==
  ASSUME IInv, QuietInv, UNCHANGED <<task, hand>>, queue' \subseteq queue,
         \A w \in Workers : \/ pc'[w] = pc[w]
                            \/ pc[w] = "backoff" /\ pc'[w] = "idle"
  PROVE  Goes
<1>1. \A t \in Tasks : Held(t)' <=> Held(t)
  BY DEF Held, Executing
<1>2. QuietInv'
  <2>1. \A t \in Tasks : Plain(t)'
    BY <1>1 DEF QuietInv, Plain
  <2>2. \A w \in Workers : InHand(w)'
    BY DEF QuietInv, InHand
  <2>3. OnePlace'
    BY DEF QuietInv, OnePlace
  <2> QED BY <2>1, <2>2, <2>3 DEF QuietInv
<1>3. UNCHANGED Lifecycle!vars
  BY <1>1, Stutters DEF PhaseOf, LeftOf
<1> QED BY <1>2, <1>3 DEF Goes, Final

\* The entry of a queued task is its only place.
LEMMA Taken ==
  ASSUME IInv, QuietInv, NEW w \in Workers, NEW e \in queue, TakeEntry(w, e)
  PROVE  /\ e.id \in Tasks
         /\ \A v \in Workers : hand[v] # e.id
         /\ hand[w] = NoTask /\ pc[w] = "idle"
         /\ \A f \in queue' : f \in queue /\ f.id # e.id
         /\ \A f, g \in queue' : f.id = g.id => f = g
BY DEF TakeEntry, IInv, TypeInv, TypeOK, Entry, QuietInv, OnePlace, InHand

LEMMA WaitGoes ==
  ASSUME IInv, QuietInv, NEW w \in Workers, PickWaits(w)
  PROVE  Goes
<1>0. /\ pc \in [Workers -> Executing \cup {"idle", "lockwait", "backoff"}]
      /\ hand \in [Workers -> Tasks \cup {NoTask}]
  BY DEF IInv, TypeInv, TypeOK
<1>1. PICK e \in queue : /\ TakeEntry(w, e) /\ task[e.id].status = "queued"
                         /\ pc' = [pc EXCEPT ![w] = "lockwait"]
                         /\ hand' = [hand EXCEPT ![w] = e.id]
                         /\ UNCHANGED task
  BY DEF PickWaits
<1>2. PICK t \in Tasks : t = e.id
  BY <1>1, Taken
<1>3. /\ \A v \in Workers : hand[v] # t
      /\ hand[w] = NoTask /\ pc[w] = "idle"
      /\ \A f \in queue' : f \in queue /\ f.id # t
      /\ \A f, g \in queue' : f.id = g.id => f = g
  BY <1>1, <1>2, Taken
<1>4. /\ pc'[w] = "lockwait" /\ hand'[w] = t
      /\ \A v \in Workers : v # w => pc'[v] = pc[v] /\ hand'[v] = hand[v]
  BY <1>0, <1>1, <1>2
<1>5. ~Held(t) /\ ~Held(t)'
  BY <1>3, <1>4 DEF Held, Executing
<1>6. Plain(t)' /\ InHand(w)'
  BY <1>1, <1>2, <1>4, <1>5 DEF QuietInv, Plain, InHand
<1>7. QuietInv' /\ \A u \in Tasks : u # t => (Held(u)' <=> Held(u))
  BY <1>1, <1>3, <1>4, <1>6, WorkerKeeps
<1>8. UNCHANGED Lifecycle!vars
  <2>1. \A u \in Tasks : Held(u)' <=> Held(u)
    BY <1>5, <1>7
  <2> QED BY <1>1, <2>1, Stutters DEF PhaseOf, LeftOf
<1> QED BY <1>1, <1>7, <1>8 DEF Goes, Final

\* A worker that has the lock begins the task, or finds it cancelled or gone.
LEMMA BeginGoes ==
  ASSUME IInv, QuietInv, NEW w \in Workers, NEW t \in Tasks, NEW locks, Begin(w, t, locks),
         hand[w] \in {t, NoTask}, pc[w] \in {"idle", "lockwait"},
         \A v \in Workers : v # w => hand[v] # t,
         \A e \in queue' : e \in queue /\ e.id # t,
         \/ task[t].status \in {"queued", "cleared"}
         \/ task[t].status = "cancelled" /\ task[t].cancelReq,
         \A v \in Workers : pc[v] \in Executing => task[hand[v]].key # task[t].key
  PROVE  Goes
<1>0. /\ pc \in [Workers -> Executing \cup {"idle", "lockwait", "backoff"}]
      /\ hand \in [Workers -> Tasks \cup {NoTask}]
      /\ task \in [Tasks -> Task] /\ task[t] \in Task
  BY DEF IInv, TypeInv, TypeOK
<1>1. Plain(t) /\ ~Held(t)
  <2>1. ~Held(t)
    BY DEF Held, Executing
  <2> QED BY <2>1 DEF QuietInv
<1>2. \A e, f \in queue' : e.id = f.id => e = f
  BY DEF QuietInv, OnePlace
<1>3. ASSUME NEW where \in {"backoff", "idle"}, Leave(w, t, locks, where), Plain(t)',
             \A u \in Tasks : u # t => task'[u] = task[u]
      PROVE  /\ QuietInv' /\ ~Held(t)'
             /\ \A u \in Tasks : u # t => (Held(u)' <=> Held(u))
  <2>1. /\ pc'[w] = where /\ hand'[w] = NoTask
        /\ \A v \in Workers : v # w => pc'[v] = pc[v] /\ hand'[v] = hand[v]
    BY <1>0, <1>3 DEF Leave
  <2>2. InHand(w)'
    BY <2>1 DEF InHand
  <2>3. ~Held(t)'
    BY <2>1, TaskQueueAssumption DEF Held
  <2> QED BY <1>2, <1>3, <2>1, <2>2, <2>3, WorkerKeeps
<1>4. CASE ~Exists(t)
  <2>1. Leave(w, t, locks, "backoff") /\ UNCHANGED task
    BY <1>4 DEF Begin
  <2>2. task[t].status = "cleared"
    BY <1>4 DEF Exists, Missing
  <2>3. Plain(t)'
    BY <1>1, <2>1, <2>2 DEF Plain
  <2>4. QuietInv' /\ \A u \in Tasks : Held(u)' <=> Held(u)
    BY <1>1, <1>3, <2>1, <2>3
  <2>5. UNCHANGED Lifecycle!vars
    BY <2>1, <2>4, Stutters DEF PhaseOf, LeftOf
  <2> QED BY <2>1, <2>4, <2>5 DEF Goes, Final
<1>5. CASE Exists(t) /\ task[t].cancelReq
  <2>1. CancelTask(t) /\ Leave(w, t, locks, "idle")
    BY <1>5 DEF Begin
  <2>2. CASE task[t].status = "cancelled"
    <3>1. UNCHANGED task
      BY <2>1, <2>2 DEF CancelTask, Terminal
    <3>2. Plain(t)'
      BY <1>1, <3>1, <2>2 DEF Plain
    <3>3. QuietInv' /\ \A u \in Tasks : Held(u)' <=> Held(u)
      BY <1>1, <1>3, <2>1, <3>1, <3>2
    <3>4. UNCHANGED Lifecycle!vars
      BY <3>1, <3>3, Stutters DEF PhaseOf, LeftOf
    <3> QED BY <3>1, <3>3, <3>4 DEF Goes, Final
  <2>3. CASE task[t].status = "queued"
    <3>1. task' = [task EXCEPT ![t].cancelReq = TRUE, ![t].pauseReq = FALSE,
                               ![t].status = "cancelled"]
      BY <2>1, <2>3 DEF CancelTask, Terminal
    <3>2. /\ task'[t].status = "cancelled" /\ task'[t].key = task[t].key
          /\ ~task'[t].pauseReq /\ task'[t].external = task[t].external
          /\ task'[t].maxRetries = task[t].maxRetries
          /\ \A u \in Tasks : u # t => task'[u] = task[u]
      BY <1>0, <3>1 DEF Task
    <3>3. Plain(t)'
      BY <1>1, <3>2 DEF Plain
    <3>4. QuietInv' /\ ~Held(t)' /\ \A u \in Tasks : u # t => (Held(u)' <=> Held(u))
      BY <1>3, <2>1, <3>2, <3>3
    <3>5. PhaseOf(task[t], Held(t)) = "pending" /\ PhaseOf(task'[t], Held(t)') = "over"
          /\ LeftOf(task'[t], Held(t)') = 0
      BY <1>1, <2>3, <3>2, <3>4 DEF PhaseOf, LeftOf
    <3>6. place' = place
      BY <3>2, Mapping
    <3>7. Lifecycle!End(t)
      BY <3>2, <3>4, <3>5, <3>6, OneTask, Mapping DEF Lifecycle!End
    <3>8. Final
      BY <2>3, <3>2 DEF Final, Terminal
    <3> QED BY <3>4, <3>7, <3>8 DEF Goes, Lifecycle!Next
  <2>4. task[t].status # "cleared"
    BY <1>5 DEF Exists, Missing
  <2> QED BY <2>2, <2>3, <2>4
<1>6. CASE Exists(t) /\ ~task[t].cancelReq
  <2>1. task[t].status = "queued"
    BY <1>6 DEF Exists, Missing
  <2>2. task' = [task EXCEPT ![t].started = TRUE, ![t].attempt = @ + 1, ![t].status = "running"]
        /\ pc' = [pc EXCEPT ![w] = "handler"] /\ hand' = [hand EXCEPT ![w] = t]
    BY <1>1, <1>6 DEF Begin, Plain
  <2>3. /\ task'[t].status = "running" /\ task'[t].key = task[t].key
        /\ task'[t].pauseReq = task[t].pauseReq /\ task'[t].external = task[t].external
        /\ task'[t].maxRetries = task[t].maxRetries /\ task'[t].attempt = task[t].attempt + 1
        /\ task[t].attempt \in Nat /\ task[t].maxRetries \in Nat
        /\ \A u \in Tasks : u # t => task'[u] = task[u]
    BY <1>0, <2>2 DEF Task
  <2>4. /\ pc'[w] = "handler" /\ hand'[w] = t
        /\ \A v \in Workers : v # w => pc'[v] = pc[v] /\ hand'[v] = hand[v]
    BY <1>0, <2>2
  <2>5. Held(t)'
    BY <2>4 DEF Held, Executing
  <2>6. Plain(t)' /\ InHand(w)'
    BY <1>1, <2>3, <2>4, <2>5 DEF Plain, InHand
  <2>7. QuietInv' /\ \A u \in Tasks : u # t => (Held(u)' <=> Held(u))
    BY <1>2, <2>3, <2>4, <2>6, WorkerKeeps
  <2>8. Lifecycle!Start(t)
    <3>1. /\ PhaseOf(task[t], Held(t)) = "pending" /\ PhaseOf(task'[t], Held(t)') = "active"
          /\ LeftOf(task[t], Held(t)) = task[t].maxRetries + 1 - task[t].attempt
          /\ LeftOf(task'[t], Held(t)') = task[t].maxRetries + 1 - (task[t].attempt + 1)
      BY <1>1, <2>1, <2>3, <2>5 DEF PhaseOf, LeftOf
    <3>2. phase[t] = "pending" /\ left[t] = task[t].maxRetries + 1 - task[t].attempt
      BY <3>1, Mapping
    <3>3. left[t] > 0 /\ LeftOf(task'[t], Held(t)') = left[t] - 1
      BY <1>1, <2>1, <2>3, <3>1, <3>2 DEF Plain
    <3>4. \A u \in Tasks : phase[u] = "active" => place[u] # place[t]
      <4>1. \A u \in Tasks : phase[u] = "active" => Held(u)
        BY Mapping DEF PhaseOf
      <4>2. \A u \in Tasks : Held(u) => task[u].key # task[t].key
        BY DEF Held
      <4> QED BY <4>1, <4>2, Mapping
    <3>5. place' = place
      BY <2>3, Mapping
    <3>6. phase' = [phase EXCEPT ![t] = "active"] /\ left' = [left EXCEPT ![t] = left[t] - 1]
      BY <2>3, <2>7, <3>1, <3>3, OneTask
    <3> QED BY <3>2, <3>3, <3>4, <3>5, <3>6 DEF Lifecycle!Start
  <2>9. Final
    BY <2>1, <2>3 DEF Final, Terminal
  <2> QED BY <2>7, <2>8, <2>9 DEF Goes, Lifecycle!Next
<1> QED BY <1>4, <1>5, <1>6

LEMMA PickBeginsGoes ==
  ASSUME IInv, QuietInv, NEW w \in Workers, PickBegins(w)
  PROVE  Goes
<1>1. PICK e \in queue : /\ TakeEntry(w, e) /\ task[e.id].status = "queued"
                         /\ lockQ[task[e.id].key] = <<>>
                         /\ Begin(w, e.id, [lockQ EXCEPT ![task[e.id].key] = <<w>>])
  BY DEF PickBegins
<1>2. PICK t \in Tasks : t = e.id
  BY <1>1, Taken
<1>3. /\ \A v \in Workers : hand[v] # t
      /\ hand[w] = NoTask /\ pc[w] = "idle"
      /\ \A f \in queue' : f \in queue /\ f.id # t
  BY <1>1, <1>2, Taken
<1>4. \A v \in Workers : pc[v] \in Executing => task[hand[v]].key # task[t].key
  BY <1>1, <1>2 DEF IInv, ExecutingIsFirst
<1>5. PICK locks : Begin(w, t, locks)
  BY <1>1, <1>2
<1> QED BY <1>1, <1>2, <1>3, <1>4, <1>5, BeginGoes

LEMMA LockGrantedGoes ==
  ASSUME IInv, QuietInv, NEW w \in Workers, LockGranted(w)
  PROVE  Goes
<1>1. /\ pc[w] = "lockwait" /\ UNCHANGED queue
      /\ Head(lockQ[task[hand[w]].key]) = w
      /\ Begin(w, hand[w], lockQ)
  BY DEF LockGranted
<1>2. PICK t \in Tasks : t = hand[w]
  BY <1>1 DEF IInv, HandsFull
<1>3. \A v \in Workers : v # w => hand[v] # t
  BY <1>2, TaskQueueAssumption DEF QuietInv, OnePlace
<1>4. \A e \in queue' : e \in queue /\ e.id # t
  BY <1>1, <1>2 DEF QuietInv, OnePlace
<1>5. \A v \in Workers : pc[v] \in Executing => task[hand[v]].key # task[t].key
  BY <1>1, <1>2 DEF IInv, ExecutingIsFirst, Executing
<1>6. \/ task[t].status \in {"queued", "cleared"}
      \/ task[t].status = "cancelled" /\ task[t].cancelReq
  BY <1>1, <1>2 DEF QuietInv, InHand
<1>7. Begin(w, t, lockQ) /\ hand[w] \in {t, NoTask} /\ pc[w] \in {"idle", "lockwait"}
  BY <1>1, <1>2
<1> QED BY <1>3, <1>4, <1>5, <1>6, <1>7, BeginGoes

\* An attempt ends: the task is over, or queued again by its worker.
LEMMA AttemptGoes ==
  ASSUME IInv, QuietInv, NEW w \in Workers, NEW t \in Tasks, NEW st \in Terminal \cup {"queued"},
         pc[w] = "handler", hand[w] = t,
         task' = [task EXCEPT ![t].status = st], Leave(w, t, lockQ, "idle"),
         st = "queued" => task[t].attempt <= task[t].maxRetries,
         \A e \in queue' : e \in queue \/ (e.id = t /\ st = "queued"),
         \A e, f \in queue' : e.id = f.id => e = f
  PROVE  Goes
<1>0. /\ pc \in [Workers -> Executing \cup {"idle", "lockwait", "backoff"}]
      /\ hand \in [Workers -> Tasks \cup {NoTask}]
      /\ task \in [Tasks -> Task] /\ task[t] \in Task
  BY DEF IInv, TypeInv, TypeOK
<1>1. Plain(t) /\ Held(t) /\ task[t].status \in {"running", "cancelling"}
  BY DEF QuietInv, InHand, Held, Executing
<1>2. /\ task'[t].status = st /\ task'[t].key = task[t].key
      /\ task'[t].pauseReq = task[t].pauseReq /\ task'[t].external = task[t].external
      /\ task'[t].maxRetries = task[t].maxRetries /\ task'[t].attempt = task[t].attempt
      /\ task[t].attempt \in Nat /\ task[t].maxRetries \in Nat
      /\ \A u \in Tasks : u # t => task'[u] = task[u]
  BY <1>0 DEF Task
<1>3. /\ pc'[w] = "idle" /\ hand'[w] = NoTask
      /\ \A v \in Workers : v # w => pc'[v] = pc[v] /\ hand'[v] = hand[v]
  BY <1>0 DEF Leave
<1>4. \A v \in Workers : v # w => hand[v] # t
  BY TaskQueueAssumption DEF QuietInv, OnePlace
<1>5. ~Held(t)'
  BY <1>3, <1>4, TaskQueueAssumption DEF Held
<1>6. Plain(t)' /\ InHand(w)'
  BY <1>1, <1>2, <1>3 DEF Plain, InHand, Terminal
<1>7. QuietInv' /\ \A u \in Tasks : u # t => (Held(u)' <=> Held(u))
  <2>1. /\ \A e \in queue' : e \in queue \/ e.id = t
        /\ \A e \in queue' : e.id = t => hand'[w] = NoTask
    BY <1>3
  <2> QED BY <1>2, <1>3, <1>4, <1>6, <2>1, WorkerKeeps
<1>8. place' = place
  BY <1>2, Mapping
<1>9. PhaseOf(task[t], Held(t)) = "active"
  BY <1>1 DEF PhaseOf
<1>10. Final
  BY <1>1, <1>2 DEF Final, Terminal
<1>11. CASE st = "queued"
  <2>1. PhaseOf(task'[t], Held(t)') = "pending"
        /\ LeftOf(task'[t], Held(t)') = task[t].maxRetries + 1 - task[t].attempt
        /\ LeftOf(task[t], Held(t)) = task[t].maxRetries + 1 - task[t].attempt
    BY <1>2, <1>5, <1>9, <1>11 DEF PhaseOf, LeftOf
  <2>2. phase[t] = "active" /\ left[t] = task[t].maxRetries + 1 - task[t].attempt
    BY <1>9, <2>1, Mapping
  <2>3. left[t] > 0
    BY <1>2, <1>11, <2>2
  <2>4. left' = left
    <3>1. \A u \in Tasks : LeftOf(task'[u], Held(u)') = LeftOf(task[u], Held(u))
      BY <1>2, <1>7, <2>1 DEF LeftOf, PhaseOf
    <3> QED BY <3>1, Mapping
  <2>5. Lifecycle!Again(t)
    BY <1>2, <1>7, <1>8, <2>1, <2>2, <2>3, <2>4, OneTask DEF Lifecycle!Again
  <2> QED BY <1>7, <1>10, <2>5 DEF Goes, Lifecycle!Next
<1>12. CASE st \in Terminal
  <2>1. PhaseOf(task'[t], Held(t)') = "over" /\ LeftOf(task'[t], Held(t)') = 0
    BY <1>2, <1>5, <1>12 DEF PhaseOf, LeftOf, Terminal
  <2>2. Lifecycle!End(t)
    BY <1>2, <1>7, <1>8, <1>9, <2>1, OneTask, Mapping DEF Lifecycle!End
  <2> QED BY <1>7, <1>10, <2>2 DEF Goes, Lifecycle!Next
<1> QED BY <1>11, <1>12

LEMMA WorkerGoes ==
  ASSUME IInv, QuietInv, NEW w \in Workers, WorkerStep(w)
  PROVE  Goes
<1>0. /\ \A e \in queue : e.id \in Tasks
      /\ \A e, f \in queue : e.id = f.id => e = f
      /\ \A v \in Workers : pc[v] \in Executing \cup {"lockwait"} => hand[v] \in Tasks
      /\ task \in [Tasks -> Task]
      /\ pc \in [Workers -> Executing \cup {"idle", "lockwait", "backoff"}]
  BY DEF IInv, TypeInv, TypeOK, Entry, HandsFull, QuietInv, OnePlace
<1>1. CASE PickSkips(w) \/ BackoffEnds(w)
  BY <1>0, <1>1, OthersGo DEF PickSkips, BackoffEnds, TakeEntry
<1>2. CASE PickPauses(w)
  BY <1>0, <1>2 DEF PickPauses, QuietInv, Plain
<1>3. CASE PickBegins(w) \/ PickWaits(w) \/ LockGranted(w)
  BY <1>3, PickBeginsGoes, WaitGoes, LockGrantedGoes
<1>4. CASE Succeeds(w) \/ Fails(w) \/ CheckpointCancels(w)
  <2>1. PICK st \in Terminal : pc[w] = "handler" /\ Ends(w, hand[w], st)
    BY <1>4 DEF Succeeds, Fails, CheckpointCancels, Terminal
  <2>2. PICK t \in Tasks : t = hand[w]
    BY <1>0, <2>1 DEF Executing
  <2>3. /\ task' = [task EXCEPT ![t].status = st] /\ Leave(w, t, lockQ, "idle")
        /\ queue' = queue /\ st # "queued"
    BY <2>1, <2>2 DEF Ends, Terminal
  <2>4. /\ pc[w] = "handler" /\ hand[w] = t
        /\ \A e \in queue' : e \in queue
        /\ \A e, f \in queue' : e.id = f.id => e = f
    BY <1>0, <2>1, <2>2, <2>3
  <2> QED BY <2>3, <2>4, AttemptGoes
<1>5. CASE FailsAndRequeues(w)
  <2>1. PICK t \in Tasks : t = hand[w]
    BY <1>0, <1>5 DEF FailsAndRequeues, Executing
  <2>2. \A e \in queue : e.id # t
    BY <1>5, <2>1 DEF QuietInv, OnePlace
  <2>3. /\ pc[w] = "handler" /\ task[t].attempt <= task[t].maxRetries
        /\ task' = [task EXCEPT ![t].status = "queued"] /\ Leave(w, t, lockQ, "idle")
        /\ queue' = WithEntry(t, task[t].prio, clock)
    BY <1>5, <2>1 DEF FailsAndRequeues
  <2>4. /\ \A e \in queue' : e \in queue \/ e.id = t
        /\ \A e, f \in queue' : e.id = f.id => e = f
    BY <1>0, <2>2, <2>3 DEF WithEntry
  <2> QED BY <2>1, <2>3, <2>4, AttemptGoes
<1>6. CASE CheckpointPauses(w)
  <2>1. hand[w] \in Tasks /\ task[hand[w]].pauseReq
    BY <1>0, <1>6 DEF CheckpointPauses, Executing
  <2> QED BY <2>1 DEF QuietInv, Plain
<1>7. CASE CheckpointGone(w) \/ CheckpointWakesCancelled(w) \/ CheckpointContinues(w)
  BY <1>7 DEF CheckpointGone, CheckpointWakesCancelled, CheckpointContinues, QuietInv, InHand
<1> QED BY <1>1, <1>2, <1>3, <1>4, <1>5, <1>6, <1>7 DEF WorkerStep

LEMMA RequestGoes ==
  ASSUME IInv, QuietInv, Quiet, NEW t \in Tasks, Request(t)
  PROVE  Goes
<1>0. task \in [Tasks -> Task] /\ \A u \in Tasks : task[u].maxRetries \in RetryLimits \cup {0}
  BY DEF IInv, TypeInv, TypeOK, QuietInv, Plain
<1>1. CASE Enqueue(t)
  BY <1>1, AddGoes, TaskQueueAssumption DEF Enqueue
<1>2. CASE EnqueueAndWait(t)
  BY <1>2, AddGoes, TaskQueueAssumption DEF EnqueueAndWait
<1>3. CASE \E old \in Tasks : Retry(old, t)
  <2>1. PICK old \in Tasks : Retry(old, t)
    BY <1>3
  <2>2. task[old].key \in Keys /\ OrDefault(task[old].prio) \in 0..100
    BY <1>0, OrDefaultType DEF Task
  <2> QED BY <1>0, <2>1, <2>2, AddGoes DEF Retry
<1>4. CASE Cancel(t)
  BY <1>4, CancelGoes
<1>5. CASE Pause(t) \/ Resume(t) \/ CreateExternal(t)
  BY <1>5 DEF Pause, Resume, CreateExternal, Quiet
<1>6. CASE BindExternal(t) \/ FinishExternal(t)
  BY <1>6 DEF BindExternal, FinishExternal, QuietInv, Plain
<1> QED BY <1>1, <1>2, <1>3, <1>4, <1>5, <1>6 DEF Request

LEMMA ClearGoes ==
  ASSUME IInv, QuietInv, ClearCompleted
  PROVE  Goes
<1>0. task \in [Tasks -> Task] /\ UNCHANGED <<queue, pc, hand>>
  BY DEF IInv, TypeInv, TypeOK, ClearCompleted
<1>1. \A t \in Tasks : Held(t)' <=> Held(t)
  BY <1>0 DEF Held
<1>2. ASSUME NEW t \in Tasks
      PROVE  \/ task'[t] = task[t] /\ task[t].status \notin Terminal
             \/ /\ task[t].status \in Terminal /\ task'[t].status = "cleared"
                /\ ~task'[t].pauseReq /\ ~task'[t].external /\ task'[t].maxRetries = 0
                /\ task'[t].key = task[t].key
  BY DEF ClearCompleted, Popped, Blank
<1>3. \A t \in Tasks : Plain(t)'
  BY <1>1, <1>2 DEF QuietInv, Plain
<1>4. \A w \in Workers : InHand(w)'
  <2> SUFFICES ASSUME NEW w \in Workers PROVE InHand(w)'
    OBVIOUS
  <2>1. hand[w] \in Tasks \/ pc[w] \notin {"handler", "lockwait"}
    BY DEF IInv, HandsFull, Executing
  <2>2. CASE pc[w] \notin {"handler", "lockwait"}
    BY <1>0, <2>2 DEF QuietInv, InHand
  <2>3. CASE hand[w] \in Tasks
    BY <1>0, <1>2, <2>3 DEF QuietInv, InHand, Terminal
  <2> QED BY <2>1, <2>2, <2>3
<1>5. QuietInv'
  BY <1>0, <1>3, <1>4 DEF QuietInv, OnePlace
<1>6. UNCHANGED Lifecycle!vars
  <2>1. ASSUME NEW t \in Tasks, task[t].status \in Terminal PROVE ~Held(t)
    BY <2>1, HandsHeld DEF Terminal
  <2>2. \A t \in Tasks : /\ PhaseOf(task'[t], Held(t)') = PhaseOf(task[t], Held(t))
                         /\ LeftOf(task'[t], Held(t)') = LeftOf(task[t], Held(t))
                         /\ task'[t].key = task[t].key
    BY <1>1, <1>2, <2>1 DEF PhaseOf, LeftOf, Terminal
  <2> QED BY <2>2, Stutters
<1>7. Final
  BY <1>2 DEF Final
<1> QED BY <1>5, <1>6, <1>7 DEF Goes

LEMMA RestartGoes ==
  ASSUME IInv, QuietInv, Restart
  PROVE  Goes
<1>0. task \in [Tasks -> Task]
  BY DEF IInv, TypeInv, TypeOK
<1>1. ASSUME NEW t \in Tasks
      PROVE  /\ task'[t].status = IF Held(t) THEN "failed" ELSE task[t].status
             /\ task'[t].key = task[t].key /\ task'[t].pauseReq = task[t].pauseReq
             /\ task'[t].external = task[t].external /\ task'[t].attempt = task[t].attempt
             /\ task'[t].maxRetries = task[t].maxRetries
             /\ Held(t) => task[t].status \in {"running", "cancelling"}
  <2>1. Held(t) <=> task[t].status \in {"running", "cancelling"}
    BY HandsHeld
  <2>2. task[t] \in Task /\ task'[t] = Loaded(task[t])
    BY <1>0 DEF Restart
  <2> QED BY <2>1, <2>2 DEF Loaded, Task
<1>2. /\ \A w \in Workers : pc'[w] = "idle" /\ hand'[w] = NoTask
      /\ \A e \in queue' : e.id \in Tasks
      /\ \A e, f \in queue' : e.id = f.id => e = f
  BY DEF Restart
<1>3. \A t \in Tasks : ~Held(t)'
  BY <1>2, TaskQueueAssumption DEF Held
<1>4. ASSUME NEW t \in Tasks PROVE Plain(t)'
  <2>1. Plain(t) /\ (task[t].status \in {"running", "cancelling"} => Held(t))
    BY DEF QuietInv, Plain
  <2> QED BY <1>1, <2>1 DEF Plain
<1>5. \A w \in Workers : InHand(w)'
  BY <1>2 DEF InHand
<1>6. OnePlace'
  BY <1>2, TaskQueueAssumption DEF OnePlace
<1>7. Lifecycle!Restart
  <2>1. ASSUME NEW t \in Tasks
        PROVE  /\ PhaseOf(task'[t], Held(t)')
                    = IF PhaseOf(task[t], Held(t)) = "active" THEN "over" ELSE PhaseOf(task[t], Held(t))
               /\ LeftOf(task'[t], Held(t)')
                    = IF PhaseOf(task[t], Held(t)) = "active" THEN 0 ELSE LeftOf(task[t], Held(t))
    <3>1. CASE Held(t)
      BY <1>1, <1>3, <3>1 DEF PhaseOf, LeftOf
    <3>2. CASE ~Held(t)
      BY <1>1, <1>3, <3>2 DEF PhaseOf, LeftOf
    <3> QED BY <3>1, <3>2
  <2>2. /\ phase' = [t \in Tasks |-> IF phase[t] = "active" THEN "over" ELSE phase[t]]
        /\ left' = [t \in Tasks |-> IF phase[t] = "active" THEN 0 ELSE left[t]]
    BY <2>1, Mapping
  <2>3. place' = place
    BY <1>1, Mapping
  <2> QED BY <2>2, <2>3 DEF Lifecycle!Restart
<1>8. Final
  BY <1>1 DEF Final, Terminal
<1> QED BY <1>4, <1>5, <1>6, <1>7, <1>8 DEF Goes, QuietInv, Lifecycle!Next

LEMMA QuietStep == ASSUME Quiet PROVE IInv /\ QuietInv /\ [Next]_vars => Goes
<1> SUFFICES ASSUME IInv, QuietInv, [Next]_vars PROVE Goes
  OBVIOUS
<1>1. CASE \E t \in Tasks : Request(t)
  BY <1>1, RequestGoes
<1>2. CASE (\E t \in Tasks : CallerWakes(t)) \/ UNCHANGED vars
  BY <1>2, OthersGo DEF CallerWakes, vars
<1>3. CASE ClearCompleted \/ Restart
  BY <1>3, ClearGoes, RestartGoes
<1>4. CASE \E w \in Workers : WorkerStep(w)
  BY <1>4, WorkerGoes
<1> QED BY <1>1, <1>2, <1>3, <1>4 DEF Next

LEMMA QuietInit == Init => QuietInv /\ Lifecycle!Init
<1> SUFFICES ASSUME Init PROVE QuietInv /\ Lifecycle!Init
  OBVIOUS
<1>1. \A w \in Workers : pc[w] = "idle" /\ hand[w] = NoTask
  BY DEF Init
<1>2. \A t \in Tasks : ~Held(t)
  BY <1>1 DEF Held, Executing
<1>3. QuietInv
  BY <1>1, TaskQueueAssumption DEF Init, QuietInv, Plain, InHand, OnePlace, Blank
<1>4. \A t \in Tasks : /\ PhaseOf(task[t], Held(t)) = "none" /\ LeftOf(task[t], Held(t)) = 0
                       /\ task[t].key \in Keys
  BY TaskQueueAssumption DEF Init, Blank, PhaseOf, LeftOf
<1>5. Lifecycle!Init
  BY <1>4, Mapping DEF Lifecycle!Init
<1> QED BY <1>3, <1>5

\* While nobody pauses and no deployment adds its task, the queue implements the
\* abstract lifecycle: one active task for each instance, attempts that are
\* counted, and endings for good (task_queue.py: _worker, _execute, _load).
THEOREM QueueImplementsLifecycle == ASSUME Quiet PROVE Spec => ImplementsLifecycle
<1>1. Init => IInv /\ QuietInv /\ Lifecycle!Init
  BY IInvInit, QuietInit
<1>2. IInv /\ QuietInv /\ [Next]_vars => IInv' /\ QuietInv' /\ [Lifecycle!Next]_Lifecycle!vars
  BY IInvStep, QuietStep DEF Goes
<1> QED BY <1>1, <1>2, PTL DEF Spec, ImplementsLifecycle, Lifecycle!Spec

\* Then a task that has ended is over, whatever cancels, retries, clears or
\* restarts come after.
THEOREM EndingsAreFinal == ASSUME Quiet PROVE Spec => TerminalIsFinal
<1>1. Init => IInv /\ QuietInv
  BY IInvInit, QuietInit
<1>2. IInv /\ QuietInv /\ [Next]_vars => IInv' /\ QuietInv'
  BY IInvStep, QuietStep DEF Goes
<1>3. IInv /\ QuietInv /\ [Next]_vars => [Final]_vars
  BY QuietStep DEF Goes
<1> QED BY <1>1, <1>2, <1>3, PTL DEF Spec, TerminalIsFinal, Final
=============================================================================
