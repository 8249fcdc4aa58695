------------------------------ MODULE TaskQueue ------------------------------
(***************************************************************************)
(* The persistent multi-instance task queue of Exiles Game Manager,        *)
(* src/app/services/task_queue.py, with the operations that                *)
(* src/app/routes/tasks.py offers on it.                                   *)
(*                                                                         *)
(* Everything runs on one asyncio event loop, so one action is the code    *)
(* between two points that yield to the loop.  `_persist()` follows every  *)
(* change of a task before the next yield: the file always holds `task`,   *)
(* and a stop or crash of the process (Restart) loses the in-memory        *)
(* structures only: priority queue, workers, instance locks and waiters.   *)
(***************************************************************************)
EXTENDS Integers, Sequences, FiniteSets

CONSTANTS
  Tasks,        \* ids that uuid4 may hand out; an id is used once
  NoTask,       \* what a worker without a task has in hand
  Workers,      \* the egm-task-worker coroutines, three in the code
  Keys,         \* instance ids, and the "__global__" key of tasks without one
  GlobalKey,    \* "__global__"
  Priorities,   \* the priorities that requests use, within 0..100
  RetryLimits,  \* the maxRetries that requests use
  Ops,          \* optional operations that happen in a run
  MaxRestarts,  \* bound: restarts of the process
  MaxCopies     \* bound: identical entries of one task in the priority queue

ASSUME TaskQueueAssumption ==
  /\ IsFiniteSet(Tasks)
  /\ NoTask \notin Tasks
  /\ GlobalKey \in Keys
  /\ Priorities \subseteq 0..100
  /\ RetryLimits \subseteq Nat
  /\ Ops \subseteq {"wait", "cancel", "pause", "retry", "clear", "external"}
  /\ MaxRestarts \in Nat
  /\ MaxCopies \in Nat

VARIABLES
  task,      \* _tasks, and the file
  queue,     \* _queue: the entries of the priority queue
  pc,        \* where each worker is
  hand,      \* the task id a worker took from the queue
  lockQ,     \* _instance_locks: the holder of each lock, then its waiters
  event,     \* _waiters: is the event of the task set?
  caller,    \* the coroutine in enqueue_and_wait for the task
  clock,     \* time.time(), advanced when an entry gets a fresh time
  restarts

vars == <<task, queue, pc, hand, lockQ, event, caller, clock, restarts>>

Terminal == {"completed", "failed", "cancelled"}
Missing == {"absent", "cleared"}
Statuses == Terminal \cup Missing \cup {"queued", "running", "paused", "cancelling"}
Executing == {"handler", "checkpoint"}

Task == [status: Statuses, key: Keys, prio: 0..100, created: Nat, started: BOOLEAN,
         attempt: Nat, maxRetries: Nat, cancelReq: BOOLEAN, pauseReq: BOOLEAN,
         external: BOOLEAN]
Entry == [id: Tasks, prio: 0..100, at: Nat, copy: Nat]

Exists(t) == task[t].status \notin Missing
Live(t) == Exists(t) /\ task[t].status \notin Terminal
Held(t) == \E w \in Workers : pc[w] \in Executing /\ hand[w] = t

-----------------------------------------------------------------------------
(* The priority queue: highest priority first, then oldest.  Identical     *)
(* tuples of one task are told apart by `copy`, the last of them first.    *)

Precedes(e, f) ==
  \/ e.prio > f.prio
  \/ e.prio = f.prio /\ e.at < f.at
  \/ e.prio = f.prio /\ e.at = f.at /\ e.id = f.id /\ e.copy > f.copy

First(e) == e \in queue /\ \A f \in queue : ~Precedes(f, e)

CopiesOf(t, p, at) == {e \in queue : e.id = t /\ e.prio = p /\ e.at = at}

\* Mutant: the negated priority of the heap tuple is stored as the priority.
WithEntryNegated(t, p, at) ==
  queue \cup {[id |-> t, prio |-> -p, at |-> at, copy |-> Cardinality(CopiesOf(t, p, at))]}

WithEntry(t, p, at) ==
  queue \cup {[id |-> t, prio |-> p, at |-> at, copy |-> Cardinality(CopiesOf(t, p, at))]}

OrDefault(p) == IF p = 0 THEN 50 ELSE p

-----------------------------------------------------------------------------
(* Requests                                                                 *)

Blank ==
  [status |-> "absent", key |-> GlobalKey, prio |-> 50, created |-> 0, started |-> FALSE,
   attempt |-> 0, maxRetries |-> 0, cancelReq |-> FALSE, pauseReq |-> FALSE,
   external |-> FALSE]

NewTask(k, p, m, ext) ==
  [status |-> IF ext THEN "running" ELSE "queued", key |-> k, prio |-> p,
   created |-> clock, started |-> ext, attempt |-> IF ext THEN 1 ELSE 0,
   maxRetries |-> m, cancelReq |-> FALSE, pauseReq |-> FALSE, external |-> ext]

\* enqueue
Add(t, k, p, m) ==
  /\ task[t].status = "absent"
  /\ task' = [task EXCEPT ![t] = NewTask(k, p, m, FALSE)]
  /\ event' = [event EXCEPT ![t] = FALSE]
  /\ queue' = WithEntry(t, p, clock)
  /\ clock' = clock + 1
  /\ UNCHANGED <<pc, hand, lockQ, restarts>>

Enqueue(t) ==
  \E k \in Keys, p \in Priorities, m \in RetryLimits :
    Add(t, k, p, m) /\ UNCHANGED caller

EnqueueAndWait(t) ==
  \E k \in Keys, p \in Priorities :
    "wait" \in Ops /\ Add(t, k, p, 0) /\ caller' = [caller EXCEPT ![t] = "waiting"]

\* The awaiting coroutine resumes and reads the task again: it may be gone.
CallerWakes(t) ==
  /\ caller[t] = "waiting"
  /\ event[t]
  /\ caller' = [caller EXCEPT ![t] =
       IF Exists(t) THEN "answered" ELSE "KeyError"]
  /\ UNCHANGED <<task, queue, pc, hand, lockQ, event, clock, restarts>>

\* Mutant: the event is set for running tasks only, by their worker.
CancelTaskSilently(t) ==
  IF task[t].status \in Terminal THEN UNCHANGED <<task, event>>
  ELSE LET atOnce == task[t].status \in {"queued", "paused"} IN
    /\ task' = [task EXCEPT ![t].cancelReq = TRUE, ![t].pauseReq = FALSE,
                            ![t].status = IF atOnce THEN "cancelled" ELSE "cancelling"]
    /\ UNCHANGED event

CancelTask(t) ==
  IF task[t].status \in Terminal THEN UNCHANGED <<task, event>>
  ELSE LET atOnce == task[t].status \in {"queued", "paused"} IN
    /\ task' = [task EXCEPT ![t].cancelReq = TRUE, ![t].pauseReq = FALSE,
                            ![t].status = IF atOnce THEN "cancelled" ELSE "cancelling"]
    /\ event' = [event EXCEPT ![t] = @ \/ atOnce]

Cancel(t) ==
  /\ "cancel" \in Ops
  /\ Live(t)
  /\ CancelTask(t)
  /\ UNCHANGED <<queue, pc, hand, lockQ, caller, clock, restarts>>

Pause(t) ==
  /\ "pause" \in Ops
  /\ Live(t)
  /\ task' = [task EXCEPT ![t].pauseReq = TRUE,
                          ![t].status = IF @ = "queued" THEN "paused" ELSE @]
  /\ UNCHANGED <<queue, pc, hand, lockQ, event, caller, clock, restarts>>

\* Mutant: the status goes back to queued, the entry is not put again.
ResumeWithoutEntry(t) ==
  /\ "pause" \in Ops
  /\ Live(t)
  /\ task' = [task EXCEPT ![t].pauseReq = FALSE,
       ![t].status = IF task[t].status = "paused" /\ ~task[t].started THEN "queued" ELSE @]
  /\ UNCHANGED <<queue, pc, hand, lockQ, event, caller, clock, restarts>>

\* Mutant: resume relies on the checkpoint also for a task that never began.
ResumeClearsOnly(t) ==
  /\ "pause" \in Ops
  /\ Live(t)
  /\ task' = [task EXCEPT ![t].pauseReq = FALSE]
  /\ UNCHANGED <<queue, pc, hand, lockQ, event, caller, clock, restarts>>

Resume(t) ==
  LET requeue == task[t].status = "paused" /\ ~task[t].started IN
  /\ "pause" \in Ops
  /\ Live(t)
  /\ requeue => Cardinality(CopiesOf(t, task[t].prio, task[t].created)) < MaxCopies
  /\ task' = [task EXCEPT ![t].pauseReq = FALSE,
                          ![t].status = IF requeue THEN "queued" ELSE @]
  /\ queue' = IF requeue THEN WithEntry(t, task[t].prio, task[t].created) ELSE queue
  /\ UNCHANGED <<pc, hand, lockQ, event, caller, clock, restarts>>

Retry(old, new) ==
  /\ "retry" \in Ops
  /\ task[old].status \in Terminal
  /\ Add(new, task[old].key, OrDefault(task[old].prio), task[old].maxRetries)
  /\ UNCHANGED caller

\* What is left of a popped task: the lock that a worker may be waiting for.
Popped(r) == [Blank EXCEPT !.status = "cleared", !.key = r.key]

ClearCompleted ==
  /\ "clear" \in Ops
  /\ \E t \in Tasks : task[t].status \in Terminal
  /\ task' = [t \in Tasks |->
       IF task[t].status \in Terminal THEN Popped(task[t]) ELSE task[t]]
  /\ UNCHANGED <<queue, pc, hand, lockQ, event, caller, clock, restarts>>

-----------------------------------------------------------------------------
(* External tasks: shown in the queue, driven by deploy_jobs.               *)

CreateExternal(t) ==
  \E p \in Priorities :
    /\ "external" \in Ops
    /\ task[t].status = "absent"
    /\ task' = [task EXCEPT ![t] = NewTask(GlobalKey, p, 0, TRUE)]
    /\ event' = [event EXCEPT ![t] = FALSE]
    /\ clock' = clock + 1
    /\ UNCHANGED <<queue, pc, hand, lockQ, caller, restarts>>

BindExternal(t) ==
  \E k \in Keys :
    /\ task[t].external /\ Live(t)
    /\ task' = [task EXCEPT ![t].key = k]
    /\ UNCHANGED <<queue, pc, hand, lockQ, event, caller, clock, restarts>>

FinishExternal(t) ==
  \E verdict \in {"completed", "failed"} :
    /\ task[t].external /\ Live(t)
    /\ task' = [task EXCEPT ![t].status = verdict]
    /\ event' = [event EXCEPT ![t] = TRUE]
    /\ UNCHANGED <<queue, pc, hand, lockQ, caller, clock, restarts>>

-----------------------------------------------------------------------------
(* Workers                                                                  *)

\* `async with lock` ends: the next waiter becomes the holder.
Leave(w, t, locks, where) ==
  /\ lockQ' = [locks EXCEPT ![task[t].key] = Tail(@)]
  /\ pc' = [pc EXCEPT ![w] = where]
  /\ hand' = [hand EXCEPT ![w] = NoTask]

\* Mutant: a task cancelled while it waited for the lock keeps the lock.
BeginKeepsLock(w, t, locks) ==
  \/ /\ ~Exists(t)
     /\ Leave(w, t, locks, "backoff")
     /\ UNCHANGED <<task, event>>
  \/ /\ Exists(t) /\ task[t].cancelReq
     /\ CancelTask(t)
     /\ lockQ' = locks
     /\ pc' = [pc EXCEPT ![w] = "idle"]
     /\ hand' = [hand EXCEPT ![w] = NoTask]
  \/ /\ Exists(t) /\ ~task[t].cancelReq
     /\ task' = [task EXCEPT ![t].started = TRUE, ![t].attempt = @ + 1,
                             ![t].status = "running"]
     /\ pc' = [pc EXCEPT ![w] = "handler"]
     /\ hand' = [hand EXCEPT ![w] = t]
     /\ lockQ' = locks
     /\ UNCHANGED event

\* Mutant: cancelRequested is not looked at after the wait for the lock.
BeginIgnoresCancel(w, t, locks) ==
  \/ /\ ~Exists(t)
     /\ Leave(w, t, locks, "backoff")
     /\ UNCHANGED <<task, event>>
  \/ /\ Exists(t)
     /\ task' = [task EXCEPT ![t].started = TRUE, ![t].attempt = @ + 1,
                             ![t].status = "running"]
     /\ pc' = [pc EXCEPT ![w] = "handler"]
     /\ hand' = [hand EXCEPT ![w] = t]
     /\ lockQ' = locks
     /\ UNCHANGED event

\* _execute up to the handler's first await, the checkpoint of _dispatch
\* included.  The status is not looked at again after the wait for the lock.
Begin(w, t, locks) ==
  \/ /\ ~Exists(t)                                   \* KeyError
     /\ Leave(w, t, locks, "backoff")
     /\ UNCHANGED <<task, event>>
  \/ /\ Exists(t) /\ task[t].cancelReq
     /\ CancelTask(t)
     /\ Leave(w, t, locks, "idle")
  \/ /\ Exists(t) /\ ~task[t].cancelReq
     /\ task' = [task EXCEPT ![t].started = TRUE, ![t].attempt = @ + 1,
                   ![t].status = IF task[t].pauseReq THEN "paused" ELSE "running"]
     /\ pc' = [pc EXCEPT ![w] = IF task[t].pauseReq THEN "checkpoint" ELSE "handler"]
     /\ hand' = [hand EXCEPT ![w] = t]
     /\ lockQ' = locks
     /\ UNCHANGED event

TakeEntry(w, e) ==
  /\ pc[w] = "idle"
  /\ First(e)
  /\ queue' = queue \ {e}
  /\ UNCHANGED <<caller, clock, restarts>>

\* Missing, paused, cancelled or already running: the entry is dropped.
PickSkips(w) == \E e \in queue :
  /\ TakeEntry(w, e)
  /\ task[e.id].status # "queued"
  /\ UNCHANGED <<task, pc, hand, lockQ, event>>

PickPauses(w) == \E e \in queue :
  /\ TakeEntry(w, e)
  /\ task[e.id].status = "queued" /\ task[e.id].pauseReq
  /\ task' = [task EXCEPT ![e.id].status = "paused"]
  /\ UNCHANGED <<pc, hand, lockQ, event>>

\* Mutant: the instance lock is not waited for.
PickBeginsUnlocked(w) == \E e \in queue :
  /\ TakeEntry(w, e)
  /\ task[e.id].status = "queued" /\ ~task[e.id].pauseReq
  /\ Begin(w, e.id, [lockQ EXCEPT ![task[e.id].key] = <<w>> \o @])

PickBegins(w) == \E e \in queue :
  /\ TakeEntry(w, e)
  /\ task[e.id].status = "queued" /\ ~task[e.id].pauseReq
  /\ lockQ[task[e.id].key] = <<>>
  /\ Begin(w, e.id, [lockQ EXCEPT ![task[e.id].key] = <<w>>])

PickWaits(w) == \E e \in queue :
  /\ TakeEntry(w, e)
  /\ task[e.id].status = "queued" /\ ~task[e.id].pauseReq
  /\ lockQ[task[e.id].key] # <<>>
  /\ lockQ' = [lockQ EXCEPT ![task[e.id].key] = Append(@, w)]
  /\ pc' = [pc EXCEPT ![w] = "lockwait"]
  /\ hand' = [hand EXCEPT ![w] = e.id]
  /\ UNCHANGED <<task, event>>

LockGranted(w) ==
  /\ pc[w] = "lockwait"
  /\ lockQ[task[hand[w]].key] # <<>>
  /\ Head(lockQ[task[hand[w]].key]) = w
  /\ Begin(w, hand[w], lockQ)
  /\ UNCHANGED <<queue, caller, clock, restarts>>

\* The end of an execution: _execute sets the event, the lock is released.
Ends(w, t, status) ==
  /\ task' = [task EXCEPT ![t].status = status]
  /\ event' = [event EXCEPT ![t] = TRUE]
  /\ Leave(w, t, lockQ, "idle")
  /\ UNCHANGED <<queue, caller, clock, restarts>>

Succeeds(w) ==
  /\ pc[w] = "handler"
  /\ Ends(w, hand[w], "completed")

Fails(w) ==
  /\ pc[w] = "handler"
  /\ task[hand[w]].attempt > task[hand[w]].maxRetries
  /\ Ends(w, hand[w], "failed")

FailsAndRequeues(w) ==
  LET t == hand[w] IN
  /\ pc[w] = "handler"
  /\ task[t].attempt <= task[t].maxRetries
  /\ task' = [task EXCEPT ![t].status = "queued"]
  /\ queue' = WithEntry(t, task[t].prio, clock)
  /\ clock' = clock + 1
  /\ Leave(w, t, lockQ, "idle")
  /\ UNCHANGED <<event, caller, restarts>>

\* A checkpoint in the middle of a handler (server_update, firewall.sync_all).
CheckpointCancels(w) ==
  /\ pc[w] = "handler"
  /\ task[hand[w]].cancelReq
  /\ Ends(w, hand[w], "cancelled")

\* Mutant: pausing gives the worker free instead of sleeping in it.
CheckpointPausesAndLeaves(w) ==
  LET t == hand[w] IN
  /\ pc[w] = "handler"
  /\ task[t].pauseReq /\ ~task[t].cancelReq
  /\ task' = [task EXCEPT ![t].status = "paused"]
  /\ Leave(w, t, lockQ, "idle")
  /\ UNCHANGED <<queue, event, caller, clock, restarts>>

CheckpointPauses(w) ==
  LET t == hand[w] IN
  /\ pc[w] = "handler"
  /\ task[t].pauseReq /\ ~task[t].cancelReq
  /\ task' = [task EXCEPT ![t].status = "paused"]
  /\ pc' = [pc EXCEPT ![w] = "checkpoint"]
  /\ UNCHANGED <<queue, hand, lockQ, event, caller, clock, restarts>>

\* The loop of the checkpoint after its sleep(0.25).
CheckpointGone(w) ==
  LET t == hand[w] IN
  /\ pc[w] = "checkpoint"
  /\ ~Exists(t)
  /\ event' = [event EXCEPT ![t] = TRUE]
  /\ Leave(w, t, lockQ, "backoff")
  /\ UNCHANGED <<task, queue, caller, clock, restarts>>

CheckpointWakesCancelled(w) ==
  /\ pc[w] = "checkpoint"
  /\ Exists(hand[w]) /\ task[hand[w]].cancelReq
  /\ Ends(w, hand[w], "cancelled")

CheckpointContinues(w) ==
  LET t == hand[w] IN
  /\ pc[w] = "checkpoint"
  /\ Exists(t) /\ ~task[t].cancelReq /\ ~task[t].pauseReq
  /\ task' = [task EXCEPT ![t].status = IF @ = "paused" THEN "running" ELSE @]
  /\ pc' = [pc EXCEPT ![w] = "handler"]
  /\ UNCHANGED <<queue, hand, lockQ, event, caller, clock, restarts>>

BackoffEnds(w) ==
  /\ pc[w] = "backoff"
  /\ pc' = [pc EXCEPT ![w] = "idle"]
  /\ UNCHANGED <<task, queue, hand, lockQ, event, caller, clock, restarts>>

-----------------------------------------------------------------------------
(* The process ends (crash, stop() at shutdown, os._exit of an update) and  *)
(* start() loads the file.                                                  *)

\* Mutant: interrupted tasks are silently repeated.
LoadedRequeues(r) ==
  IF r.status \in {"running", "cancelling"} THEN [r EXCEPT !.status = "queued"] ELSE r

Loaded(r) ==
  IF r.status \in {"running", "cancelling"} THEN [r EXCEPT !.status = "failed"] ELSE r

Restart ==
  /\ restarts < MaxRestarts
  /\ restarts' = restarts + 1
  /\ task' = [t \in Tasks |-> Loaded(task[t])]
  /\ queue' = {[id |-> t, prio |-> OrDefault(task[t].prio), at |-> task[t].created, copy |-> 0] :
                 t \in {u \in Tasks : Loaded(task[u]).status = "queued"}}
  /\ pc' = [w \in Workers |-> "idle"]
  /\ hand' = [w \in Workers |-> NoTask]
  /\ lockQ' = [k \in Keys |-> <<>>]
  /\ event' = [t \in Tasks |-> FALSE]
  /\ caller' = [t \in Tasks |-> IF caller[t] = "waiting" THEN "died" ELSE caller[t]]
  /\ UNCHANGED clock

-----------------------------------------------------------------------------

Init ==
  /\ task = [t \in Tasks |-> Blank]
  /\ queue = {}
  /\ pc = [w \in Workers |-> "idle"]
  /\ hand = [w \in Workers |-> NoTask]
  /\ lockQ = [k \in Keys |-> <<>>]
  /\ event = [t \in Tasks |-> FALSE]
  /\ caller = [t \in Tasks |-> "none"]
  /\ clock = 0
  /\ restarts = 0

WorkerStep(w) ==
  \/ PickSkips(w) \/ PickPauses(w) \/ PickBegins(w) \/ PickWaits(w)
  \/ LockGranted(w)
  \/ Succeeds(w) \/ Fails(w) \/ FailsAndRequeues(w)
  \/ CheckpointCancels(w) \/ CheckpointPauses(w)
  \/ CheckpointGone(w) \/ CheckpointWakesCancelled(w) \/ CheckpointContinues(w)
  \/ BackoffEnds(w)

Request(t) ==
  \/ Enqueue(t) \/ EnqueueAndWait(t)
  \/ Cancel(t) \/ Pause(t) \/ Resume(t)
  \/ \E old \in Tasks : Retry(old, t)
  \/ CreateExternal(t) \/ BindExternal(t) \/ FinishExternal(t)

Next ==
  \/ \E t \in Tasks : Request(t) \/ CallerWakes(t)
  \/ ClearCompleted
  \/ \E w \in Workers : WorkerStep(w)
  \/ Restart

Spec == Init /\ [][Next]_vars

\* The event loop runs every coroutine that is ready and every handler ends.
Fairness ==
  /\ \A w \in Workers : WF_vars(WorkerStep(w))
  /\ \A t \in Tasks : WF_vars(CallerWakes(t))

FairSpec == Spec /\ Fairness

-----------------------------------------------------------------------------
(* Properties                                                               *)

TypeOK ==
  /\ task \in [Tasks -> Task]
  /\ queue \subseteq Entry
  /\ pc \in [Workers -> Executing \cup {"idle", "lockwait", "backoff"}]
  /\ hand \in [Workers -> Tasks \cup {NoTask}]
  /\ lockQ \in [Keys -> Seq(Workers)]
  /\ event \in [Tasks -> BOOLEAN]
  /\ caller \in [Tasks -> {"none", "waiting", "answered", "KeyError", "died"}]
  /\ clock \in Nat
  /\ restarts \in Nat

\* Operations are serialized per server instance: two workers never execute
\* tasks of the same instance at once (the asyncio.Lock of _worker).
SerializedPerInstance ==
  \A v, w \in Workers :
    (v # w /\ pc[v] \in Executing /\ pc[w] \in Executing)
      => task[hand[v]].key # task[hand[w]].key

\* A task shown as queued is never forgotten: it has an entry in the priority
\* queue or a worker that waits for its lock, whatever is paused, resumed,
\* retried, cleared or restarted.
QueuedIsScheduled ==
  \A t \in Tasks : task[t].status = "queued" =>
    \/ \E e \in queue : e.id = t
    \/ \E w \in Workers : pc[w] = "lockwait" /\ hand[w] = t

\* The event of enqueue_and_wait is set whenever its task has ended or has
\* been cleared: no caller waits for a task that is over.
NoCallerLeftBehind ==
  \A t \in Tasks :
    (caller[t] = "waiting" /\ ~Live(t)) => event[t]

\* A paused task that has started is in a checkpoint of its worker, so that
\* resume has someone to wake: it is never paused for good.  (Not so with
\* automatic retries: a pause asked for during a failing attempt is found by
\* PickPauses, and resume does not put a task back that has started.)
PausedIsHeld ==
  \A t \in Tasks :
    (task[t].status = "paused" /\ task[t].started /\ task[t].maxRetries = 0) => Held(t)

\* What a restart promises: a task that was executing when the process ended
\* fails and is not left half-done in a live state ("interrupted running
\* tasks fail safely", CHANGELOG.md).
InterruptedFails ==
  \A t \in Tasks :
    (Live(t) /\ task[t].started /\ ~task[t].external) => (Held(t) \/ task[t].status = "queued")

\* The tasks of deploy_jobs never reach a worker, neither by retry or resume
\* nor by the reload after a restart: no operation is dispatched for them.
ExternalHasNoWorker ==
  \A t \in Tasks : task[t].external =>
    /\ \A e \in queue : e.id # t
    /\ \A w \in Workers : hand[w] # t

\* A task that has ended is over: neither a worker nor a service changes its
\* verdict, only clear_completed removes it.
TerminalIsFinal ==
  [][\A t \in Tasks : task[t].status \in Terminal =>
       task'[t].status \in {task[t].status, "cleared"}]_vars

\* Every queued task is eventually worked off.
QueuedIsWorkedOff ==
  \A t \in Tasks :
    task[t].status = "queued" ~> task[t].status \in Terminal \cup {"paused", "cleared"}

\* Every caller of enqueue_and_wait gets an answer.
CallersReturn ==
  \A t \in Tasks : caller[t] = "waiting" ~> caller[t] # "waiting"

\* A task without automatic retries that was resumed goes on, unless it is
\* paused or cancelled again.
ResumedGoesOn ==
  \A t \in Tasks :
    (task[t].status = "paused" /\ ~task[t].pauseReq /\ task[t].maxRetries = 0)
      ~> (task[t].status # "paused" \/ task[t].pauseReq)
=============================================================================
