------------------------- MODULE TaskQueueRefinement -------------------------
(***************************************************************************)
(* TaskQueue implements TaskLifecycle.  A task is active while a worker is *)
(* in its handler, pending while it is queued (its entry in the priority   *)
(* queue or its worker waiting for the lock), over afterwards.             *)
(***************************************************************************)
EXTENDS TaskQueue

phase == [t \in Tasks |->
  IF task[t].status = "absent" THEN "none"
  ELSE IF Held(t) THEN "active"
  ELSE IF task[t].status = "queued" THEN "pending"
  ELSE "over"]

place == [t \in Tasks |-> task[t].key]

left == [t \in Tasks |->
  IF phase[t] \in {"pending", "active"}
  THEN task[t].maxRetries + 1 - task[t].attempt ELSE 0]

\* enqueue_and_wait submits with no automatic retry.
Lifecycle == INSTANCE TaskLifecycle WITH RetryLimits <- RetryLimits \cup {0}

\* While nobody pauses, the queue keeps the promise of TaskLifecycle: workers,
\* locks, retries, cancellation and restarts add no other outcome.
ImplementsLifecycle == Lifecycle!Spec
=============================================================================
