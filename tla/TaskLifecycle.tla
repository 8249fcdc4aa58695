---------------------------- MODULE TaskLifecycle ----------------------------
(***************************************************************************)
(* What the task queue promises, without queue, workers, locks and flags:  *)
(* a submitted task is pending until it is withdrawn or started; only one  *)
(* task per key is active at a time; an attempt ends the task or, while    *)
(* attempts are left, makes it pending again; a restart keeps what is      *)
(* pending and ends what is active; what is over is over.                  *)
(***************************************************************************)
EXTENDS Naturals

CONSTANTS Tasks, Keys, RetryLimits

VARIABLES phase, place, left
vars == <<phase, place, left>>

Init ==
  /\ phase = [t \in Tasks |-> "none"]
  /\ place \in [Tasks -> Keys]
  /\ left = [t \in Tasks |-> 0]

Submit(t) ==
  /\ phase[t] = "none"
  /\ phase' = [phase EXCEPT ![t] = "pending"]
  /\ \E k \in Keys, m \in RetryLimits :
       /\ place' = [place EXCEPT ![t] = k]
       /\ left' = [left EXCEPT ![t] = m + 1]

Start(t) ==
  /\ phase[t] = "pending"
  /\ left[t] > 0
  /\ \A u \in Tasks : phase[u] = "active" => place[u] # place[t]
  /\ phase' = [phase EXCEPT ![t] = "active"]
  /\ left' = [left EXCEPT ![t] = @ - 1]
  /\ UNCHANGED place

Again(t) ==
  /\ phase[t] = "active"
  /\ left[t] > 0
  /\ phase' = [phase EXCEPT ![t] = "pending"]
  /\ UNCHANGED <<place, left>>

End(t) ==
  /\ phase[t] \in {"pending", "active"}
  /\ phase' = [phase EXCEPT ![t] = "over"]
  /\ left' = [left EXCEPT ![t] = 0]
  /\ UNCHANGED place

Restart ==
  /\ phase' = [t \in Tasks |-> IF phase[t] = "active" THEN "over" ELSE phase[t]]
  /\ left' = [t \in Tasks |-> IF phase[t] = "active" THEN 0 ELSE left[t]]
  /\ UNCHANGED place

Next ==
  \/ \E t \in Tasks : Submit(t) \/ Start(t) \/ Again(t) \/ End(t)
  \/ Restart

Spec == Init /\ [][Next]_vars
=============================================================================
