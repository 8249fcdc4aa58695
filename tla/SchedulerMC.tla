----------------------------- MODULE SchedulerMC -----------------------------
(* Scheduler for TLC: slots of five minutes in a day of seven, the window of  *)
(* 15 minutes and a schedule that warns ten minutes before.                 *)
EXTENDS Scheduler

Daily == [hour |-> 3, days |-> {0}, lead |-> 2]
Schedules2 == {Never, Daily}
=============================================================================
