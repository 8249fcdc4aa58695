------------------------------ MODULE Scheduler ------------------------------
(***************************************************************************)
(* The scheduler of EGM (services/scheduler.py) with the schedules that    *)
(* routes/automation.py saves: one loop over all instances that makes the  *)
(* scheduled backups, warns the players and restarts the servers.          *)
(*                                                                         *)
(* Time is counted in slots of a few minutes, Day slots a day.  The loop   *)
(* is much faster than a slot: a slot only passes after a whole round of   *)
(* it, or while it waits for a backup task or a server.  Catching up is    *)
(* possible for Window slots.                                              *)
(***************************************************************************)
EXTENDS Integers

CONSTANTS
  Last,       \* the instances are 1..Last, in the order of the registry
  Conan,      \* those that run Conan Exiles
  Day,        \* slots of a day
  Window,     \* _CATCH_UP_WINDOW in slots
  Schedules,  \* what users save: hour, weekdays and minutes of warning
  Week,       \* days of a week
  MaxTime,    \* bound: slots
  MaxChanges  \* bound: saved schedules, ends of EGM, exceptions in the loop, and stops
              \* of servers by others

Instances == 1..Last
Palworlds == Instances \ Conan   \* Conan servers have no schedules
Never == [hour |-> 0, days |-> {}, lead |-> 0]

ASSUME SchedulerAssumption ==
  /\ Last \in Nat \ {0} /\ Conan \subseteq Instances
  /\ Day \in Nat \ {0} /\ Week \in Nat \ {0}
  /\ MaxTime \in Nat /\ MaxChanges \in Nat
  /\ Window \in Nat \ {0}   \* a slot is no longer than the window
  /\ Never \in Schedules
  /\ Schedules \subseteq [hour: 0..(Day - 1), days: SUBSET (0..(Week - 1)), lead: Nat]
  \* They name whole hours, and the window is shorter than an hour.
  /\ \A s, t \in Schedules :
       s.days # {} /\ t.days # {} /\ s.hour < t.hour => s.hour + Window < t.hour

VARIABLES
  now,
  saved,         \* automation.json of each instance: its backup and restart schedule
  server,        \* the state of each server
  at,            \* the instance the loop is at, 0 between two rounds
  step,          \* the check it is in
  config,        \* the schedules it has loaded for that instance
  round,         \* "late" if the slot has changed since the round began
  backupFired,   \* _last_backup_fired: the day
  restartFired,  \* _last_restart_fired: the slot
  warningFired,  \* _last_warning_fired: the slot of the restart
  warnedAt,      \* history: when that was
  restarts,      \* history: the restarts that were begun, by instance and slot
  repeated,      \* history: one of them was begun twice by the same EGM process
  steady,        \* history: since the warning was due, nothing got in the way of the restart
  changes

vars == <<now, saved, server, at, step, config, round, backupFired, restartFired, warningFired,
          warnedAt, restarts, repeated, steady, changes>>
loop == <<at, step, config, round>>
fired == <<backupFired, restartFired, warningFired>>
history == <<warnedAt, restarts, repeated, steady>>

Steps == {"asleep", "look", "backup", "task", "restart", "fire", "stop", "start"}
Blank == -1

-----------------------------------------------------------------------------
(* _target_time and _within_catch_up_window                                 *)

Midnight(t) == (t \div Day) * Day
Matches(s, t) == (t \div Day) % Week \in s.days
Target(s, t) == Midnight(t) + s.hour
InWindow(target, t) == target <= t /\ t <= target + Window

BackupDue(i) ==
  /\ Matches(config.backup, now)
  /\ InWindow(Target(config.backup, now), now)
  /\ backupFired[i] # now \div Day

\* Mutant: the minutes of warning are not subtracted.
WarningDueLate(i) ==
  LET target == Target(config.restart, now) IN
  /\ Matches(config.restart, now)
  /\ config.restart.lead > 0
  /\ InWindow(target, now)
  /\ warningFired[i] # target

WarningDue(i) ==
  LET target == Target(config.restart, now) IN
  /\ Matches(config.restart, now)
  /\ config.restart.lead > 0
  /\ InWindow(target - config.restart.lead, now)
  /\ warningFired[i] # target

RestartDue(i) ==
  LET target == Target(config.restart, now) IN
  /\ Matches(config.restart, now)
  /\ InWindow(target, now)
  /\ restartFired[i] # target

-----------------------------------------------------------------------------
(* run_forever and _check_instance                                          *)

Changes == changes < MaxChanges /\ changes' = changes + 1

\* The registry cannot be read: the round ends before its first instance.
RoundFails ==
  /\ at = 0
  /\ Changes
  /\ round' = "done"
  /\ steady' = [i \in Palworlds |-> FALSE]
  /\ UNCHANGED <<now, saved, server, at, step, config, fired, warnedAt, restarts, repeated>>

Wakes ==
  /\ at = 0
  /\ at' = 1 /\ step' = "look" /\ round' = "on"
  /\ UNCHANGED <<now, saved, server, config, fired, history, changes>>

\* Mutant: the round does not end.
PassesInPlace(i) ==
  /\ config' = [backup |-> Never, restart |-> Never]
  /\ at' = IF i < Last THEN i + 1 ELSE i
  /\ step' = "look"
  /\ round' = "done"

\* The next instance, or the pause after the last one.
Passes(i) ==
  /\ config' = [backup |-> Never, restart |-> Never]
  /\ IF i < Last
     THEN at' = i + 1 /\ step' = "look" /\ UNCHANGED round
     ELSE at' = 0 /\ step' = "asleep" /\ round' = IF round = "on" THEN "done" ELSE "due"

\* An exception ends the check of this instance, not the round.
Breaks(i) == Changes /\ Passes(i) /\ steady' = [steady EXCEPT ![i] = FALSE]

Goes(to) == step' = to /\ UNCHANGED <<at, config, round>>

\* The health check; Conan servers have no other.
LooksAtConan(i) ==
  /\ at = i /\ step = "look"
  /\ i \in Conan
  /\ Passes(i)
  /\ UNCHANGED <<now, saved, server, fired, history, changes>>

Looks(i) ==
  /\ at = i /\ step = "look"
  /\ i \in Palworlds
  /\ config' = saved[i]
  /\ step' = "backup"
  /\ UNCHANGED <<at, round>>
  /\ UNCHANGED <<now, saved, server, fired, history, changes>>

NoBackup(i) ==
  /\ at = i /\ step = "backup"
  /\ ~BackupDue(i)
  /\ Goes("restart")
  /\ UNCHANGED <<now, saved, server, fired, history, changes>>

\* The day is noted before the task is awaited.
BackupFires(i) ==
  /\ at = i /\ step = "backup"
  /\ BackupDue(i)
  /\ backupFired' = [backupFired EXCEPT ![i] = now \div Day]
  /\ Goes("task")
  /\ UNCHANGED <<now, saved, server, restartFired, warningFired, history, changes>>

\* It is completed, or it fails with an OSError.
BackupEnds(i) ==
  /\ at = i /\ step = "task"
  /\ Goes("restart")
  /\ UNCHANGED <<now, saved, server, fired, history, changes>>

\* Nothing of the slot is done: an answer or an error of the REST API that is no
\* PalworldRestError, a file of schedules that cannot be read, or a backup task
\* that is cancelled or fails otherwise (RuntimeError).
CheckBreaks(i) ==
  /\ at = i /\ step \in {"look", "task", "restart"}
  /\ i \in Palworlds
  /\ Breaks(i)
  /\ UNCHANGED <<now, saved, server, fired, warnedAt, restarts, repeated>>

NotOnline(i) ==
  /\ at = i /\ step = "restart"
  /\ server[i] # "online"
  /\ Passes(i)
  /\ UNCHANGED <<now, saved, server, fired, history, changes>>

NoRestart(i) ==
  /\ at = i /\ step = "fire"
  /\ ~RestartDue(i)
  /\ Passes(i)
  /\ UNCHANGED <<now, saved, server, fired, history, changes>>

\* Mutant: the warning is noted under the key of the restart.
WarnsForTheRestart(i) ==
  /\ at = i /\ step = "restart"
  /\ server[i] = "online"
  /\ restartFired' = IF WarningDue(i) /\ warnedAt[i] # now
                     THEN [restartFired EXCEPT ![i] = Target(config.restart, now)]
                     ELSE restartFired
  /\ warnedAt' = [warnedAt EXCEPT ![i] = now]
  /\ Goes("fire")
  /\ UNCHANGED <<now, saved, server, backupFired, warningFired, restarts, repeated, steady, changes>>

Warns(i) ==
  /\ at = i /\ step = "restart"
  /\ server[i] = "online"
  /\ IF WarningDue(i)
     THEN /\ warningFired' = [warningFired EXCEPT ![i] = Target(config.restart, now)]
          /\ warnedAt' = [warnedAt EXCEPT ![i] = now]
     ELSE UNCHANGED <<warningFired, warnedAt>>
  /\ Goes("fire")
  /\ UNCHANGED <<now, saved, server, backupFired, restartFired, restarts, repeated, steady, changes>>

\* The warning is noted before it is sent, and sending it raises.
WarningBreaks(i) ==
  /\ at = i /\ step = "restart"
  /\ server[i] = "online"
  /\ WarningDue(i)
  /\ warningFired' = [warningFired EXCEPT ![i] = Target(config.restart, now)]
  /\ warnedAt' = [warnedAt EXCEPT ![i] = now]
  /\ Breaks(i)
  /\ UNCHANGED <<now, saved, server, backupFired, restartFired, restarts, repeated>>

\* Mutant: the slot of the restart is not noted.
RestartFiresUnnoted(i) ==
  LET target == Target(config.restart, now) IN
  /\ at = i /\ step = "fire"
  /\ RestartDue(i)
  /\ restarts' = restarts \cup {<<i, target>>}
  /\ repeated' = (repeated \/ <<i, target>> \in restarts)
  /\ Goes("stop")
  /\ UNCHANGED <<now, saved, server, fired, warnedAt, steady, changes>>

\* mark_intentional_stop, broadcast and save.
RestartFires(i) ==
  LET target == Target(config.restart, now) IN
  /\ at = i /\ step = "fire"
  /\ RestartDue(i)
  /\ restartFired' = [restartFired EXCEPT ![i] = target]
  /\ restarts' = restarts \cup {<<i, target>>}
  /\ repeated' = (repeated \/ <<i, target>> \in restarts)
  /\ Goes("stop")
  /\ UNCHANGED <<now, saved, server, backupFired, warningFired, warnedAt, steady, changes>>

\* The slot is noted, and the announcement or the save raises: the server goes
\* on, and nobody stops it for this slot any more.
RestartBreaks(i) ==
  LET target == Target(config.restart, now) IN
  /\ at = i /\ step = "fire"
  /\ RestartDue(i)
  /\ restartFired' = [restartFired EXCEPT ![i] = target]
  /\ restarts' = restarts \cup {<<i, target>>}
  /\ repeated' = (repeated \/ <<i, target>> \in restarts)
  /\ Breaks(i)
  /\ UNCHANGED <<now, saved, server, backupFired, warningFired, warnedAt>>

RestartStops(i) ==
  /\ at = i /\ step = "stop"
  /\ server' = [server EXCEPT ![i] = "offline"]
  /\ Goes("start")
  /\ UNCHANGED <<now, saved, fired, history, changes>>

\* process_manager.stop raises, before it has ended the server or after.
StopBreaks(i) ==
  /\ at = i /\ step = "stop"
  /\ \E state \in {server[i], "offline"} : server' = [server EXCEPT ![i] = state]
  /\ Breaks(i)
  /\ UNCHANGED <<now, saved, fired, warnedAt, restarts, repeated>>

\* ProcessError: somebody has started it, or it cannot be started.
RestartStarts(i) ==
  /\ at = i /\ step = "start"
  /\ \/ server[i] = "offline" /\ server' = [server EXCEPT ![i] = "starting"]
     \/ UNCHANGED server
  /\ Passes(i)
  /\ UNCHANGED <<now, saved, fired, history, changes>>

-----------------------------------------------------------------------------
(* Around the loop                                                          *)

\* update_automation
SavesSchedule(i) ==
  /\ Changes
  /\ \E b, r \in Schedules : saved' = [saved EXCEPT ![i] = [backup |-> b, restart |-> r]]
  /\ steady' = [steady EXCEPT ![i] = FALSE]
  /\ UNCHANGED <<now, server, loop, fired, warnedAt, restarts, repeated>>

\* A user starts it; a start takes its time until the server counts as online.
ServerStarts(i) ==
  /\ server[i] # "online"
  /\ server' = [server EXCEPT ![i] = IF server[i] = "offline" THEN "starting" ELSE "online"]
  /\ UNCHANGED <<now, saved, loop, fired, history, changes>>

\* A user stops it, or it dies.
ServerEnds(i) ==
  /\ server[i] # "offline"
  /\ Changes
  /\ server' = [server EXCEPT ![i] = "offline"]
  /\ steady' = [steady EXCEPT ![i] = FALSE]
  /\ UNCHANGED <<now, saved, loop, fired, warnedAt, restarts, repeated>>

\* What has fired is only known in memory.
EgmRestarts ==
  /\ Changes
  /\ at' = 0 /\ step' = "asleep" /\ round' = "due"
  /\ config' = [backup |-> Never, restart |-> Never]
  /\ backupFired' = [i \in Palworlds |-> Blank]
  /\ restartFired' = [i \in Palworlds |-> Blank]
  /\ warningFired' = [i \in Palworlds |-> Blank]
  /\ restarts' = {}
  /\ steady' = [i \in Palworlds |-> FALSE]
  /\ UNCHANGED <<now, saved, server, warnedAt, repeated>>

Held == step \in {"task", "stop", "start"}

\* The slot in which the restart, or the warning of it, comes due on its day.
ComesDue(i, t) ==
  LET s == saved[i].restart
      first == Target(s, t) - s.lead
  IN Matches(s, t) /\ t = IF first < Midnight(t) THEN Target(s, t) ELSE first

Tick ==
  /\ now < MaxTime
  /\ round = "done" \/ Held
  /\ now' = now + 1
  /\ round' = IF at = 0 THEN "due" ELSE "late"
  /\ steady' = [i \in Palworlds |->
       ~Held /\ server[i] = "online" /\ (ComesDue(i, now + 1) \/ steady[i])]
  /\ UNCHANGED <<saved, server, at, step, config, fired, warnedAt, restarts, repeated, changes>>

-----------------------------------------------------------------------------

Init ==
  /\ now = 0
  /\ saved \in [Palworlds -> [backup: Schedules, restart: Schedules]]
  /\ server = [i \in Palworlds |-> "online"]
  /\ at = 0 /\ step = "asleep" /\ round = "due"
  /\ config = [backup |-> Never, restart |-> Never]
  /\ backupFired = [i \in Palworlds |-> Blank]
  /\ restartFired = [i \in Palworlds |-> Blank]
  /\ warningFired = [i \in Palworlds |-> Blank]
  /\ warnedAt = [i \in Palworlds |-> Blank]
  /\ restarts = {} /\ repeated = FALSE
  /\ steady = [i \in Palworlds |-> FALSE]
  /\ changes = 0

Check(i) ==
  \/ LooksAtConan(i) \/ Looks(i)
  \/ NoBackup(i) \/ BackupFires(i) \/ BackupEnds(i)
  \/ NotOnline(i) \/ NoRestart(i) \/ Warns(i) \/ RestartFires(i) \/ RestartStops(i) \/ RestartStarts(i)

Raises(i) == CheckBreaks(i) \/ WarningBreaks(i) \/ RestartBreaks(i) \/ StopBreaks(i)

Outside ==
  \/ \E i \in Palworlds : SavesSchedule(i) \/ ServerStarts(i) \/ ServerEnds(i)
  \/ EgmRestarts

Next ==
  \/ Wakes \/ RoundFails
  \/ \E i \in Instances : Check(i) \/ Raises(i)
  \/ Outside
  \/ Tick

Spec == Init /\ [][Next]_vars

\* The loop runs on.  That the task of its backup ends is what TaskQueue
\* shows of the callers of enqueue_and_wait, as long as nobody pauses the task.
FairSpec == Spec /\ WF_vars(Wakes) /\ \A i \in Instances : WF_vars(Check(i))

-----------------------------------------------------------------------------
(* Properties                                                               *)

TypeOK ==
  /\ now \in 0..MaxTime
  /\ saved \in [Palworlds -> [backup: Schedules, restart: Schedules]]
  /\ server \in [Palworlds -> {"offline", "starting", "online"}]
  /\ at \in 0..Last
  /\ step \in Steps
  /\ config \in [backup: Schedules, restart: Schedules]
  /\ round \in {"due", "on", "late", "done"}
  /\ backupFired \in [Palworlds -> Int]
  /\ restartFired \in [Palworlds -> Int]
  /\ warningFired \in [Palworlds -> Int]
  /\ warnedAt \in [Palworlds -> Int]
  /\ restarts \subseteq Palworlds \X Int
  /\ repeated \in BOOLEAN
  /\ steady \in [Palworlds -> BOOLEAN]
  /\ changes \in 0..MaxChanges

\* A restart that comes due is begun once by one EGM process, though only the
\* last one is remembered and schedules change in between.
RestartsOnce == ~repeated

\* When the catch-up window of a restart closes, it has been begun, if the
\* server was online, EGM was up, nobody changed the schedule, no check of the
\* instance ended with an exception and the loop was not held up by a backup or
\* by another restart.
NothingMissed ==
  [][\A i \in Palworlds :
       LET s == saved[i].restart IN
       (now' > now /\ Matches(s, now) /\ now = Target(s, now) + Window /\ steady[i])
         => <<i, Target(s, now)>> \in restarts]_vars

\* The restart follows its warning by the minutes that the warning names: the
\* restart is begun no earlier, if nothing got in the way since the warning
\* was due on the same day.  That the players have read it is not claimed:
\* _try_broadcast goes on where the REST API refuses it.
WarnedInTime ==
  [][\A i \in Palworlds :
       LET s == config.restart IN
       (restartFired'[i] # restartFired[i] /\ restartFired'[i] # Blank /\ steady[i]
          /\ s.hour >= s.lead /\ s.lead > 0)
         => warningFired[i] = restartFired'[i] /\ now >= warnedAt[i] + s.lead]_vars

\* What the warning says, however late it was given.
WarningIsTrue ==
  [][\A i \in Palworlds :
       (restartFired'[i] # restartFired[i] /\ warningFired[i] = restartFired'[i]
          /\ restartFired'[i] # Blank)
         => now >= warnedAt[i] + config.restart.lead]_vars

\* The loop comes to every instance again and again.
LoopComesRound == \A i \in Instances : []<>(at = i)
=============================================================================
