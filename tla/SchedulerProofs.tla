---------------------------- MODULE SchedulerProofs ----------------------------
(***************************************************************************)
(* Proofs about Scheduler for any number of instances, days, schedules and *)
(* changes: a restart that comes due is begun once, and if nothing gets in *)
(* the way it is begun within its window and after its warning.            *)
(***************************************************************************)
EXTENDS Scheduler, TLAPS

\* The schedules that name a day, and when they come due.
Real == {s \in Schedules : s.days # {}}
Due(d, s) == d * Day + s.hour

LEMMA DayOf ==
  ASSUME NEW t \in Nat
  PROVE  /\ t \div Day \in Nat
         /\ Midnight(t) = (t \div Day) * Day
         /\ Midnight(t) <= t /\ t < Midnight(t) + Day
BY SchedulerAssumption DEF Midnight

LEMMA LaterDay ==
  ASSUME NEW c \in Nat, NEW d \in Nat, c < d
  PROVE  c * Day + Day <= d * Day
<1>1. Day \in Nat /\ Day > 0
  BY SchedulerAssumption
<1>2. PICK k \in Nat : d = c + 1 + k
  <2>1. d - c - 1 \in Nat /\ d = c + 1 + (d - c - 1)
    OBVIOUS
  <2> QED BY <2>1
<1>3. d * Day = c * Day + Day + k * Day
  BY <1>1, <1>2
<1>4. k * Day \in Nat /\ c * Day \in Nat
  BY <1>1
<1> QED BY <1>1, <1>3, <1>4

\* What comes due after a restart comes due at a later time: a day has whole
\* hours, and the window of one closes before the next opens.
LEMMA LaterTarget ==
  ASSUME NEW d \in Nat, NEW s \in Real, NEW t \in Real, NEW n \in Nat,
         Due(d, s) <= n, InWindow(Due(n \div Day, t), n), Due(n \div Day, t) # Due(d, s)
  PROVE  Due(d, s) < Due(n \div Day, t)
<1> DEFINE q == n \div Day
           a == d * Day
           b == q * Day
<1>1. q \in Nat /\ b <= n /\ n < b + Day
  BY DayOf
<1>2. /\ s.hour \in Nat /\ s.hour < Day /\ t.hour \in Nat /\ t.hour < Day
      /\ t.hour < s.hour => t.hour + Window < s.hour
      /\ Day \in Nat /\ Window \in Nat
  BY SchedulerAssumption DEF Real
<1>3. a \in Nat /\ b \in Nat
  BY <1>1, <1>2
<1>4. /\ a + s.hour <= n /\ b + t.hour <= n /\ n <= b + t.hour + Window
      /\ a + s.hour # b + t.hour
  BY DEF Due, InWindow
<1>5. d < q => a + Day <= b
  BY <1>1, LaterDay
<1>6. q < d => b + Day <= a
  BY <1>1, LaterDay
<1>7. d = q => a = b
  OBVIOUS
<1> HIDE DEF a, b
<1>8. d < q \/ d = q \/ q < d
  BY <1>1
<1> HIDE DEF q
<1>9. a + s.hour < b + t.hour
  <2>1. CASE a + Day <= b
    BY <2>1, <1>2, <1>3
  <2>2. CASE b + Day <= a
    BY <2>2, <1>1, <1>2, <1>3, <1>4
  <2>3. CASE a = b
    <3>1. s.hour # t.hour
      BY <2>3, <1>4
    <3>2. ~(t.hour < s.hour)
      BY <2>3, <1>2, <1>3, <1>4
    <3>3. s.hour < t.hour
      BY <3>1, <3>2, <1>2
    <3> QED BY <3>3, <2>3, <1>2, <1>3
  <2> QED BY <2>1, <2>2, <2>3, <1>5, <1>6, <1>7, <1>8
<1> QED BY <1>9 DEF Due, a, b, q

-----------------------------------------------------------------------------
\* The last restart is remembered, and it came due after every other.
Remembered(i) ==
  \/ restartFired[i] = Blank /\ \A t \in Int : <<i, t>> \notin restarts
  \/ \E d \in Nat, s \in Real :
       /\ restartFired[i] = Due(d, s)
       /\ Due(d, s) <= now
       /\ \A t \in Int : <<i, t>> \in restarts => t <= Due(d, s)

Types ==
  /\ now \in Nat
  /\ saved \in [Palworlds -> [backup: Schedules, restart: Schedules]]
  /\ config \in [backup: Schedules, restart: Schedules]
  /\ restartFired \in [Palworlds -> Int]
  /\ step \in {"asleep", "look"} \/ at \in Palworlds

IInv ==
  /\ Types
  /\ \A i \in Palworlds : Remembered(i)
  /\ RestartsOnce

LEMMA NoRestartFires ==
  ASSUME IInv, Types', now' \in Nat, now <= now', UNCHANGED <<restartFired, restarts, repeated>>
  PROVE  IInv'
<1>1. ASSUME NEW i \in Palworlds PROVE Remembered(i)'
  <2>1. CASE restartFired[i] = Blank /\ \A t \in Int : <<i, t>> \notin restarts
    BY <2>1 DEF Remembered
  <2>2. ASSUME NEW d \in Nat, NEW s \in Real,
               restartFired[i] = Due(d, s), Due(d, s) <= now,
               \A t \in Int : <<i, t>> \in restarts => t <= Due(d, s)
        PROVE  Remembered(i)'
    <3>1. now \in Nat /\ Due(d, s) \in Int
      BY <2>2 DEF IInv, Types
    <3>2. Due(d, s) <= now'
      BY <2>2, <3>1
    <3> QED BY <2>2, <3>2 DEF Remembered
  <2> QED BY <2>1, <2>2 DEF IInv, Remembered
<1> QED BY <1>1 DEF IInv, RestartsOnce

LEMMA RestartFiresStep ==
  ASSUME IInv, NEW i \in Instances, RestartFires(i) \/ RestartBreaks(i) PROVE IInv'
<1> DEFINE target == Target(config.restart, now)
<1>1. /\ at = i /\ step = "fire" /\ RestartDue(i)
      /\ restartFired' = [restartFired EXCEPT ![i] = target]
      /\ restarts' = restarts \cup {<<i, target>>}
      /\ repeated' = (repeated \/ <<i, target>> \in restarts)
      /\ UNCHANGED <<now, saved>>
  BY DEF RestartFires, RestartBreaks
<1>0. \/ at' = at /\ config' = config
      \/ /\ config' = [backup |-> Never, restart |-> Never]
         /\ step' \in {"asleep", "look"}
  BY DEF RestartFires, RestartBreaks, Goes, Breaks, Passes
<1>2. i \in Palworlds
  BY <1>1 DEF IInv, Types
<1>3. PICK t \in Real : t = config.restart
  BY <1>1 DEF IInv, Types, RestartDue, Matches, Real
<1>4. PICK n \in Nat : n = now
  BY DEF IInv, Types
<1>5. PICK c \in Nat : c = n \div Day
  BY DayOf
<1>6. target = Due(c, t) /\ InWindow(Due(c, t), n) /\ restartFired[i] # Due(c, t)
  BY <1>1, <1>3, <1>4, <1>5, DayOf DEF Target, Due, RestartDue
<1>7. Due(c, t) \in Nat
  BY <1>6, SchedulerAssumption DEF Due, Real
<1> HIDE DEF target
<1>8. \A u \in Int : <<i, u>> \in restarts => u < Due(c, t)
  <2>1. CASE restartFired[i] = Blank /\ \A u \in Int : <<i, u>> \notin restarts
    BY <2>1
  <2>2. ASSUME NEW d \in Nat, NEW s \in Real,
               restartFired[i] = Due(d, s), Due(d, s) <= now,
               \A u \in Int : <<i, u>> \in restarts => u <= Due(d, s)
        PROVE  \A u \in Int : <<i, u>> \in restarts => u < Due(c, t)
    <3>1. Due(d, s) < Due(c, t)
      BY <2>2, <1>4, <1>5, <1>6, LaterTarget
    <3>2. Due(d, s) \in Int
      BY <2>2, <1>2 DEF IInv, Types
    <3> QED BY <2>2, <3>1, <3>2, <1>7
  <2> QED BY <2>1, <2>2, <1>2 DEF IInv, Remembered
<1>9. <<i, target>> \notin restarts
  BY <1>6, <1>7, <1>8
<1>10. restartFired'[i] = Due(c, t) /\ \A j \in Palworlds \ {i} : restartFired'[j] = restartFired[j]
  BY <1>1, <1>2, <1>6 DEF IInv, Types
<1>11. Types'
  BY <1>0, <1>1, <1>2, <1>6, <1>7, SchedulerAssumption DEF IInv, Types
<1>12. Remembered(i)'
  <2>1. \A u \in Int : <<i, u>> \in restarts' => u <= Due(c, t)
    BY <1>1, <1>6, <1>7, <1>8
  <2>2. Due(c, t) <= now'
    BY <1>1, <1>4, <1>6 DEF InWindow
  <2> QED BY <2>1, <2>2, <1>10 DEF Remembered
<1>13. ASSUME NEW j \in Palworlds \ {i} PROVE Remembered(j)'
  <2>1. \A u \in Int : <<j, u>> \in restarts' <=> <<j, u>> \in restarts
    BY <1>1
  <2>2. Remembered(j)
    BY DEF IInv
  <2> QED BY <2>1, <2>2, <1>1, <1>10 DEF Remembered
<1>14. RestartsOnce'
  BY <1>1, <1>9 DEF IInv, RestartsOnce
<1> QED BY <1>11, <1>12, <1>13, <1>14 DEF IInv

LEMMA EgmRestartsStep ==
  ASSUME IInv, EgmRestarts PROVE IInv'
<1>1. /\ step' = "asleep"
      /\ config' = [backup |-> Never, restart |-> Never]
      /\ restartFired' = [i \in Palworlds |-> Blank]
      /\ restarts' = {}
      /\ UNCHANGED <<now, saved, repeated>>
  BY DEF EgmRestarts
<1>2. Types'
  BY <1>1, SchedulerAssumption DEF IInv, Types, Blank
<1>3. \A i \in Palworlds : Remembered(i)'
  BY <1>1 DEF Remembered
<1> QED BY <1>1, <1>2, <1>3 DEF IInv, RestartsOnce

LEMMA CheckStep ==
  ASSUME IInv, NEW i \in Instances, Check(i), ~RestartFires(i) PROVE IInv'
<1>1. UNCHANGED <<now, saved, restartFired, restarts, repeated>>
  BY DEF Check, LooksAtConan, Looks, NoBackup, BackupFires, BackupEnds, NotOnline,
         NoRestart, Warns, RestartStops, RestartStarts, fired, history
<1>2. \/ Passes(i)
      \/ at' = at /\ config' = config /\ at \in Palworlds
      \/ at' = at /\ config' = saved[i] /\ at = i /\ i \in Palworlds
  BY DEF IInv, Types, Check, LooksAtConan, Looks, NoBackup, BackupFires, BackupEnds,
         NotOnline, NoRestart, Warns, RestartStops, RestartStarts, Goes
<1>3. Types'
  <2>1. CASE Passes(i)
    BY <2>1, <1>1, SchedulerAssumption DEF IInv, Types, Passes
  <2>2. CASE at' = at /\ config' = config /\ at \in Palworlds
    BY <2>2, <1>1 DEF IInv, Types
  <2>3. CASE at' = at /\ config' = saved[i] /\ at = i /\ i \in Palworlds
    BY <2>3, <1>1 DEF IInv, Types
  <2> QED BY <2>1, <2>2, <2>3, <1>2
<1> QED BY <1>1, <1>3, NoRestartFires DEF IInv, Types

LEMMA RaisesStep ==
  ASSUME IInv, NEW i \in Instances, Raises(i) PROVE IInv'
<1>1. CASE RestartBreaks(i)
  BY <1>1, RestartFiresStep
<1>2. CASE CheckBreaks(i) \/ WarningBreaks(i) \/ StopBreaks(i)
  <2>1. Passes(i) /\ UNCHANGED <<now, saved, restartFired, restarts, repeated>>
    BY <1>2 DEF CheckBreaks, WarningBreaks, StopBreaks, Breaks, fired
  <2>2. Types'
    BY <2>1, SchedulerAssumption DEF IInv, Types, Passes
  <2> QED BY <2>1, <2>2, NoRestartFires DEF IInv, Types
<1> QED BY <1>1, <1>2 DEF Raises

LEMMA AroundStep ==
  ASSUME IInv,
         \/ Wakes \/ RoundFails \/ Tick
         \/ \E i \in Palworlds : SavesSchedule(i) \/ ServerStarts(i) \/ ServerEnds(i)
  PROVE  IInv'
<1>1. /\ UNCHANGED <<config, restartFired, restarts, repeated>>
      /\ (at' = at /\ step' = step) \/ step' = "look"
  BY DEF Wakes, RoundFails, Tick, SavesSchedule, ServerStarts, ServerEnds, loop, fired, history
<1>2. now' \in Nat /\ now <= now'
  BY DEF IInv, Types, Wakes, RoundFails, Tick, SavesSchedule, ServerStarts, ServerEnds
<1>3. saved' \in [Palworlds -> [backup: Schedules, restart: Schedules]]
  BY DEF IInv, Types, Wakes, RoundFails, Tick, SavesSchedule, ServerStarts, ServerEnds
<1>4. Types'
  BY <1>1, <1>2, <1>3 DEF IInv, Types
<1> QED BY <1>1, <1>2, <1>4, NoRestartFires

LEMMA InvInit == Init => IInv
<1> SUFFICES ASSUME Init PROVE IInv
  OBVIOUS
<1>1. Types
  BY SchedulerAssumption DEF Init, Types, Blank
<1>2. (\A i \in Palworlds : Remembered(i)) /\ RestartsOnce
  BY DEF Init, Remembered, RestartsOnce
<1> QED BY <1>1, <1>2 DEF IInv

LEMMA InvStep == IInv /\ [Next]_vars => IInv'
<1> SUFFICES ASSUME IInv, [Next]_vars PROVE IInv'
  OBVIOUS
<1>1. CASE Wakes \/ RoundFails \/ Tick
  BY <1>1, AroundStep
<1>2. ASSUME NEW i \in Instances, Check(i) \/ Raises(i) PROVE IInv'
  BY <1>2, CheckStep, RestartFiresStep, RaisesStep
<1>3. CASE Outside
  BY <1>3, AroundStep, EgmRestartsStep DEF Outside
<1>4. CASE UNCHANGED vars
  BY <1>4 DEF IInv, Types, Remembered, RestartsOnce, vars
<1> QED BY <1>1, <1>2, <1>3, <1>4 DEF Next

\* A restart that comes due is begun once by one EGM process, however schedules
\* change (scheduler.py: _check_restart_and_warning).
THEOREM EachRestartOnce == Spec => []RestartsOnce
<1>1. IInv => RestartsOnce
  BY DEF IInv
<1> QED BY <1>1, InvInit, InvStep, PTL DEF Spec

-----------------------------------------------------------------------------
(* What an undisturbed instance gets                                        *)

\* The restart that the saved schedule names for this day, and its warning.
Planned(i) == Target(saved[i].restart, now)
Begun(i) == <<i, Planned(i)>> \in restarts
Open(i) == Matches(saved[i].restart, now) /\ InWindow(Planned(i), now)
Announced(i) ==
  LET s == saved[i].restart IN
  Matches(s, now) /\ s.lead > 0 /\ s.lead <= s.hour /\ Planned(i) - s.lead <= now
Warned(i) ==
  /\ warningFired[i] = Planned(i)
  /\ warnedAt[i] <= Planned(i) - saved[i].restart.lead

\* In this slot the loop has checked the instance, up to these steps.
Passed(i, steps) == round = "done" \/ at > i \/ (at = i /\ step \in steps)
Restarting == {"stop", "start"}

Undisturbed(i) ==
  /\ at = i /\ step # "look" => config = saved[i]
  /\ server[i] # "online" => Begun(i)
  /\ at = i /\ step \in Restarting => Begun(i)
  /\ Open(i) /\ (now > Planned(i) \/ Passed(i, Restarting)) => Begun(i)
  /\ Announced(i) /\ (now > Planned(i) - saved[i].restart.lead \/ Passed(i, Restarting \cup {"fire"}))
       => Warned(i)

\* A slot ends between two rounds, or the loop is held up and nothing is
\* steady any more.
Rounds ==
  /\ at \in 0..Last
  /\ at = 0 <=> step = "asleep"
  /\ round = "done" => at = 0
  /\ at # 0 => round \in {"on", "late"}
  /\ round = "late" => \A i \in Palworlds : ~steady[i]

Notes ==
  /\ warningFired \in [Palworlds -> Int] /\ warnedAt \in [Palworlds -> Int]
  /\ server \in [Palworlds -> {"offline", "starting", "online"}]
  /\ steady \in [Palworlds -> BOOLEAN]
  /\ \A i \in Palworlds : warnedAt[i] <= now
  /\ \A i \in Palworlds : restartFired[i] # Blank => <<i, restartFired[i]>> \in restarts

SInv ==
  /\ IInv /\ Rounds /\ Notes
  /\ \A i \in Palworlds : steady[i] => Undisturbed(i)

LEMMA SameDay ==
  ASSUME NEW t \in Nat, Midnight(t + 1) <= t
  PROVE  t \div Day = (t + 1) \div Day
<1> DEFINE p == t \div Day
           q == (t + 1) \div Day
<1>1. p \in Nat /\ p * Day <= t /\ t < p * Day + Day
  BY DayOf
<1>2. q \in Nat /\ q * Day <= t /\ t + 1 < q * Day + Day
  BY DayOf
<1>3. Day \in Nat
  BY SchedulerAssumption
<1>4. p * Day \in Int /\ q * Day \in Int
  BY <1>1, <1>2, <1>3
<1> HIDE DEF p, q
<1>5. p < q => p * Day + Day <= q * Day
  BY <1>1, <1>2, LaterDay
<1>6. q < p => q * Day + Day <= p * Day
  BY <1>1, <1>2, LaterDay
<1>7. p = q
  BY <1>1, <1>2, <1>3, <1>4, <1>5, <1>6
<1> QED BY <1>7 DEF p, q

LEMMA PlannedType ==
  ASSUME IInv, NEW i \in Palworlds
  PROVE  /\ Planned(i) \in Nat /\ now \in Nat
         /\ saved[i].restart.lead \in Nat /\ saved[i].restart.hour \in Nat
<1>1. saved[i].restart \in Schedules /\ now \in Nat
  BY DEF IInv, Types
<1>2. saved[i].restart.lead \in Nat /\ saved[i].restart.hour \in Nat
  BY <1>1, SchedulerAssumption
<1>3. Midnight(now) \in Nat
  <2>1. PICK q \in Nat : Midnight(now) = q * Day
    BY <1>1, DayOf
  <2> QED BY <2>1, SchedulerAssumption
<1> QED BY <1>1, <1>2, <1>3 DEF Planned, Target

\* No restart is begun before it comes due.
LEMMA NotBefore ==
  ASSUME IInv, NEW i \in Palworlds, NEW t \in Int, <<i, t>> \in restarts
  PROVE  t <= now
<1>1. PICK d \in Nat, s \in Real :
        /\ restartFired[i] = Due(d, s) /\ Due(d, s) <= now
        /\ \A u \in Int : <<i, u>> \in restarts => u <= Due(d, s)
  BY DEF IInv, Remembered
<1>2. Due(d, s) \in Int /\ now \in Int
  BY <1>1 DEF IInv, Types
<1> QED BY <1>1, <1>2

\* What keeps an instance undisturbed within a slot.
LEMMA Later ==
  ASSUME SInv, NEW i \in Palworlds,
         now' = now, saved'[i] = saved[i], restarts \subseteq restarts',
         steady'[i] => steady[i],
         steady[i] /\ at' = i /\ step' # "look" => config' = saved[i],
         steady[i] /\ (server'[i] # "online" \/ (at' = i /\ step' \in Restarting)) => Begun(i)',
         steady[i] /\ Open(i) /\ Passed(i, Restarting)' => Begun(i)',
         steady[i] /\ Announced(i) /\ Passed(i, Restarting \cup {"fire"})' => Warned(i)',
         steady[i] /\ Announced(i) /\ Warned(i) => Warned(i)'
  PROVE  (steady[i] => Undisturbed(i))'
<1>1. /\ Planned(i)' = Planned(i)
      /\ Open(i)' = Open(i) /\ Announced(i)' = Announced(i)
      /\ Begun(i) => Begun(i)'
  BY DEF Planned, Open, Announced, Begun, Target, Midnight, Matches, InWindow
<1>2. steady[i] => Undisturbed(i)
  BY DEF SInv
<1> QED BY <1>1, <1>2 DEF Undisturbed

\* The loop is at another instance.
LEMMA Elsewhere ==
  ASSUME SInv, NEW i \in Palworlds, NEW j \in Instances, i # j, Check(j)
  PROVE  (steady[i] => Undisturbed(i))'
<1>0. /\ at = j /\ j \in 1..Last /\ i \in 1..Last /\ Last \in Nat
      /\ round \in {"on", "late"} /\ (round = "late" => ~steady[i])
      /\ server \in [Palworlds -> {"offline", "starting", "online"}]
      /\ warningFired \in [Palworlds -> Int] /\ warnedAt \in [Palworlds -> Int]
      /\ steady \in [Palworlds -> BOOLEAN]
  BY SchedulerAssumption DEF SInv, Rounds, Notes, Instances, Palworlds, Check, LooksAtConan, Looks, NoBackup,
     BackupFires, BackupEnds, NotOnline, NoRestart, Warns, RestartFires, RestartStops, RestartStarts
<1>1. /\ now' = now /\ saved' = saved /\ restarts \subseteq restarts'
      /\ warningFired'[i] = warningFired[i] /\ warnedAt'[i] = warnedAt[i]
      /\ server'[i] = server[i] /\ steady'[i] = steady[i]
  BY <1>0 DEF Check, LooksAtConan, Looks, NoBackup, BackupFires, BackupEnds,
     NotOnline, NoRestart, Warns, RestartFires, RestartStops, RestartStarts, fired, history
<1>2. Passes(j) \/ (at' = at /\ round' = round)
  BY DEF Check, LooksAtConan, Looks, NoBackup, BackupFires, BackupEnds,
     NotOnline, NoRestart, Warns, RestartFires, RestartStops, RestartStarts, Goes
<1>3. at' = i => step' = "look"
  BY <1>0, <1>2 DEF Passes
<1>4. ASSUME NEW S, S \in {Restarting, Restarting \cup {"fire"}}, Passed(i, S)', steady[i]
      PROVE  Passed(i, S)
  <2>1. step' = "look" => step' \notin S
    BY <1>4 DEF Restarting
  <2>2. CASE at' = at /\ round' = round
    BY <1>0, <1>3, <1>4, <2>1, <2>2 DEF Passed
  <2>3. CASE Passes(j)
    BY <1>0, <1>3, <1>4, <2>1, <2>3 DEF Passed, Passes
  <2> QED BY <1>2, <2>2, <2>3
<1>5. steady[i] => Undisturbed(i)
  BY DEF SInv
<1>6. Planned(i)' = Planned(i) /\ (Begun(i) => Begun(i)') /\ (Warned(i) => Warned(i)')
  BY <1>1 DEF Planned, Begun, Warned, Target, Midnight
<1>7. steady[i] /\ Open(i) /\ Passed(i, Restarting)' => Begun(i)'
  BY <1>4, <1>5, <1>6 DEF Undisturbed
<1>8. steady[i] /\ Announced(i) /\ Passed(i, Restarting \cup {"fire"})' => Warned(i)'
  BY <1>4, <1>5, <1>6 DEF Undisturbed
<1>9. steady[i] /\ (server'[i] # "online" \/ (at' = i /\ step' \in Restarting)) => Begun(i)'
  BY <1>1, <1>3, <1>5, <1>6 DEF Undisturbed, Restarting
<1> QED BY <1>1, <1>3, <1>6, <1>7, <1>8, <1>9, Later

\* What raises an exception disturbs its own instance alone.
LEMMA RaisesKeeps ==
  ASSUME SInv, NEW i \in Palworlds, NEW j \in Instances, Raises(j)
  PROVE  (steady[i] => Undisturbed(i))'
<1>0. /\ at = j /\ Breaks(j) /\ UNCHANGED <<now, saved>> /\ restarts \subseteq restarts'
      /\ server \in [Palworlds -> {"offline", "starting", "online"}]
      /\ warningFired \in [Palworlds -> Int] /\ warnedAt \in [Palworlds -> Int]
      /\ steady \in [Palworlds -> BOOLEAN]
      /\ i \in 1..Last /\ j \in 1..Last /\ Last \in Nat
      /\ round \in {"on", "late"} /\ (round = "late" => ~steady[i])
  BY SchedulerAssumption DEF SInv, Rounds, Notes, Raises, CheckBreaks, WarningBreaks, RestartBreaks,
     StopBreaks, Instances, Palworlds
<1>1. CASE i = j
  BY <1>0, <1>1 DEF Breaks
<1>2. CASE i # j
  <2>1. /\ server'[i] = server[i] /\ steady'[i] = steady[i]
        /\ warningFired'[i] = warningFired[i] /\ warnedAt'[i] = warnedAt[i]
    BY <1>0, <1>2 DEF Raises, CheckBreaks, WarningBreaks, RestartBreaks, StopBreaks, Breaks, fired
  <2>2. at' = i => step' = "look"
    BY <1>0, <1>2 DEF Breaks, Passes
  <2>3. ASSUME NEW S, S \in {Restarting, Restarting \cup {"fire"}}, Passed(i, S)', steady[i]
        PROVE  Passed(i, S)
    <3>1. step' = "look" => step' \notin S
      BY <2>3 DEF Restarting
    <3> QED BY <1>0, <1>2, <2>2, <2>3, <3>1 DEF Passed, Passes, Breaks
  <2>4. steady[i] => Undisturbed(i)
    BY DEF SInv
  <2>5. Planned(i)' = Planned(i) /\ (Begun(i) => Begun(i)') /\ (Warned(i) => Warned(i)')
    BY <1>0, <2>1 DEF Planned, Begun, Warned, Target, Midnight
  <2>6. steady[i] /\ Open(i) /\ Passed(i, Restarting)' => Begun(i)'
    BY <2>3, <2>4, <2>5 DEF Undisturbed
  <2>7. steady[i] /\ Announced(i) /\ Passed(i, Restarting \cup {"fire"})' => Warned(i)'
    BY <2>3, <2>4, <2>5 DEF Undisturbed
  <2>8. steady[i] /\ (server'[i] # "online" \/ (at' = i /\ step' \in Restarting)) => Begun(i)'
    BY <2>1, <2>2, <2>4, <2>5 DEF Undisturbed, Restarting
  <2> QED BY <1>0, <2>1, <2>2, <2>5, <2>6, <2>7, <2>8, Later
<1> QED BY <1>1, <1>2

\* The loop checks the instance itself.
LEMMA CheckKeeps ==
  ASSUME SInv, NEW i \in Palworlds, Check(i)
  PROVE  (steady[i] => Undisturbed(i))'
<1>0. /\ at = i /\ i \in Instances /\ i \in 1..Last /\ Last \in Nat /\ i \notin Conan
      /\ round \in {"on", "late"} /\ (round = "late" => ~steady[i])
      /\ server \in [Palworlds -> {"offline", "starting", "online"}]
      /\ warningFired \in [Palworlds -> Int] /\ warnedAt \in [Palworlds -> Int]
      /\ restartFired \in [Palworlds -> Int]
      /\ steady \in [Palworlds -> BOOLEAN]
      /\ steady[i] => Undisturbed(i)
  BY SchedulerAssumption DEF SInv, IInv, Types, Rounds, Notes, Instances, Palworlds, Check, LooksAtConan,
     Looks, NoBackup, BackupFires, BackupEnds, NotOnline, NoRestart, Warns, RestartFires,
     RestartStops, RestartStarts
<1>1. ASSUME UNCHANGED <<now, saved, warningFired, warnedAt>>, restarts \subseteq restarts'
      PROVE  (Begun(i) => Begun(i)') /\ (Warned(i) => Warned(i)')
  BY <1>1 DEF Planned, Begun, Warned, Target, Midnight
<1>2. Planned(i) \in Nat /\ now \in Nat /\ saved[i].restart.lead \in Nat
  BY PlannedType DEF SInv
<1>3. ASSUME UNCHANGED <<now, saved, server, steady, warningFired, warnedAt, restarts, at, round>>,
             step \notin Restarting \cup {"fire"}, step' \notin Restarting \cup {"fire"},
             config' = saved[i] \/ (step # "look" /\ config' = config)
      PROVE  (steady[i] => Undisturbed(i))'
  <2>1. steady[i] /\ at' = i /\ step' # "look" => config' = saved[i]
    BY <1>0, <1>3 DEF Undisturbed
  <2>2. steady[i] /\ (server'[i] # "online" \/ (at' = i /\ step' \in Restarting)) => Begun(i)'
    BY <1>0, <1>1, <1>3 DEF Undisturbed
  <2>3. \A S \in {Restarting, Restarting \cup {"fire"}} : Passed(i, S)' => Passed(i, S)
    BY <1>3 DEF Passed
  <2>4. steady[i] /\ Open(i) /\ Passed(i, Restarting)' => Begun(i)'
    BY <1>0, <1>1, <1>3, <2>3 DEF Undisturbed
  <2>5. steady[i] /\ Announced(i) /\ Passed(i, Restarting \cup {"fire"})' => Warned(i)'
    BY <1>0, <1>1, <1>3, <2>3 DEF Undisturbed
  <2> QED BY <1>1, <1>3, <2>1, <2>2, <2>4, <2>5, Later
<1>4. CASE Looks(i) \/ NoBackup(i) \/ BackupFires(i) \/ BackupEnds(i)
  BY <1>3, <1>4 DEF Looks, NoBackup, BackupFires, BackupEnds, Goes, fired, history, Restarting
<1>5. CASE LooksAtConan(i)
  BY <1>0, <1>5 DEF LooksAtConan
<1>6. ASSUME UNCHANGED <<now, saved, steady, warningFired, warnedAt, restarts>>, Passes(i),
             server'[i] # "online" => server[i] # "online",
             steady[i] /\ Open(i) => Begun(i),
             steady[i] /\ Announced(i) => Warned(i)
      PROVE  (steady[i] => Undisturbed(i))'
  <2>1. at' # i
    BY <1>0, <1>6 DEF Passes
  <2>2. steady[i] /\ (server'[i] # "online" \/ (at' = i /\ step' \in Restarting)) => Begun(i)'
    BY <1>0, <1>1, <1>6, <2>1 DEF Undisturbed
  <2> QED BY <1>1, <1>6, <2>1, <2>2, Later
<1>7. CASE NotOnline(i)
  <2>1. steady[i] => Begun(i)
    BY <1>0, <1>7 DEF NotOnline, Undisturbed
  <2>2. ASSUME steady[i], Announced(i) PROVE Warned(i)
    <3>1. Planned(i) <= now
      BY <1>2, <2>1, <2>2, NotBefore DEF SInv, Begun
    <3>2. saved[i].restart.lead > 0
      BY <2>2 DEF Announced
    <3>3. now > Planned(i) - saved[i].restart.lead
      BY <1>2, <3>1, <3>2
    <3> QED BY <1>0, <2>2, <3>3 DEF Undisturbed
  <2> QED BY <1>6, <1>7, <2>1, <2>2 DEF NotOnline, fired, history
<1>8. ASSUME steady[i], step # "look"
      PROVE  config = saved[i] /\ Target(config.restart, now) = Planned(i)
  BY <1>0, <1>8 DEF Undisturbed, Planned
<1>9. CASE NoRestart(i)
  <2>1. ASSUME steady[i], Open(i) PROVE Begun(i)
    <3>1. restartFired[i] = Planned(i)
      BY <1>8, <1>9, <2>1 DEF NoRestart, RestartDue, Open
    <3>2. Planned(i) # Blank
      BY <1>2 DEF Blank
    <3> QED BY <3>1, <3>2 DEF SInv, Notes, Begun
  <2>2. ASSUME steady[i], Announced(i) PROVE Warned(i)
    BY <1>0, <1>9, <2>2 DEF NoRestart, Undisturbed, Passed
  <2> QED BY <1>6, <1>9, <2>1, <2>2 DEF NoRestart, fired, history
<1>10. CASE RestartStarts(i)
  <2>1. steady[i] => Begun(i)
    BY <1>0, <1>10 DEF RestartStarts, Undisturbed, Restarting
  <2>2. ASSUME steady[i], Announced(i) PROVE Warned(i)
    BY <1>0, <1>10, <2>2 DEF RestartStarts, Undisturbed, Passed, Restarting
  <2>3. server'[i] # "online" => server[i] # "online"
    BY <1>0, <1>10 DEF RestartStarts
  <2> QED BY <1>6, <1>10, <2>1, <2>2, <2>3 DEF RestartStarts, fired, history
<1>11. CASE RestartStops(i)
  <2>1. steady[i] => Begun(i)
    BY <1>0, <1>11 DEF RestartStops, Undisturbed, Restarting
  <2>2. UNCHANGED <<now, saved, steady, warningFired, warnedAt, restarts, at, config>> /\ step # "look"
    BY <1>11 DEF RestartStops, Goes, fired, history
  <2>3. steady[i] /\ Announced(i) => Warned(i)
    BY <1>0, <1>11 DEF RestartStops, Undisturbed, Passed, Restarting
  <2> QED BY <1>1, <1>8, <2>1, <2>2, <2>3, Later
<1>12. CASE RestartFires(i)
  <2>1. /\ UNCHANGED <<now, saved, server, steady, warningFired, warnedAt, at, config>> /\ step = "fire"
        /\ restarts' = restarts \cup {<<i, Target(config.restart, now)>>}
    BY <1>12 DEF RestartFires, Goes
  <2>2. steady[i] => <<i, Planned(i)>> \in restarts'
    BY <1>8, <2>1
  <2>3. steady[i] => Begun(i)'
    BY <2>1, <2>2 DEF Begun, Planned, Target, Midnight
  <2>4. steady[i] /\ Announced(i) => Warned(i)
    BY <1>0, <2>1 DEF Undisturbed, Passed
  <2> QED BY <1>1, <1>8, <2>1, <2>3, <2>4, Later
<1>13. CASE Warns(i)
  <2>1. /\ UNCHANGED <<now, saved, server, steady, restarts, at, round, config>>
        /\ step = "restart" /\ step' = "fire" /\ server[i] = "online"
    BY <1>13 DEF Warns, Goes
  <2>2. CASE WarningDue(i)
    <3>1. warningFired'[i] = Target(config.restart, now) /\ warnedAt'[i] = now
      BY <1>0, <1>13, <2>2 DEF Warns
    <3>2. ASSUME steady[i], Announced(i) PROVE Warned(i)'
      <4>1. warningFired'[i] = Planned(i) /\ warningFired[i] # Planned(i)
        BY <1>8, <2>1, <2>2, <3>1, <3>2 DEF WarningDue
      <4>2. ~(now > Planned(i) - saved[i].restart.lead)
        BY <1>0, <3>2, <4>1 DEF Undisturbed, Warned
      <4>3. now <= Planned(i) - saved[i].restart.lead
        BY <1>2, <4>2
      <4>4. Planned(i)' = Planned(i)
        BY <2>1 DEF Planned, Target, Midnight
      <4> QED BY <2>1, <3>1, <4>1, <4>3, <4>4 DEF Warned
    <3>3. steady[i] /\ Open(i) /\ Passed(i, Restarting)' => Begun(i)'
      <4>1. Passed(i, Restarting)' => Passed(i, Restarting)
        BY <2>1 DEF Passed, Restarting
      <4>2. Begun(i) => Begun(i)'
        BY <2>1 DEF Begun, Planned, Target, Midnight
      <4> QED BY <1>0, <4>1, <4>2 DEF Undisturbed
    <3> QED BY <1>8, <2>1, <3>2, <3>3, Later DEF Restarting
  <2>3. CASE ~WarningDue(i)
    <3>1. UNCHANGED <<warningFired, warnedAt>>
      BY <1>13, <2>3 DEF Warns
    <3>2. ASSUME steady[i], Announced(i) PROVE Warned(i)
      <4>1. CASE now > Planned(i) - saved[i].restart.lead
        BY <1>0, <3>2, <4>1 DEF Undisturbed
      <4>2. CASE ~(now > Planned(i) - saved[i].restart.lead)
        <5>1. now = Planned(i) - saved[i].restart.lead
          BY <1>2, <3>2, <4>2 DEF Announced
        <5>2. InWindow(Planned(i) - saved[i].restart.lead, now)
          BY <1>2, <5>1, SchedulerAssumption DEF InWindow
        <5>3. warningFired[i] = Planned(i)
          BY <1>8, <2>1, <2>3, <3>2, <5>2 DEF WarningDue, Announced
        <5>4. warnedAt[i] <= now
          BY DEF SInv, Notes
        <5> QED BY <5>1, <5>3, <5>4 DEF Warned
      <4> QED BY <4>1, <4>2
    <3>3. steady[i] /\ Open(i) /\ Passed(i, Restarting)' => Begun(i)'
      <4>1. Passed(i, Restarting)' => Passed(i, Restarting)
        BY <2>1 DEF Passed, Restarting
      <4> QED BY <1>0, <1>1, <2>1, <3>1, <4>1 DEF Undisturbed
    <3> QED BY <1>1, <1>8, <2>1, <3>1, <3>2, <3>3, Later DEF Restarting
  <2> QED BY <2>2, <2>3
<1> QED BY <1>4, <1>5, <1>7, <1>9, <1>10, <1>11, <1>12, <1>13 DEF Check

\* A slot passes: what comes due is new, what was due is done.
LEMMA TickKeeps ==
  ASSUME SInv, Tick, NEW i \in Palworlds, steady'[i]
  PROVE  Undisturbed(i)'
<1>0. /\ ~Held /\ round = "done" /\ at = 0 /\ at' = 0
      /\ now' = now + 1 /\ now \in Nat
      /\ UNCHANGED <<saved, server, warningFired, warnedAt, restarts>> /\ server[i] = "online"
      /\ ComesDue(i, now + 1) \/ steady[i]
      /\ steady[i] => Undisturbed(i)
      /\ i # 0
  <2>1. /\ ~Held /\ server[i] = "online" /\ (ComesDue(i, now + 1) \/ steady[i])
        /\ round = "done" \/ Held
        /\ now' = now + 1 /\ UNCHANGED <<saved, server, at, warningFired, warnedAt, restarts>>
    BY DEF Tick, fired
  <2>2. (steady[i] => Undisturbed(i)) /\ now \in Nat /\ (round = "done" => at = 0) /\ i # 0
    BY DEF SInv, IInv, Types, Rounds, Palworlds, Instances
  <2> QED BY <2>1, <2>2
<1> DEFINE s == saved[i].restart
           n == now + 1
<1>1. Planned(i)' = Target(s, n) /\ saved' = saved
  BY <1>0 DEF Planned
<1>2. PICK T \in Nat : T = Target(s, n)
  <2>1. n \in Nat /\ s.hour \in Nat
    BY <1>0, PlannedType DEF SInv
  <2>2. PICK q \in Nat : Midnight(n) = q * Day
    BY <2>1, DayOf
  <2>3. Midnight(n) \in Nat
    BY <2>2, SchedulerAssumption
  <2> QED BY <2>1, <2>3 DEF Target
<1>3. s.lead \in Nat /\ s.hour \in Nat /\ Midnight(n) \in Int /\ T = Midnight(n) + s.hour
  <2>1. n \in Nat
    BY <1>0
  <2>2. PICK q \in Nat : Midnight(n) = q * Day
    BY <2>1, DayOf
  <2> QED BY <1>2, <2>2, PlannedType, SchedulerAssumption DEF SInv, Target
<1>4. ASSUME Midnight(n) <= now
      PROVE  Planned(i) = T /\ (Matches(s, n) <=> Matches(s, now))
  <2>1. now \div Day = n \div Day
    BY <1>0, <1>4, SameDay
  <2> QED BY <1>2, <2>1 DEF Planned, Target, Midnight, Matches
<1>5. ComesDue(i, n) => n <= T
  <2>1. ComesDue(i, n) => n = T \/ n = T - s.lead
    BY <1>2 DEF ComesDue
  <2> QED BY <1>0, <1>2, <1>3, <2>1
<1> HIDE DEF n
<1>6. ASSUME Open(i)', now' > T PROVE Begun(i)'
  <2>1. n > T /\ n = now + 1 /\ Matches(s, n) /\ n <= T + Window
    BY <1>0, <1>1, <1>2, <1>6 DEF Open, InWindow, Matches, n
  <2>2. steady[i] /\ Midnight(n) <= now /\ T <= now /\ now <= T + Window
    BY <1>0, <1>2, <1>3, <1>5, <2>1, SchedulerAssumption DEF n
  <2>3. Open(i)
    BY <1>4, <2>1, <2>2 DEF Open, InWindow
  <2>4. Begun(i)
    BY <1>0, <2>2, <2>3 DEF Undisturbed, Passed
  <2> QED BY <1>0, <1>1, <1>2, <1>4, <2>2, <2>4 DEF Begun
<1>7. ASSUME Announced(i)', now' > T - s.lead PROVE Warned(i)'
  <2>1. n > T - s.lead /\ n = now + 1 /\ Matches(s, n) /\ s.lead > 0 /\ s.lead <= s.hour
    BY <1>0, <1>1, <1>7 DEF Announced, Matches, n
  <2>2. Midnight(n) <= now /\ T - s.lead <= now /\ Midnight(n) <= T - s.lead
    BY <1>0, <1>2, <1>3, <2>1
  <2>3. ~ComesDue(i, n)
    <3>1. ~(Target(s, n) - s.lead < Midnight(n))
      BY <1>2, <1>3, <2>2
    <3>2. ComesDue(i, n) => n = T - s.lead
      BY <1>2, <3>1 DEF ComesDue
    <3> QED BY <1>2, <1>3, <2>1, <3>2
  <2>4. steady[i]
    BY <1>0, <2>3 DEF n
  <2>5. Planned(i) = T /\ Announced(i)
    BY <1>4, <2>1, <2>2 DEF Announced
  <2>6. Warned(i)
    BY <1>0, <2>4, <2>5 DEF Undisturbed, Passed
  <2> QED BY <1>0, <1>1, <1>2, <2>5, <2>6 DEF Warned
<1>8. ~Passed(i, Restarting)' /\ ~Passed(i, Restarting \cup {"fire"})'
  <2>1. round' = "due" /\ i \in Nat
    BY <1>0 DEF Tick, Palworlds, Instances
  <2> QED BY <1>0, <2>1 DEF Passed
<1> QED BY <1>0, <1>1, <1>2, <1>6, <1>7, <1>8 DEF Undisturbed

LEMMA RoundsStep == SInv /\ [Next]_vars => Rounds'
<1> SUFFICES ASSUME SInv, [Next]_vars PROVE Rounds'
  OBVIOUS
<1>0. /\ Rounds /\ Last \in Nat \ {0}
      /\ steady \in [Palworlds -> BOOLEAN]
  BY SchedulerAssumption DEF SInv, Notes
<1>1. CASE Wakes
  BY <1>0, <1>1 DEF Wakes, Rounds, history
<1>2. ASSUME NEW i \in Instances, Check(i) PROVE Rounds'
  <2>1. at = i /\ i \in 1..Last /\ \A j \in Palworlds : steady'[j] => steady[j]
    BY <1>0, <1>2 DEF Check, LooksAtConan, Looks, NoBackup, BackupFires, BackupEnds,
       NotOnline, NoRestart, Warns, RestartFires, RestartStops, RestartStarts, history, Instances
  <2>2. Passes(i) \/ (at' = at /\ round' = round /\ step' # "asleep")
    BY <1>2 DEF Check, LooksAtConan, Looks, NoBackup, BackupFires, BackupEnds,
       NotOnline, NoRestart, Warns, RestartFires, RestartStops, RestartStarts, Goes
  <2>3. CASE Passes(i)
    BY <1>0, <2>1, <2>3 DEF Rounds, Passes
  <2>4. CASE at' = at /\ round' = round /\ step' # "asleep"
    BY <1>0, <2>1, <2>4 DEF Rounds
  <2> QED BY <2>2, <2>3, <2>4
<1>3. CASE EgmRestarts
  BY <1>0, <1>3 DEF EgmRestarts, Rounds
<1>4. ASSUME NEW i \in Palworlds, SavesSchedule(i) \/ ServerStarts(i) \/ ServerEnds(i) PROVE Rounds'
  <2>1. UNCHANGED loop /\ \A j \in Palworlds : steady'[j] => steady[j]
    BY <1>0, <1>4 DEF SavesSchedule, ServerStarts, ServerEnds, history
  <2> QED BY <1>0, <2>1 DEF Rounds, loop
<1>5. CASE Tick
  <2>1. UNCHANGED <<at, step>> /\ round' = (IF at = 0 THEN "due" ELSE "late")
    BY <1>5 DEF Tick
  <2>2. ASSUME round' = "late", NEW j \in Palworlds PROVE ~steady'[j]
    <3>1. Held
      BY <1>0, <1>5, <2>1, <2>2 DEF Tick, Rounds
    <3> QED BY <1>5, <3>1 DEF Tick
  <2> QED BY <1>0, <2>1, <2>2 DEF Rounds
<1>6. CASE UNCHANGED vars
  BY <1>0, <1>6 DEF Rounds, vars
<1>7. ASSUME NEW i \in Instances, Raises(i) PROVE Rounds'
  <2>1. at = i /\ i \in 1..Last /\ Passes(i) /\ \A j \in Palworlds : steady'[j] => steady[j]
    BY <1>0, <1>7 DEF Raises, CheckBreaks, WarningBreaks, RestartBreaks, StopBreaks, Breaks, Instances
  <2> QED BY <1>0, <2>1 DEF Rounds, Passes
<1>8. CASE RoundFails
  BY <1>0, <1>8 DEF RoundFails, Rounds
<1> QED BY <1>1, <1>2, <1>3, <1>4, <1>5, <1>6, <1>7, <1>8 DEF Next, Outside

LEMMA NotesStep == SInv /\ [Next]_vars => Notes'
<1> SUFFICES ASSUME SInv, [Next]_vars PROVE Notes'
  OBVIOUS
<1>0. Notes /\ Types /\ Types' /\ now \in Nat
  BY InvStep DEF SInv, IInv, Types
<1>1. ASSUME NEW i \in Palworlds, RestartFires(i) \/ RestartBreaks(i) PROVE Notes'
  <2>1. /\ restartFired' = [restartFired EXCEPT ![i] = Target(config.restart, now)]
        /\ restarts' = restarts \cup {<<i, Target(config.restart, now)>>}
        /\ UNCHANGED <<now, server, warningFired, warnedAt>>
        /\ steady' \in [Palworlds -> BOOLEAN]
    BY <1>0, <1>1 DEF Notes, RestartFires, RestartBreaks, Breaks
  <2> QED BY <1>0, <2>1 DEF Notes, Types
<1>2. ASSUME UNCHANGED <<restartFired, restarts>>, now <= now', now' \in Nat,
             warningFired' \in [Palworlds -> Int], warnedAt' \in [Palworlds -> Int],
             \A i \in Palworlds : warnedAt'[i] <= now \/ warnedAt'[i] = warnedAt[i],
             server' \in [Palworlds -> {"offline", "starting", "online"}],
             steady' \in [Palworlds -> BOOLEAN]
      PROVE  Notes'
  BY <1>0, <1>2 DEF Notes
<1>3. ASSUME NEW i \in Palworlds, Warns(i) \/ WarningBreaks(i) PROVE Notes'
  <2>1. warningFired' \in [Palworlds -> Int] /\ warnedAt' \in [Palworlds -> Int]
        /\ \A j \in Palworlds : warnedAt'[j] <= now \/ warnedAt'[j] = warnedAt[j]
    <3>1. Target(config.restart, now) \in Int
      <4>1. config.restart \in Schedules
        BY <1>0 DEF Types
      <4>2. config.restart.hour \in Nat
        BY <4>1, SchedulerAssumption
      <4>3. PICK q \in Nat : Midnight(now) = q * Day
        BY <1>0, DayOf
      <4> QED BY <4>2, <4>3, SchedulerAssumption DEF Target
    <3> QED BY <1>0, <1>3, <3>1 DEF Notes, Warns, WarningBreaks, Breaks
  <2> QED BY <1>0, <1>2, <1>3, <2>1 DEF Notes, Warns, WarningBreaks, Breaks
<1>4. ASSUME NEW i \in Instances, Check(i) PROVE Notes'
  <2>1. CASE RestartFires(i) \/ Warns(i)
    <3>1. i \in Palworlds
      BY <1>0, <2>1 DEF Types, RestartFires, Warns
    <3> QED BY <1>1, <1>3, <2>1, <3>1
  <2>2. CASE ~(RestartFires(i) \/ Warns(i))
    <3>1. UNCHANGED <<now, restartFired, restarts, warningFired, warnedAt>>
      BY <1>4, <2>2 DEF Check, LooksAtConan, Looks, NoBackup, BackupFires, BackupEnds,
         NotOnline, NoRestart, RestartStops, RestartStarts, fired, history
    <3>2. /\ server' \in [Palworlds -> {"offline", "starting", "online"}]
          /\ steady' \in [Palworlds -> BOOLEAN]
      BY <1>0, <1>4, <2>2 DEF Notes, Check, LooksAtConan, Looks, NoBackup, BackupFires, BackupEnds,
         NotOnline, NoRestart, RestartStops, RestartStarts, fired, history
    <3> QED BY <1>0, <1>2, <3>1, <3>2 DEF Notes
  <2> QED BY <2>1, <2>2
<1>5. CASE EgmRestarts
  BY <1>0, <1>5 DEF EgmRestarts, Notes, Blank
<1>6. CASE Wakes \/ UNCHANGED vars
  BY <1>0, <1>2, <1>6 DEF Wakes, vars, fired, history, Notes
<1>7. ASSUME NEW i \in Palworlds, SavesSchedule(i) \/ ServerStarts(i) \/ ServerEnds(i) PROVE Notes'
  <2>1. UNCHANGED <<now, restartFired, restarts, warningFired, warnedAt>>
    BY <1>7 DEF SavesSchedule, ServerStarts, ServerEnds, fired, history
  <2>2. /\ server' \in [Palworlds -> {"offline", "starting", "online"}]
        /\ steady' \in [Palworlds -> BOOLEAN]
    BY <1>0, <1>7 DEF Notes, SavesSchedule, ServerStarts, ServerEnds, fired, history
  <2> QED BY <1>0, <1>2, <2>1, <2>2 DEF Notes
<1>8. CASE Tick
  <2>1. UNCHANGED <<restartFired, restarts, warningFired, warnedAt, server>> /\ now' = now + 1
    BY <1>8 DEF Tick, fired
  <2>2. steady' \in [Palworlds -> BOOLEAN]
    BY <1>0, <1>8 DEF Tick, Notes, Held, ComesDue, Matches
  <2> QED BY <1>0, <1>2, <2>1, <2>2 DEF Notes
<1>9. ASSUME NEW i \in Instances, Raises(i) PROVE Notes'
  <2>1. i \in Palworlds
    BY <1>0, <1>9 DEF Types, Raises, CheckBreaks, WarningBreaks, RestartBreaks, StopBreaks
  <2>2. CASE CheckBreaks(i) \/ StopBreaks(i)
    <3>1. UNCHANGED <<now, restartFired, restarts, warningFired, warnedAt>>
      BY <2>2 DEF CheckBreaks, StopBreaks, fired
    <3>2. /\ server' \in [Palworlds -> {"offline", "starting", "online"}]
          /\ steady' \in [Palworlds -> BOOLEAN]
      BY <1>0, <2>1, <2>2 DEF Notes, CheckBreaks, StopBreaks, Breaks
    <3> QED BY <1>0, <1>2, <3>1, <3>2 DEF Notes
  <2> QED BY <1>1, <1>3, <1>9, <2>1, <2>2 DEF Raises
<1>10. CASE RoundFails
  BY <1>0, <1>2, <1>10 DEF RoundFails, Notes, fired
<1> QED BY <1>4, <1>5, <1>6, <1>7, <1>8, <1>9, <1>10 DEF Next, Outside

LEMMA SteadyStep == SInv /\ [Next]_vars => \A i \in Palworlds : (steady[i] => Undisturbed(i))'
<1> SUFFICES ASSUME SInv, [Next]_vars, NEW i \in Palworlds PROVE (steady[i] => Undisturbed(i))'
  OBVIOUS
<1>0. /\ steady \in [Palworlds -> BOOLEAN] /\ saved \in [Palworlds -> [backup: Schedules, restart: Schedules]]
      /\ server \in [Palworlds -> {"offline", "starting", "online"}]
      /\ steady[i] => Undisturbed(i)
      /\ i \in Nat /\ i # 0
  BY DEF SInv, IInv, Types, Notes, Palworlds, Instances
<1>1. CASE Wakes
  <2>1. /\ UNCHANGED <<now, saved, server, restarts, steady, warningFired, warnedAt, config>>
        /\ at = 0 /\ at' = 1 /\ step' = "look" /\ round' = "on"
    BY <1>1 DEF Wakes, fired, history
  <2>2. ~Passed(i, Restarting)' /\ ~Passed(i, Restarting \cup {"fire"})'
    BY <1>0, <2>1 DEF Passed, Restarting
  <2>3. Begun(i)' = Begun(i) /\ Warned(i)' = Warned(i)
    BY <2>1 DEF Begun, Warned, Planned, Target, Midnight
  <2> QED BY <1>0, <2>1, <2>2, <2>3, Later DEF Undisturbed, Restarting
<1>2. ASSUME NEW j \in Instances, Check(j) PROVE (steady[i] => Undisturbed(i))'
  BY <1>2, CheckKeeps, Elsewhere
<1>3. CASE EgmRestarts
  BY <1>3 DEF EgmRestarts
<1>4. ASSUME NEW j \in Palworlds, SavesSchedule(j) \/ ServerStarts(j) \/ ServerEnds(j)
      PROVE  (steady[i] => Undisturbed(i))'
  <2>1. /\ UNCHANGED <<now, loop, restarts, warningFired, warnedAt>>
        /\ steady'[i] => steady[i] /\ saved'[i] = saved[i]
        /\ steady'[i] /\ server'[i] # "online" => server[i] # "online"
    BY <1>0, <1>4 DEF SavesSchedule, ServerStarts, ServerEnds, fired, history
  <2>2. CASE steady'[i]
    <3>1. /\ Planned(i)' = Planned(i) /\ Begun(i)' = Begun(i) /\ Warned(i)' = Warned(i)
          /\ Open(i)' = Open(i) /\ Announced(i)' = Announced(i)
      BY <2>1, <2>2 DEF Begun, Warned, Planned, Target, Midnight, Open, Announced, Matches, InWindow
    <3>2. \A S \in {Restarting, Restarting \cup {"fire"}} : Passed(i, S)' <=> Passed(i, S)
      BY <2>1 DEF Passed, loop
    <3> QED BY <1>0, <2>1, <2>2, <3>1, <3>2 DEF Undisturbed, loop
  <2> QED BY <2>2
<1>5. CASE Tick
  BY <1>5, TickKeeps
<1>6. CASE UNCHANGED vars
  <2>1. UNCHANGED <<now, saved, server, at, step, config, round, restarts, steady, warningFired, warnedAt>>
    BY <1>6 DEF vars
  <2> QED BY <1>0, <2>1 DEF Undisturbed, Begun, Warned, Planned, Target, Midnight, Open, Announced, Matches,
          InWindow, Passed
<1>7. ASSUME NEW j \in Instances, Raises(j) PROVE (steady[i] => Undisturbed(i))'
  BY <1>7, RaisesKeeps
<1>8. CASE RoundFails
  BY <1>8 DEF RoundFails
<1> QED BY <1>1, <1>2, <1>3, <1>4, <1>5, <1>6, <1>7, <1>8 DEF Next, Outside

LEMMA SInvInit == Init => SInv
<1> SUFFICES ASSUME Init PROVE SInv
  OBVIOUS
<1>1. Rounds
  BY SchedulerAssumption DEF Init, Rounds
<1>2. Notes
  BY DEF Init, Notes, Blank
<1> QED BY <1>1, <1>2, InvInit DEF SInv, Init

LEMMA SInvStep == SInv /\ [Next]_vars => SInv'
BY InvStep, RoundsStep, NotesStep, SteadyStep DEF SInv

LEMMA Steadiness == Spec => []SInv
BY SInvInit, SInvStep, PTL DEF Spec

Closes(i) ==
  LET s == saved[i].restart IN
  (now' > now /\ Matches(s, now) /\ now = Target(s, now) + Window /\ steady[i])
    => <<i, Target(s, now)>> \in restarts

\* When the catch-up window of a restart closes, the restart has been begun, if
\* nothing held up its server, its schedule or the loop and no check of it ended
\* with an exception: whatever the other instances, their backups, their restarts
\* and their failures do (_check_restart_and_warning within _CATCH_UP_WINDOW).
THEOREM UndisturbedIsNotMissed == Spec => NothingMissed
<1>1. ASSUME SInv, NEW i \in Palworlds PROVE Closes(i)
  <2> SUFFICES ASSUME Matches(saved[i].restart, now), now = Planned(i) + Window, steady[i]
               PROVE  Begun(i)
    BY DEF Closes, Planned, Begun
  <2>1. Planned(i) \in Nat /\ Window \in Nat \ {0}
    BY <1>1, PlannedType, SchedulerAssumption DEF SInv
  <2>2. Open(i) /\ now > Planned(i)
    BY <2>1 DEF Open, InWindow
  <2> QED BY <2>2, <1>1 DEF SInv, Undisturbed
<1>2. SInv => \A i \in Palworlds : Closes(i)
  BY <1>1
<1>3. SInv => [\A i \in Palworlds : Closes(i)]_vars
  BY <1>2
<1>4. Spec => [][\A i \in Palworlds : Closes(i)]_vars
  BY <1>3, Steadiness, PTL
<1> QED BY <1>4 DEF NothingMissed, Closes

InTime(i) ==
  LET s == config.restart IN
  (restartFired'[i] # restartFired[i] /\ restartFired'[i] # Blank /\ steady[i]
     /\ s.hour >= s.lead /\ s.lead > 0)
    => warningFired[i] = restartFired'[i] /\ now >= warnedAt[i] + s.lead

\* An undisturbed restart follows a warning of its own, and by no less than the
\* minutes that the warning names.
THEOREM WarningComesFirst == Spec => WarnedInTime
<1>1. ASSUME SInv, [Next]_vars, NEW i \in Palworlds PROVE InTime(i)
  <2> SUFFICES ASSUME restartFired'[i] # restartFired[i], restartFired'[i] # Blank, steady[i],
                      config.restart.hour >= config.restart.lead, config.restart.lead > 0
               PROVE  warningFired[i] = restartFired'[i] /\ now >= warnedAt[i] + config.restart.lead
    BY DEF InTime
  <2>1. RestartFires(i) \/ RestartBreaks(i)
    <3>1. PICK j \in Instances : RestartFires(j) \/ RestartBreaks(j)
      BY <1>1 DEF Next, Wakes, RoundFails, Raises, CheckBreaks, WarningBreaks, StopBreaks, Check, LooksAtConan, Looks, NoBackup, BackupFires, BackupEnds,
         NotOnline, NoRestart, Warns, RestartStops, RestartStarts, Outside, SavesSchedule, ServerStarts,
         ServerEnds, EgmRestarts, Tick, vars, fired
    <3>2. restartFired \in [Palworlds -> Int]
      BY <1>1 DEF SInv, IInv, Types
    <3> QED BY <3>1, <3>2 DEF RestartFires, RestartBreaks
  <2>2. /\ at = i /\ step = "fire" /\ RestartDue(i)
        /\ restartFired' = [restartFired EXCEPT ![i] = Target(config.restart, now)]
    BY <2>1 DEF RestartFires, RestartBreaks
  <2>3. Undisturbed(i) /\ config = saved[i] /\ Target(config.restart, now) = Planned(i)
    BY <1>1, <2>2 DEF SInv, Undisturbed, Planned
  <2>4. /\ Planned(i) \in Nat /\ now \in Nat /\ saved[i].restart.lead \in Nat
        /\ saved[i].restart.hour \in Nat /\ Planned(i) <= now
        /\ warnedAt[i] \in Int
    BY <1>1, <2>2, <2>3, PlannedType DEF SInv, Notes, RestartDue, InWindow
  <2>5. Announced(i)
    BY <2>2, <2>3, <2>4 DEF Announced, RestartDue
  <2>6. Warned(i)
    BY <2>2, <2>3, <2>5 DEF Undisturbed, Passed
  <2>7. restartFired'[i] = Planned(i)
    BY <1>1, <2>2, <2>3 DEF SInv, IInv, Types
  <2> QED BY <2>3, <2>4, <2>6, <2>7 DEF Warned
<1>2. SInv /\ [Next]_vars => \A i \in Palworlds : InTime(i)
  BY <1>1
<1>3. SInv /\ [Next]_vars => [\A i \in Palworlds : InTime(i)]_vars
  BY <1>2
<1>4. Spec => [][\A i \in Palworlds : InTime(i)]_vars
  BY <1>3, Steadiness, PTL DEF Spec
<1> QED BY <1>4 DEF WarnedInTime, InTime
=============================================================================
