---------------------------- MODULE ProcessManager ----------------------------
(***************************************************************************)
(* Control of one Palworld server process: process_manager.py, the         *)
(* requests of PalworldControlProvider and the shutdown countdown of       *)
(* routes/server_control.py, the restart and the activity monitor of       *)
(* scheduler.py.                                                           *)
(*                                                                         *)
(* start, stop and get_status run in threads.  `_lock` protects single     *)
(* sections only, so an action is such a section or what a thread does     *)
(* between two of them.  start holds the lock from its first check to the  *)
(* end.  A server outlives this process and is then found by a scan of the *)
(* processes, but not tracked.                                             *)
(***************************************************************************)
EXTENDS Integers

CONSTANTS
  Pids,         \* processes of the game, in the order they are launched
  None,         \* no process
  Callers,      \* threads of requests and of the scheduler's restart
  Pollers,      \* threads in get_status
  Monitor,      \* the one of them that is _check_server_health
  Countdowns,   \* are there shutdown countdowns in a run?
  MaxRequests,  \* bound: requests
  MaxRestarts   \* bound: restarts of this process

ASSUME ProcessManagerAssumption ==
  /\ Pids \subseteq Nat
  /\ None \notin Pids
  /\ Monitor \in Pollers
  /\ Countdowns \in BOOLEAN
  /\ MaxRequests \in Nat /\ MaxRestarts \in Nat

VARIABLES
  proc,      \* what became of each process
  mine,      \* the processes launched since this process runs, by launchers still there
  tracked,   \* _processes
  stopping,  \* _stopping
  intent,    \* _recent_intentional_stop, less than 60 seconds old
  caller, poll,
  seen,      \* _last_process_state
  due,       \* history: a seen server died unasked and the monitor has not looked yet
  asked,     \* history: the processes whose end was asked for
  given_up,  \* history: somebody who has set the mark was cancelled or failed
  requests, restarts

control == <<tracked, stopping, intent>>
history == <<due, asked, given_up>>
vars == <<proc, mine, control, caller, poll, seen, history, requests, restarts>>

Alive == {p \in Pids : proc[p] = "alive"}
Unused == {p \in Pids : proc[p] = "none"}
Idle == [pc |-> "idle", again |-> FALSE, pid |-> None]
Look == [pc |-> "look", state |-> "none"]

Goes(c, where) == caller' = [caller EXCEPT ![c].pc = where]

-----------------------------------------------------------------------------
(* Requests: mark_intentional_stop, the REST shutdown, then stop and start  *)

Requested(c, r) ==
  /\ caller[c].pc = "idle"
  /\ requests < MaxRequests
  /\ requests' = requests + 1
  /\ caller' = [caller EXCEPT ![c] = r]

StartRequest(c) ==
  /\ Requested(c, [Idle EXCEPT !.pc = "start"])
  /\ UNCHANGED <<proc, mine, control, poll, seen, history, restarts>>

\* provider.stop and restart, the scheduled restart: marked first.
StopRequest(c) ==
  /\ \E again \in BOOLEAN : Requested(c, [Idle EXCEPT !.pc = "rest", !.again = again])
  /\ stopping' = TRUE /\ intent' = TRUE
  /\ asked' = asked \cup Alive
  /\ due' = FALSE
  /\ UNCHANGED <<proc, mine, tracked, poll, seen, given_up, restarts>>

\* The stop of restore_backup is not marked.
BareStopRequest(c) ==
  /\ Requested(c, [Idle EXCEPT !.pc = "stop"])
  /\ UNCHANGED <<proc, mine, control, poll, seen, history, restarts>>

\* One countdown at a time; until its end nothing is marked.
CountdownRequest(c) ==
  /\ Countdowns
  /\ \A d \in Callers : caller[d].pc \notin {"countdown", "quit"}
  /\ Requested(c, [Idle EXCEPT !.pc = "countdown"])
  /\ UNCHANGED <<proc, mine, control, poll, seen, history, restarts>>

\* provider.shutdown
CountdownEnds(c) ==
  /\ caller[c].pc = "countdown"
  /\ Goes(c, "quit")
  /\ stopping' = TRUE /\ intent' = TRUE
  /\ asked' = asked \cup Alive
  /\ due' = FALSE
  /\ UNCHANGED <<proc, mine, tracked, poll, seen, given_up, requests, restarts>>

\* The task is cancelled where it waits, in provider.shutdown too.
CountdownCancelled(c) ==
  /\ caller[c].pc \in {"countdown", "quit"}
  /\ caller' = [caller EXCEPT ![c] = Idle]
  /\ given_up' = (given_up \/ caller[c].pc = "quit")
  /\ UNCHANGED <<proc, mine, control, poll, seen, due, asked, requests, restarts>>

\* Has the game been told to end?
Told(c) == caller[c].pc \in {"rest", "quit"}

\* The server obeys the shutdown request.
ServerObeys(c) ==
  /\ Told(c)
  /\ \E p \in Alive :
       /\ proc' = [proc EXCEPT ![p] = "dead"]
       /\ asked' = asked \cup {p}
  /\ UNCHANGED <<mine, control, caller, poll, seen, due, given_up, requests, restarts>>

\* The request has failed with a PalworldRestError, or three seconds have passed.
RestEnds(c) ==
  /\ Told(c)
  /\ Goes(c, "stop")
  /\ UNCHANGED <<proc, mine, control, poll, seen, history, requests, restarts>>

\* Any other error of the request, or of the announcement and the save before a
\* scheduled restart, goes past the except clause: no stop follows the mark.
RestRaises(c) ==
  /\ Told(c)
  /\ caller' = [caller EXCEPT ![c] = Idle]
  /\ given_up' = TRUE
  /\ UNCHANGED <<proc, mine, control, poll, seen, due, asked, requests, restarts>>

-----------------------------------------------------------------------------
(* start and stop                                                           *)

AfterStop(c) == IF caller[c].again THEN [Idle EXCEPT !.pc = "start"] ELSE Idle

\* Mutant: only the tracked process is looked at.
LaunchesUnseen(c) ==
  /\ caller[c].pc = "start"
  /\ tracked \notin Alive
  /\ \E p \in Unused :
       /\ \A q \in Unused : p <= q
       /\ proc' = [proc EXCEPT ![p] = "alive"]
       /\ mine' = mine \cup {p}
       /\ tracked' = p
  /\ stopping' = FALSE /\ intent' = FALSE
  /\ due' = FALSE /\ given_up' = FALSE
  /\ caller' = [caller EXCEPT ![c] = Idle]
  /\ UNCHANGED <<poll, seen, asked, requests, restarts>>

Launches(c) ==
  /\ caller[c].pc = "start"
  /\ Alive = {}
  /\ \E p \in Unused :
       /\ \A q \in Unused : p <= q
       /\ proc' = [proc EXCEPT ![p] = "alive"]
       /\ mine' = mine \cup {p}
       /\ tracked' = p
  /\ stopping' = FALSE /\ intent' = FALSE
  /\ due' = FALSE /\ given_up' = FALSE
  /\ caller' = [caller EXCEPT ![c] = Idle]
  /\ UNCHANGED <<poll, seen, asked, requests, restarts>>

\* "This server is already running.", no executable, no process.
StartFails(c) ==
  /\ caller[c].pc = "start"
  /\ caller' = [caller EXCEPT ![c] = Idle]
  /\ UNCHANGED <<proc, mine, control, poll, seen, history, requests, restarts>>

\* Mutant: the early return leaves the mark.
StopFindsNothingMarked(c) ==
  /\ caller[c].pc = "stop"
  /\ tracked \notin Alive
  /\ tracked' = None
  /\ caller' = [caller EXCEPT ![c] = AfterStop(c)]
  /\ UNCHANGED <<proc, mine, stopping, intent, poll, seen, history, requests, restarts>>

StopFindsNothing(c) ==
  /\ caller[c].pc = "stop"
  /\ tracked \notin Alive
  /\ tracked' = None
  /\ stopping' = FALSE /\ given_up' = FALSE
  /\ caller' = [caller EXCEPT ![c] = AfterStop(c)]
  /\ UNCHANGED <<proc, mine, intent, poll, seen, due, asked, requests, restarts>>

StopBegins(c) ==
  /\ caller[c].pc = "stop"
  /\ tracked \in Alive
  /\ stopping' = TRUE /\ intent' = TRUE
  /\ asked' = asked \cup {tracked}
  /\ due' = FALSE
  /\ caller' = [caller EXCEPT ![c].pc = "kill", ![c].pid = tracked]
  /\ UNCHANGED <<proc, mine, tracked, poll, seen, given_up, requests, restarts>>

\* The registry cannot be read for the name of the server.
StopRaises(c) ==
  /\ caller[c].pc = "kill"
  /\ caller' = [caller EXCEPT ![c] = Idle]
  /\ given_up' = TRUE
  /\ UNCHANGED <<proc, mine, control, poll, seen, due, asked, requests, restarts>>

\* The whole tree is gone: by itself or killed.  It stays if the launcher had
\* exited before its tree was read, or if the system refuses the kill.
StopKills(c) ==
  /\ caller[c].pc = "kill"
  /\ proc' \in {proc, [proc EXCEPT ![caller[c].pid] = "dead"]}
  /\ Goes(c, "reap")
  /\ UNCHANGED <<mine, control, poll, seen, history, requests, restarts>>

StopEnds(c) ==
  /\ caller[c].pc = "reap"
  /\ tracked' = None
  /\ stopping' = FALSE /\ given_up' = FALSE
  /\ caller' = [caller EXCEPT ![c] = AfterStop(c)]
  /\ UNCHANGED <<proc, mine, intent, poll, seen, due, asked, requests, restarts>>

-----------------------------------------------------------------------------
(* get_status and the activity monitor                                      *)

Polled(r, state) == [pc |-> IF r = Monitor THEN "judge" ELSE "look", state |-> state]

PollLooks(r) ==
  /\ poll[r].pc = "look"
  /\ poll' = [poll EXCEPT ![r] =
       IF stopping THEN Polled(r, "stopping") ELSE [pc |-> "scan", state |-> "none"]]
  /\ UNCHANGED <<proc, mine, control, caller, seen, history, requests, restarts>>

PollScans(r) ==
  /\ poll[r].pc = "scan"
  /\ poll' = [poll EXCEPT ![r] =
       IF Alive # {} THEN Polled(r, "online") ELSE [pc |-> "pop", state |-> "none"]]
  /\ UNCHANGED <<proc, mine, control, caller, seen, history, requests, restarts>>

\* Under the lock again, and without another look.
PollPops(r) ==
  /\ poll[r].pc = "pop"
  /\ tracked' = None
  /\ poll' = [poll EXCEPT ![r] = Polled(r, "offline")]
  /\ UNCHANGED <<proc, mine, stopping, intent, caller, seen, history, requests, restarts>>

Alarm == seen = "online" /\ poll[Monitor].state = "offline" /\ ~stopping /\ ~intent

\* Mutant: a server that was online is taken for one that was stopped.
MonitorJudgesMildly ==
  /\ poll[Monitor].pc = "judge"
  /\ poll' = [poll EXCEPT ![Monitor] = Look]
  /\ seen' = poll[Monitor].state
  /\ UNCHANGED <<proc, mine, control, caller, history, requests, restarts>>

MonitorJudges ==
  /\ poll[Monitor].pc = "judge"
  /\ poll' = [poll EXCEPT ![Monitor] = Look]
  /\ seen' = poll[Monitor].state
  /\ due' = (due /\ ~Alarm)
  /\ UNCHANGED <<proc, mine, control, caller, asked, given_up, requests, restarts>>

-----------------------------------------------------------------------------
(* What happens to the game and to this process                             *)

ServerDies(p) ==
  /\ p \in Alive
  /\ proc' = [proc EXCEPT ![p] = "dead"]
  /\ due' = (/\ p \notin asked /\ seen = "online" /\ poll[Monitor].pc = "look"
             /\ ~stopping /\ ~intent)
  /\ UNCHANGED <<mine, control, caller, poll, seen, asked, given_up, requests, restarts>>

\* PalServer.exe may leave the work to its child and end: poll() then says
\* that the tracked process is gone, and only the scan still finds the game.
LauncherExits ==
  /\ tracked \in Alive
  /\ mine' = mine \ {tracked}
  /\ tracked' = None
  /\ UNCHANGED <<proc, stopping, intent, caller, poll, seen, history, requests, restarts>>

\* A minute after the last request, long after the monitor has looked.
IntentExpires ==
  /\ intent
  /\ \A c \in Callers : caller[c].pc = "idle"
  /\ seen # "online" \/ Alive # {}
  /\ poll[Monitor].pc = "look"
  /\ intent' = FALSE
  /\ UNCHANGED <<proc, mine, tracked, stopping, caller, poll, seen, history, requests, restarts>>

EgmRestarts ==
  /\ restarts < MaxRestarts
  /\ restarts' = restarts + 1
  /\ mine' = {}
  /\ tracked' = None
  /\ stopping' = FALSE /\ intent' = FALSE
  /\ caller' = [c \in Callers |-> Idle]
  /\ poll' = [r \in Pollers |-> Look]
  /\ seen' = "none"
  /\ due' = FALSE /\ given_up' = FALSE
  /\ UNCHANGED <<proc, asked, requests>>

Init ==
  /\ proc = [p \in Pids |-> "none"]
  /\ mine = {}
  /\ tracked = None
  /\ stopping = FALSE /\ intent = FALSE
  /\ caller = [c \in Callers |-> Idle]
  /\ poll = [r \in Pollers |-> Look]
  /\ seen = "none"
  /\ due = FALSE /\ asked = {} /\ given_up = FALSE
  /\ requests = 0 /\ restarts = 0

CallerStep(c) ==
  \/ CountdownEnds(c) \/ RestEnds(c)
  \/ Launches(c) \/ StartFails(c)
  \/ StopFindsNothing(c) \/ StopBegins(c) \/ StopKills(c) \/ StopEnds(c)

PollStep(r) == PollLooks(r) \/ PollScans(r) \/ PollPops(r)

Next ==
  \/ \E c \in Callers :
       \/ StartRequest(c) \/ StopRequest(c) \/ BareStopRequest(c)
       \/ CountdownRequest(c) \/ CountdownCancelled(c)
       \/ ServerObeys(c) \/ RestRaises(c) \/ StopRaises(c)
       \/ CallerStep(c)
  \/ \E r \in Pollers : PollStep(r)
  \/ MonitorJudges
  \/ \E p \in Pids : ServerDies(p)
  \/ LauncherExits
  \/ IntentExpires
  \/ EgmRestarts

Spec == Init /\ [][Next]_vars

\* Threads run on, and the scheduler polls every ten seconds.
Fairness ==
  /\ \A c \in Callers : WF_vars(CallerStep(c))
  /\ \A r \in Pollers : WF_vars(PollStep(r))
  /\ WF_vars(MonitorJudges)

FairSpec == Spec /\ Fairness

-----------------------------------------------------------------------------
(* Properties                                                               *)

TypeOK ==
  /\ proc \in [Pids -> {"none", "alive", "dead"}]
  /\ mine \subseteq Pids /\ asked \subseteq Pids
  /\ tracked \in mine \cup {None}
  /\ stopping \in BOOLEAN /\ intent \in BOOLEAN
  /\ due \in BOOLEAN /\ given_up \in BOOLEAN
  /\ caller \in [Callers -> [pc: {"idle", "start", "countdown", "rest", "quit", "stop", "kill", "reap"},
                             again: BOOLEAN, pid: Pids \cup {None}]]
  /\ poll \in [Pollers -> [pc: {"look", "scan", "pop", "judge"},
                           state: {"none", "stopping", "online", "offline"}]]
  /\ seen \in {"none", "stopping", "online", "offline"}
  /\ requests \in 0..MaxRequests /\ restarts \in 0..MaxRestarts

\* Two servers never run on the same world: whoever starts, stops and polls at
\* once, and even if the tracking is lost, a start is refused while one lives.
OneServer == \A p, q \in Alive : p = q

Stoppers == {c \in Callers : caller[c].pc \in {"rest", "quit", "stop", "kill", "reap"}}

\* The status is not "stopping" for good: whoever set the mark is still on the
\* way to the stop that takes it back, unless somebody who had set it was
\* cancelled (a countdown) or failed with another error than PalworldRestError,
\* and nobody has stopped or started the server since.
StoppingPasses == stopping /\ ~given_up => Stoppers # {}

\* A server that the monitor has seen and that dies unasked is reported,
\* unless it is started or stopped before the monitor looks again.
CrashIsReported == due ~> ~due

\* What was launched since this process runs can be stopped: the tracking of
\* a living server is never dropped ("the whole tree has to be tracked and
\* killed explicitly or the actual game process is orphaned, still running,
\* still holding the port", process_manager.py).
LaunchedStaysTracked ==
  \A p \in mine : proc[p] = "alive" => tracked = p

\* What the monitor is about to report as a crash is the death of a process
\* that nobody had asked for ("Recording the intent first prevents the activity
\* monitor from misclassifying that expected exit as a crash",
\* process_manager.py).
NoFalseAlarm ==
  poll[Monitor].pc = "judge" /\ Alarm => \E p \in Pids : proc[p] = "dead" /\ p \notin asked

\* The mark announces a stop ("Mark an upcoming stop/restart before Palworld
\* is asked to shut down", process_manager.py): while it is set, one comes.
MarkedStopComes == stopping => Stoppers # {}
=============================================================================
