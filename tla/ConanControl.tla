----------------------------- MODULE ConanControl -----------------------------
(***************************************************************************)
(* Control of one Conan Exiles server: conan_process_manager.py, the       *)
(* requests of ConanControlProvider, the stop of restore_backup and the    *)
(* monitor _check_conan_server_health of scheduler.py.                     *)
(*                                                                         *)
(* Requests run on the event loop from their beginning to their end; the   *)
(* stop of a restore and the polls run in threads.  start holds `_lock`    *)
(* all the time, stop and get_status take it for their marks only: their   *)
(* scans of the processes are steps of their own.  Other than the manager  *)
(* of Palworld, stop looks for the server instead of trusting its handle.  *)
(***************************************************************************)
EXTENDS Integers

CONSTANTS
  Pids,         \* processes of the game, in the order they are launched
  None,         \* no process
  Loop,         \* the event loop
  Restores,     \* threads that stop the server for a restore
  Pollers,      \* threads in get_status
  Monitor,      \* the one of them that is _check_conan_server_health
  MaxRequests,  \* bound: requests
  MaxRestarts   \* bound: restarts of this process

Threads == {Loop} \cup Restores

VARIABLES
  proc,      \* what became of each process
  tracked,   \* _processes
  stopping,  \* _stopping
  intent,    \* _recent_intentional_stop, less than 60 seconds old
  caller, poll,
  seen,      \* _last_process_state
  due,       \* history: a seen server died unasked and the monitor has not looked yet
  asked,     \* history: the processes whose end was asked for
  requests, restarts

control == <<tracked, stopping, intent>>
vars == <<proc, control, caller, poll, seen, due, asked, requests, restarts>>

Alive == {p \in Pids : proc[p] = "alive"}
Unused == {p \in Pids : proc[p] = "none"}
Idle == [pc |-> "idle", again |-> FALSE, has |-> None, found |-> {}, met |-> {}, spared |-> {}]
Look == [pc |-> "look", state |-> "none"]

Requested(c, r) ==
  /\ caller[c].pc = "idle"
  /\ requests < MaxRequests
  /\ requests' = requests + 1
  /\ caller' = [caller EXCEPT ![c] = r]

\* The event loop does nothing else until the request has ended.
StartRequest ==
  /\ Requested(Loop, [Idle EXCEPT !.pc = "start"])
  /\ UNCHANGED <<proc, control, poll, seen, due, asked, restarts>>

\* stop, restart, and the end of a countdown
StopRequest ==
  /\ \E again \in BOOLEAN : Requested(Loop, [Idle EXCEPT !.pc = "mark", !.again = again])
  /\ UNCHANGED <<proc, control, poll, seen, due, asked, restarts>>

\* restore_backup looks at the status on the event loop and hands the stop to a
\* thread; a look that finds nothing drops the handle.
RestoreRequest(c) ==
  /\ caller[Loop].pc = "idle"
  /\ IF stopping \/ Alive # {}
     THEN Requested(c, [Idle EXCEPT !.pc = "mark"]) /\ UNCHANGED tracked
     ELSE Requested(c, Idle) /\ tracked' = None
  /\ UNCHANGED <<proc, stopping, intent, poll, seen, due, asked, restarts>>

-----------------------------------------------------------------------------
(* start and stop                                                           *)

AfterStop(c) == IF caller[c].again THEN [Idle EXCEPT !.pc = "start"] ELSE Idle

Launches(c) ==
  /\ caller[c].pc = "start"
  /\ Alive = {}
  /\ \E p \in Unused :
       /\ \A q \in Unused : p <= q
       /\ proc' = [proc EXCEPT ![p] = "alive"]
       /\ tracked' = p
  /\ stopping' = FALSE /\ intent' = FALSE /\ due' = FALSE
  /\ caller' = [caller EXCEPT ![c] = Idle]
  /\ UNCHANGED <<poll, seen, asked, requests, restarts>>

\* "already running", no executable, no process.
StartFails(c) ==
  /\ caller[c].pc = "start"
  /\ caller' = [caller EXCEPT ![c] = Idle]
  /\ UNCHANGED <<proc, control, poll, seen, due, asked, requests, restarts>>

\* mark_intentional_stop
StopMarks(c) ==
  /\ caller[c].pc = "mark"
  /\ caller' = [caller EXCEPT ![c].pc = "read", ![c].met = Alive]
  /\ stopping' = TRUE /\ intent' = TRUE
  /\ asked' = asked \cup Alive
  /\ due' = FALSE
  /\ UNCHANGED <<proc, tracked, poll, seen, requests, restarts>>

StopReads(c) ==
  /\ caller[c].pc = "read"
  /\ caller' = [caller EXCEPT ![c].pc = "scan", ![c].has = tracked]
  /\ UNCHANGED <<proc, control, poll, seen, due, asked, requests, restarts>>

\* Mutant: the stop of Palworld, which believes in the handle.
StopTrusts(c) ==
  /\ caller[c].pc = "scan"
  /\ caller' = [caller EXCEPT ![c].found = {caller[c].has} \cap Alive,
                              ![c].pc = IF caller[c].has \in Alive THEN "kill" ELSE "end"]
  /\ asked' = asked \cup Alive
  /\ UNCHANGED <<proc, control, poll, seen, due, requests, restarts>>

\* instance_processes
StopScans(c) ==
  /\ caller[c].pc = "scan"
  /\ caller' = [caller EXCEPT ![c].found = Alive, ![c].pc = IF Alive = {} THEN "end" ELSE "kill"]
  /\ asked' = asked \cup Alive
  /\ UNCHANGED <<proc, control, poll, seen, due, requests, restarts>>

\* The tree of the handle while it lives, else all that was found.
Victims(c) == IF caller[c].has \in Alive THEN {caller[c].has} ELSE caller[c].found

StopKills(c) ==
  /\ caller[c].pc = "kill"
  /\ proc' = [p \in Pids |-> IF p \in Victims(c) THEN "dead" ELSE proc[p]]
  /\ caller' = [caller EXCEPT ![c].pc = "end"]
  /\ UNCHANGED <<control, poll, seen, due, asked, requests, restarts>>

\* The system does not end them; the error is ignored.
KillIsRefused(c) ==
  /\ caller[c].pc = "kill"
  /\ caller' = [caller EXCEPT ![c].pc = "end", ![c].spared = Victims(c)]
  /\ UNCHANGED <<proc, control, poll, seen, due, asked, requests, restarts>>

\* The launcher exits between the look at its handle and the reading of its
\* tree, which is then empty: the game it has started is not among them.
LauncherExitsFirst(c) ==
  /\ caller[c].pc = "kill"
  /\ tracked \in Alive /\ caller[c].has = tracked
  /\ caller' = [caller EXCEPT ![c].pc = "end", ![c].spared = {tracked}]
  /\ tracked' = None
  /\ UNCHANGED <<proc, stopping, intent, poll, seen, due, asked, requests, restarts>>

StopEnds(c) ==
  /\ caller[c].pc = "end"
  /\ tracked' = None
  /\ stopping' = FALSE
  /\ caller' = [caller EXCEPT ![c] = AfterStop(c)]
  /\ UNCHANGED <<proc, intent, poll, seen, due, asked, requests, restarts>>

-----------------------------------------------------------------------------
(* get_status and the activity monitor                                      *)

Polled(r, state) == [pc |-> IF r = Monitor THEN "judge" ELSE "look", state |-> state]

PollLooks(r) ==
  /\ poll[r].pc = "look"
  /\ poll' = [poll EXCEPT ![r] =
       IF stopping THEN Polled(r, "stopping") ELSE [pc |-> "scan", state |-> "none"]]
  /\ UNCHANGED <<proc, control, caller, seen, due, asked, requests, restarts>>

PollScans(r) ==
  /\ poll[r].pc = "scan"
  /\ poll' = [poll EXCEPT ![r] =
       IF Alive # {} THEN Polled(r, "online") ELSE [pc |-> "pop", state |-> "none"]]
  /\ UNCHANGED <<proc, control, caller, seen, due, asked, requests, restarts>>

PollPops(r) ==
  /\ poll[r].pc = "pop"
  /\ tracked' = None
  /\ poll' = [poll EXCEPT ![r] = Polled(r, "offline")]
  /\ UNCHANGED <<proc, stopping, intent, caller, seen, due, asked, requests, restarts>>

Alarm == seen = "online" /\ poll[Monitor].state = "offline" /\ ~intent

MonitorJudges ==
  /\ poll[Monitor].pc = "judge"
  /\ poll' = [poll EXCEPT ![Monitor] = Look]
  /\ seen' = poll[Monitor].state
  /\ due' = (due /\ ~Alarm)
  /\ UNCHANGED <<proc, control, caller, asked, requests, restarts>>

-----------------------------------------------------------------------------
(* What happens to the game and to this process                             *)

ServerDies(p) ==
  /\ p \in Alive
  /\ proc' = [proc EXCEPT ![p] = "dead"]
  /\ due' = (/\ p \notin asked /\ seen = "online" /\ poll[Monitor].pc = "look"
             /\ ~stopping /\ ~intent)
  /\ UNCHANGED <<control, caller, poll, seen, asked, requests, restarts>>

\* ConanSandboxServer.exe may be closed while the game it has started goes on.
LauncherExits ==
  /\ tracked \in Alive
  /\ tracked' = None
  /\ UNCHANGED <<proc, stopping, intent, caller, poll, seen, due, asked, requests, restarts>>

IntentExpires ==
  /\ intent
  /\ intent' = FALSE
  /\ UNCHANGED <<proc, tracked, stopping, caller, poll, seen, due, asked, requests, restarts>>

EgmRestarts ==
  /\ restarts < MaxRestarts
  /\ restarts' = restarts + 1
  /\ tracked' = None
  /\ stopping' = FALSE /\ intent' = FALSE
  /\ caller' = [c \in Threads |-> Idle]
  /\ poll' = [r \in Pollers |-> Look]
  /\ seen' = "none" /\ due' = FALSE
  /\ UNCHANGED <<proc, asked, requests>>

Init ==
  /\ proc = [p \in Pids |-> "none"]
  /\ tracked = None
  /\ stopping = FALSE /\ intent = FALSE
  /\ caller = [c \in Threads |-> Idle]
  /\ poll = [r \in Pollers |-> Look]
  /\ seen = "none" /\ due = FALSE /\ asked = {}
  /\ requests = 0 /\ restarts = 0

CallerStep(c) ==
  \/ Launches(c) \/ StartFails(c)
  \/ StopMarks(c) \/ StopReads(c) \/ StopScans(c) \/ StopEnds(c)
  \/ StopKills(c) \/ KillIsRefused(c) \/ LauncherExitsFirst(c)

PollStep(r) == PollLooks(r) \/ PollScans(r) \/ PollPops(r)

Next ==
  \/ StartRequest \/ StopRequest
  \/ \E c \in Restores : RestoreRequest(c)
  \/ \E c \in Threads : CallerStep(c)
  \/ \E r \in Pollers : PollStep(r)
  \/ MonitorJudges
  \/ \E p \in Pids : ServerDies(p)
  \/ LauncherExits \/ IntentExpires \/ EgmRestarts

Spec == Init /\ [][Next]_vars

-----------------------------------------------------------------------------
(* Properties                                                               *)

TypeOK ==
  /\ proc \in [Pids -> {"none", "alive", "dead"}]
  /\ asked \subseteq Pids
  /\ tracked \in Pids \cup {None}
  /\ stopping \in BOOLEAN /\ intent \in BOOLEAN /\ due \in BOOLEAN
  /\ caller \in [Threads -> [pc: {"idle", "start", "mark", "read", "scan", "kill", "end"},
                             again: BOOLEAN, has: Pids \cup {None},
                             found: SUBSET Pids, met: SUBSET Pids, spared: SUBSET Pids]]
  /\ poll \in [Pollers -> [pc: {"look", "scan", "pop", "judge"},
                           state: {"none", "stopping", "online", "offline"}]]
  /\ seen \in {"none", "stopping", "online", "offline"}
  /\ requests \in 0..MaxRequests /\ restarts \in 0..MaxRestarts

\* A stop that returns has ended the server it met, also one that was started by
\* an earlier process, lost its launcher or fell out of the tracking, unless the
\* system has refused to end it or its launcher has exited just before its tree was
\* read (conan_process_manager.py: stop, _terminate_tree).
StopStops ==
  \A c \in Threads : caller[c].pc = "end" => caller[c].met \cap Alive \subseteq caller[c].spared

\* What is then reported ("Conan Exiles server stopped.",
\* conan_process_manager.py: stop).
StoppedIsGone == \A c \in Threads : caller[c].pc = "end" => caller[c].met \cap Alive = {}

\* The status is "stopping" only while somebody stops the server
\* (conan_process_manager.py: stop, get_status).
StoppingPasses == stopping => \E c \in Threads : caller[c].pc \in {"read", "scan", "kill", "end"}
=============================================================================
