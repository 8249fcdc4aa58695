---------------------------- MODULE ServerControl ----------------------------
(***************************************************************************)
(* Control of a server of either game: games/providers/registry.py gives   *)
(* the requests of routes/server_control.py the provider of the instance's *)
(* game, and _check_instance of scheduler.py the monitor of that game.     *)
(* Behind it works the process manager of Palworld (module ProcessManager) *)
(* or the one of Conan Exiles (module ConanControl), on one state; an      *)
(* instance never changes its game.                                        *)
(***************************************************************************)
EXTENDS ProcessManager

CONSTANTS
  Games,   \* the games of instances: "palworld", "conan_exiles"
  Loop     \* the event loop; for Palworld, which works in threads, one of these

ASSUME ServerControlAssumption ==
  /\ Games \subseteq {"palworld", "conan_exiles"}
  /\ Loop \in Callers

VARIABLES game

Conan == INSTANCE ConanControl WITH Restores <- Callers \ {Loop}

-----------------------------------------------------------------------------
\* get_provider_for_instance and _check_instance: the manager of the game.
\* Conan's does not tell the servers of this process from others.
PalworldDoes(Step) == game = "palworld" /\ Step /\ UNCHANGED game
ConanDoes(Step) == game = "conan_exiles" /\ Step /\ UNCHANGED <<game, mine, given_up>>

GamesInit ==
  /\ game \in Games
  /\ \/ game = "palworld" /\ Init
     \/ game = "conan_exiles" /\ Conan!Init /\ mine = {} /\ given_up = FALSE

GamesNext == PalworldDoes(Next) \/ ConanDoes(Conan!Next)

gamesVars == <<game, vars>>
GamesSpec == GamesInit /\ [][GamesNext]_gamesVars

ServesCaller(c) == PalworldDoes(CallerStep(c)) \/ ConanDoes(Conan!CallerStep(c))
ServesPoll(r) == PalworldDoes(PollStep(r)) \/ ConanDoes(Conan!PollStep(r))
Judges == PalworldDoes(MonitorJudges) \/ ConanDoes(Conan!MonitorJudges)

\* Threads run on, a request runs to its end, the scheduler polls every ten seconds.
GamesFairness ==
  /\ \A c \in Callers : WF_gamesVars(ServesCaller(c))
  /\ \A r \in Pollers : WF_gamesVars(ServesPoll(r))
  /\ WF_gamesVars(Judges)

FairGamesSpec == GamesSpec /\ GamesFairness

-----------------------------------------------------------------------------
(* Properties; OneServer and CrashIsReported speak of either game            *)

\* The status is "stopping" only while somebody is on the way to the stop that takes
\* the mark back; with Palworld also after somebody on that way was cancelled or
\* failed, until the next stop or start (stop and get_status of process_manager.py
\* and conan_process_manager.py).
StatusPasses == IF game = "palworld" THEN StoppingPasses ELSE Conan!StoppingPasses

\* A stop of Conan that returns has ended the server it met, also one that was
\* started by an earlier process, lost its launcher or fell out of the tracking,
\* unless the system has refused to end it or its launcher has exited just before
\* its tree was read (conan_process_manager.py: stop, _terminate_tree).
StopStops == game = "conan_exiles" => Conan!StopStops

\* Without these exceptions.
StoppedIsGone == game = "conan_exiles" => Conan!StoppedIsGone
=============================================================================
