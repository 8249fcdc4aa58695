------------------------------ MODULE AppUpdate ------------------------------
(***************************************************************************)
(* The automatic update of EGM: services/app_update.py in the EGM process, *)
(* the detached worker update_worker/EGMUpdateWorker.cs, the installer     *)
(* (external) and the start of EGM in main.py.                             *)
(*                                                                         *)
(* Versions are numbered in their order.  Each has a folder with its       *)
(* installer and its detached worker.  Whole is an installer that agrees   *)
(* with the published SHA-256.  EGM is one process at a time: another one  *)
(* finds the port in use and ends (desktop_app.py).                        *)
(***************************************************************************)
EXTENDS Integers

CONSTANTS
  MaxVersion,   \* bound: versions that will be published
  MaxRequests,  \* bound: installations asked for
  MaxFaults,    \* bound: failing downloads, file operations, process starts and setups
  MaxQuits      \* bound: ends of EGM by the user

ASSUME UpdateAssumption ==
  /\ MaxVersion \in Nat \ {0}
  /\ MaxRequests \in Nat /\ MaxFaults \in Nat /\ MaxQuits \in Nat

VARIABLES
  release,    \* the newest release on GitHub
  installed,  \* the version of the files in place, 0 when the executable is missing
  egm,        \* the EGM process
  running,    \* its version
  phase,      \* _INSTALL_STATE["installPhase"], which also tells how far _run_install is
  target,     \* the version the installation is about
  file,       \* the installer in the folder of each version
  worker,     \* the worker in the folder of each version
  marker,     \* update-completed.json
  last,       \* last_update_result
  overlapped, \* history: an installation began while the worker of another was alive
  stumbled,   \* history: a start of EGM met a marker that was being written
  stranded,   \* history: a worker ended without a start of EGM, since that failed
              \* in the fallback, or since it could not read its job
  requests, faults, quits

vars == <<release, installed, egm, running, phase, target, file, worker, marker, last,
          overlapped, stumbled, stranded, requests, faults, quits>>
process == <<egm, running>>
disk == <<installed, file, marker>>
history == <<overlapped, stumbled, stranded>>
bounds == <<requests, faults, quits>>

Versions == 1..MaxVersion
Phases == {"idle", "queued", "downloading", "writing", "verifying", "preparing", "closing", "failed"}
WorkerSteps ==
  {"none", "boot", "wait", "setup", "replace", "restart", "open marker", "write marker",
   "open failure", "write failure", "fallback"}
NoMarker == [version |-> 0, ok |-> FALSE, whole |-> FALSE]
NoResult == [status |-> "none", version |-> 0]

Fault == faults < MaxFaults /\ faults' = faults + 1
NoFault == UNCHANGED faults

Alive(v) == worker[v] # "none"
Goes(v, step) == worker' = [worker EXCEPT ![v] = step]

-----------------------------------------------------------------------------
(* install_update and _run_install                                          *)

\* No task yet, or it is done.
InstallUpdate ==
  /\ egm = "up"
  /\ phase \in {"idle", "failed"}
  /\ requests < MaxRequests
  /\ requests' = requests + 1
  /\ phase' = "queued"
  /\ overlapped' = (overlapped \/ \E v \in Versions : Alive(v))
  /\ UNCHANGED <<release, process, target, disk, worker, last, stumbled, stranded, faults, quits>>

\* except Exception: recorded, and EGM goes on.
Fails(v) ==
  /\ phase' = "failed"
  /\ last' = [status |-> "failed", version |-> v]

\* get_status(force=True): what it finds is newer, with an installer and a
\* checksum.  The folder's installer is removed; Windows refuses that while it runs.
ChecksRelease ==
  /\ phase = "queued"
  /\ release > running
  /\ target' = release
  /\ IF worker[release] \in {"setup", "replace"}
     THEN Fails(release) /\ UNCHANGED file
     ELSE /\ phase' = "downloading"
          /\ file' = [file EXCEPT ![release] = "none"]
          /\ UNCHANGED last
  /\ UNCHANGED <<release, process, installed, marker, worker, history, bounds>>

\* No newer release, GitHub does not answer, or an asset is missing.
FindsNoRelease ==
  /\ phase = "queued"
  /\ (release <= running /\ NoFault) \/ Fault
  /\ Fails(target)
  /\ UNCHANGED <<release, process, target, disk, worker, history, requests, quits>>

DownloadBegins ==
  /\ phase = "downloading"
  /\ phase' = "writing"
  /\ file' = [file EXCEPT ![target] = "partial"]
  /\ UNCHANGED <<release, process, target, installed, marker, worker, last, history, bounds>>

DownloadEnds ==
  /\ phase = "writing"
  /\ phase' = "verifying"
  /\ \/ file' = [file EXCEPT ![target] = "whole"] /\ NoFault
     \/ file' = [file EXCEPT ![target] = "bad"] /\ Fault
  /\ UNCHANGED <<release, process, target, installed, marker, worker, last, history,
                 requests, quits>>

\* While it is loaded, or when the checksum is: what was written stays.
DownloadFails ==
  /\ phase \in {"downloading", "writing", "verifying"}
  /\ Fault
  /\ Fails(target)
  /\ UNCHANGED <<release, process, target, disk, worker, history, requests, quits>>

\* Mutant: the digests are not compared.
LaunchesUnverified ==
  /\ phase = "verifying"
  /\ ~Alive(target)
  /\ phase' = "preparing"
  /\ Goes(target, "boot")
  /\ UNCHANGED <<release, process, target, disk, last, history, bounds>>

\* The checksum agrees; the worker is copied next to the installer, gets its
\* job and is started: no await in between.  The copy fails while a worker of
\* that folder still runs.
Launches ==
  /\ phase = "verifying"
  /\ file[target] = "whole"
  /\ ~Alive(target)
  /\ phase' = "preparing"
  /\ Goes(target, "boot")
  /\ UNCHANGED <<release, process, target, disk, last, history, bounds>>

DoesNotLaunch ==
  /\ phase = "verifying"
  /\ \/ (file[target] # "whole" \/ Alive(target)) /\ NoFault
     \/ Fault
  /\ file' = IF file[target] = "whole" THEN file ELSE [file EXCEPT ![target] = "none"]
  /\ Fails(target)
  /\ UNCHANGED <<release, process, target, installed, marker, worker, history, requests, quits>>

\* After 1.5 seconds the worker is looked at.
SeesWorker ==
  /\ phase = "preparing"
  /\ Alive(target)
  /\ phase' = "closing"
  /\ last' = [status |-> "handoff_started", version |-> target]
  /\ UNCHANGED <<release, process, target, disk, worker, history, bounds>>

\* The worker has ended, or a log or the history cannot be written.
FailsAfterLaunch ==
  /\ phase = "preparing"
  /\ (~Alive(target) /\ NoFault) \/ Fault
  /\ Fails(target)
  /\ UNCHANGED <<release, process, target, disk, worker, history, requests, quits>>

\* Any end of the EGM process.
Ends ==
  /\ egm' = "down"
  /\ phase' = "idle"

Exits ==
  /\ phase = "closing"
  /\ Ends
  /\ UNCHANGED <<release, running, target, disk, worker, last, history, bounds>>

-----------------------------------------------------------------------------
(* EGMUpdateWorker                                                          *)

\* The job is read and the installer is there.
WorkerBoots(v) ==
  /\ worker[v] = "boot"
  /\ file[v] # "none"
  /\ Goes(v, "wait")
  /\ UNCHANGED <<release, process, phase, target, disk, last, history, bounds>>

\* The installer is gone, or the job cannot be read or has a bad value.
WorkerGivesUp(v) ==
  /\ worker[v] = "boot"
  /\ (file[v] = "none" /\ NoFault) \/ Fault
  /\ Goes(v, "none")
  /\ stranded' = TRUE
  /\ UNCHANGED <<release, process, phase, target, disk, last, overlapped, stumbled, requests, quits>>

\* Mutant: the exit of the installer is not waited for.
SetupIsNotAwaited(v) ==
  /\ worker[v] = "wait"
  /\ Goes(v, IF file[v] \in {"whole", "bad"} THEN "restart" ELSE "open failure")
  /\ UNCHANGED <<release, process, phase, target, disk, last, history, bounds>>

\* The parent has ended or 15 seconds have passed: Windows runs the installer
\* unless it is missing or still being written.
SetupStarts(v) ==
  /\ worker[v] = "wait"
  /\ Goes(v, IF file[v] \in {"whole", "bad"} THEN "setup" ELSE "open failure")
  /\ UNCHANGED <<release, process, phase, target, disk, last, history, bounds>>

\* Windows does not create its process.
SetupDoesNotStart(v) ==
  /\ worker[v] = "wait"
  /\ Fault
  /\ Goes(v, "open failure")
  /\ UNCHANGED <<release, process, phase, target, disk, last, history, requests, quits>>

\* StopEGMProcesses of the installer.
SetupStopsEgm(v) ==
  /\ worker[v] = "setup"
  /\ Goes(v, "replace")
  /\ Ends
  /\ UNCHANGED <<release, running, target, disk, last, history, bounds>>

SetupReplaces(v) ==
  /\ worker[v] = "replace"
  /\ egm = "down"
  /\ installed' = v
  /\ Goes(v, "restart")
  /\ UNCHANGED <<release, process, phase, target, file, marker, last, history, bounds>>

\* Exit code other than 0, also when EGM runs again: its files are in use.
SetupFails(v) ==
  /\ worker[v] = "replace"
  /\ (egm # "down" /\ NoFault) \/ Fault
  /\ installed' \in {installed, 0}
  /\ Goes(v, "open failure")
  /\ UNCHANGED <<release, process, phase, target, file, marker, last, history, requests, quits>>

StartsEgm ==
  IF egm = "down" /\ installed # 0
  THEN egm' = "starting" /\ running' = installed
  ELSE UNCHANGED process

RestartsEgm(v) ==
  /\ worker[v] = "restart"
  /\ installed # 0
  /\ StartsEgm
  /\ Goes(v, "open marker")
  /\ UNCHANGED <<release, phase, target, disk, last, history, bounds>>

CannotRestart(v) ==
  /\ worker[v] = "restart"
  /\ (installed = 0 /\ NoFault) \/ Fault
  /\ Goes(v, "open failure")
  /\ UNCHANGED <<release, process, phase, target, disk, last, history, requests, quits>>

\* WriteMarker: other processes can meet the file half-way.
OpensMarker(v) ==
  /\ worker[v] \in {"open marker", "open failure"}
  /\ marker' = [version |-> v, ok |-> worker[v] = "open marker", whole |-> FALSE]
  /\ Goes(v, IF worker[v] = "open marker" THEN "write marker" ELSE "write failure")
  /\ UNCHANGED <<release, process, phase, target, installed, file, last, history, bounds>>

\* After a success the worker is done.
WritesMarker(v) ==
  /\ worker[v] \in {"write marker", "write failure"}
  /\ marker' = [version |-> v, ok |-> worker[v] = "write marker", whole |-> TRUE]
  /\ Goes(v, IF worker[v] = "write marker" THEN "none" ELSE "fallback")
  /\ UNCHANGED <<release, process, phase, target, installed, file, last, history, bounds>>

\* WriteMarker swallows its errors; the fallback only follows when EGM was not
\* restarted, which is when the failure is recorded.
MarkerFails(v) ==
  /\ worker[v] \in {"open marker", "write marker", "open failure", "write failure"}
  /\ Fault
  /\ Goes(v, IF worker[v] \in {"open marker", "write marker"} THEN "none" ELSE "fallback")
  /\ UNCHANGED <<release, process, phase, target, disk, last, history, requests, quits>>

\* Mutant: the existing installation is not restarted after a failure.
FallbackGivesUp(v) ==
  /\ worker[v] = "fallback"
  /\ Goes(v, "none")
  /\ UNCHANGED <<release, process, phase, target, disk, last, history, bounds>>

FallbackRestarts(v) ==
  /\ worker[v] = "fallback"
  /\ StartsEgm
  /\ Goes(v, "none")
  /\ UNCHANGED <<release, phase, target, disk, last, history, bounds>>

\* Its error is swallowed; nothing follows.
FallbackFails(v) ==
  /\ worker[v] = "fallback"
  /\ Fault
  /\ Goes(v, "none")
  /\ stranded' = TRUE
  /\ UNCHANGED <<release, process, phase, target, disk, last, overlapped, stumbled, requests, quits>>

-----------------------------------------------------------------------------
(* The start of EGM, the user, GitHub                                       *)

\* consume_completion_marker: removed first, then reported.
MarkerIsOpen == \E v \in Versions : worker[v] \in {"write marker", "write failure"}

StartsUp ==
  /\ egm = "starting"
  /\ marker.whole \/ ~MarkerIsOpen
  /\ egm' = "up"
  /\ marker' = NoMarker
  /\ last' = IF ~marker.whole THEN last
             ELSE [status |-> IF marker.ok THEN "success" ELSE "failed", version |-> marker.version]
  /\ UNCHANGED <<release, running, installed, phase, target, file, worker, history, bounds>>

\* A marker that cannot be parsed is removed, which Windows refuses while the
\* worker writes it: the error ends the start.
StartStumbles ==
  /\ egm = "starting"
  /\ ~marker.whole /\ MarkerIsOpen
  /\ egm' = "down"
  /\ stumbled' = TRUE
  /\ UNCHANGED <<release, running, disk, phase, target, worker, last, overlapped, stranded, bounds>>

UserStarts ==
  /\ egm = "down"
  /\ installed # 0
  /\ StartsEgm
  /\ UNCHANGED <<release, phase, target, disk, worker, last, history, bounds>>

UserQuits ==
  /\ egm = "up"
  /\ quits < MaxQuits
  /\ quits' = quits + 1
  /\ Ends
  /\ UNCHANGED <<release, running, target, disk, worker, last, history, requests, faults>>

Publishes ==
  /\ release < MaxVersion
  /\ release' = release + 1
  /\ UNCHANGED <<process, phase, target, disk, worker, last, history, bounds>>

-----------------------------------------------------------------------------

Init ==
  /\ release = 1
  /\ installed = 1 /\ egm = "up" /\ running = 1
  /\ phase = "idle" /\ target = 0
  /\ file = [v \in Versions |-> "none"]
  /\ worker = [v \in Versions |-> "none"]
  /\ marker = NoMarker /\ last = NoResult
  /\ overlapped = FALSE /\ stumbled = FALSE /\ stranded = FALSE
  /\ requests = 0 /\ faults = 0 /\ quits = 0

Install ==
  \/ ChecksRelease \/ FindsNoRelease
  \/ DownloadBegins \/ DownloadEnds \/ DownloadFails
  \/ Launches \/ DoesNotLaunch
  \/ SeesWorker \/ FailsAfterLaunch
  \/ Exits

Worker(v) ==
  \/ WorkerBoots(v) \/ WorkerGivesUp(v)
  \/ SetupStarts(v) \/ SetupDoesNotStart(v)
  \/ SetupStopsEgm(v) \/ SetupReplaces(v) \/ SetupFails(v)
  \/ RestartsEgm(v) \/ CannotRestart(v)
  \/ OpensMarker(v) \/ WritesMarker(v) \/ MarkerFails(v)
  \/ FallbackRestarts(v) \/ FallbackFails(v)

Start == StartsUp \/ StartStumbles

Next ==
  \/ InstallUpdate
  \/ Install
  \/ \E v \in Versions : Worker(v)
  \/ Start
  \/ UserStarts \/ UserQuits \/ Publishes

\* The task runs on, and so do the worker, its waits and the start of EGM.
Spec ==
  /\ Init /\ [][Next]_vars
  /\ WF_vars(Install) /\ WF_vars(Start)
  /\ \A v \in Versions : WF_vars(Worker(v))

-----------------------------------------------------------------------------
(* Properties                                                               *)

TypeOK ==
  /\ release \in Versions
  /\ installed \in 0..MaxVersion
  /\ egm \in {"down", "starting", "up"}
  /\ running \in Versions
  /\ phase \in Phases
  /\ target \in 0..MaxVersion
  /\ file \in [Versions -> {"none", "partial", "whole", "bad"}]
  /\ worker \in [Versions -> WorkerSteps]
  /\ marker \in [version: 0..MaxVersion, ok: BOOLEAN, whole: BOOLEAN]
  /\ last \in [status: {"none", "handoff_started", "failed", "success"}, version: 0..MaxVersion]
  /\ overlapped \in BOOLEAN /\ stumbled \in BOOLEAN /\ stranded \in BOOLEAN
  /\ requests \in 0..MaxRequests /\ faults \in 0..MaxFaults /\ quits \in 0..MaxQuits

\* The installer that the worker starts is the one whose checksum was
\* verified, however EGM ended, unless the user asked for another installation
\* while the worker of the first was waiting.
VerifiedOnly ==
  \A v \in Versions : worker[v] \in {"setup", "replace"} => file[v] = "whole" \/ overlapped

\* A success that EGM reports at its start is true: the version that was asked
\* for, or a later one, is the one that runs.
SuccessIsTrue ==
  (egm = "up" /\ last.status = "success") => running >= last.version \/ overlapped

\* "Closing EGM. The update will install and EGM will restart automatically":
\* whichever step of the worker or of the installer fails, EGM comes back, unless
\* the installer has left no executable, the start meets the marker while it is
\* being written, or the worker has been left without a way to start EGM: its job
\* is unreadable, or the start that follows a failure fails as well.
ComesBack ==
  (egm = "down" /\ \E v \in Versions : worker[v] \in {"boot", "wait", "setup", "replace"})
    ~> (egm = "up" \/ installed = 0 \/ stumbled \/ stranded)

=============================================================================
