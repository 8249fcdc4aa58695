---------------------------- MODULE AppUpdateProofs ----------------------------
(***************************************************************************)
(* Proofs about AppUpdate for any number of versions, installations,       *)
(* faults and ends of EGM: only a verified installer is run, and a success *)
(* that EGM reports is true.                                               *)
(***************************************************************************)
EXTENDS AppUpdate, TLAPS

Early == {"queued", "downloading", "writing", "verifying"}
BeforeReplacing == {"boot", "wait", "setup", "replace"}
AfterReplacing == {"restart", "open marker", "write marker"}

\* An installation runs in a process, which is not older than the files.
Process ==
  /\ phase # "idle" => egm = "up"
  /\ egm # "down" => installed <= running

\* Workers come one at a time, each after the installation that launches it.
OneWorker ==
  /\ \A v, w \in Versions : Alive(v) /\ Alive(w) => v = w
  /\ phase \in Early => \A v \in Versions : ~Alive(v)

\* What is installed is verified, and never older than what is there.
GoesUp ==
  /\ installed = 0 \/ installed >= running
  /\ phase \in Early \ {"queued"} => target \in Versions /\ target >= running /\ target >= installed
  /\ \A v \in Versions : worker[v] \in BeforeReplacing =>
       file[v] = "whole" /\ v >= running /\ v >= installed

\* The worker speaks of a success once its version is in place and runs, and
\* so does the new EGM.
Truthful ==
  /\ \A v \in Versions : worker[v] \in AfterReplacing => installed = v
  /\ \A v \in Versions : worker[v] \in {"open marker", "write marker"} => running = v
  /\ marker.ok => marker.version <= running
  /\ last.status = "success" => last.version <= running

IInv ==
  /\ TypeOK
  /\ Process
  /\ ~overlapped => OneWorker /\ GoesUp /\ Truthful

LEMMA Numbers ==
  ASSUME TypeOK
  PROVE  /\ Versions \subseteq 0..MaxVersion
         /\ 0 \in 0..MaxVersion
         /\ Versions \subseteq Nat
         /\ running \in Nat /\ installed \in Nat
         /\ marker.version \in Nat /\ last.version \in Nat
BY UpdateAssumption DEF TypeOK, Versions

LEMMA Order ==
  /\ \A a, b, c \in Nat : a <= b /\ b <= c => a <= c
  /\ \A a, b \in Nat : a <= b /\ (a = 0 \/ a >= b) => a = 0 \/ a = b
  /\ \A a \in Nat : a <= a
OBVIOUS

LEMMA Went ==
  ASSUME TypeOK, NEW v \in Versions, NEW step \in WorkerSteps, Goes(v, step)
  PROVE  /\ worker' \in [Versions -> WorkerSteps]
         /\ worker'[v] = step
         /\ \A w \in Versions \ {v} : worker'[w] = worker[w]
BY DEF TypeOK, Goes

\* A fault is counted or does not happen.
LEMMA Faults ==
  ASSUME TypeOK, Fault \/ NoFault PROVE faults' \in 0..MaxFaults
BY UpdateAssumption DEF TypeOK, Fault, NoFault

-----------------------------------------------------------------------------
(* install_update and _run_install                                          *)

LEMMA InstallUpdateStep ==
  ASSUME IInv, InstallUpdate PROVE IInv'
<1>1. TypeOK'
  BY UpdateAssumption DEF IInv, TypeOK, InstallUpdate, Phases, process, disk
<1>2. Process'
  BY DEF IInv, Process, InstallUpdate, process, disk
<1>3. ASSUME ~overlapped' PROVE OneWorker' /\ GoesUp' /\ Truthful'
  <2>1. ~overlapped /\ \A v \in Versions : ~Alive(v)
    BY <1>3 DEF InstallUpdate
  <2>2. OneWorker'
    BY <2>1 DEF OneWorker, Alive, InstallUpdate
  <2>3. GoesUp'
    BY <2>1 DEF IInv, GoesUp, Early, InstallUpdate, process, disk
  <2>4. Truthful'
    BY <2>1 DEF IInv, Truthful, InstallUpdate, process, disk
  <2> QED BY <2>2, <2>3, <2>4
<1> QED BY <1>1, <1>2, <1>3 DEF IInv

\* Until it launches its worker, an installation only disturbs itself.
LEMMA EarlyStep ==
  ASSUME IInv, TypeOK', phase \in Early,
         UNCHANGED <<process, installed, marker, worker, overlapped>>,
         \/ phase' = "failed" /\ last'.status = "failed"
         \/ /\ phase' \in Early \ {"queued"} /\ last' = last
            /\ target' \in Versions /\ target' >= running /\ target' >= installed
  PROVE  IInv'
<1>1. Process'
  BY DEF IInv, Process, Early, process
<1>2. ASSUME ~overlapped' PROVE OneWorker' /\ GoesUp' /\ Truthful'
  <2>1. ~overlapped /\ \A v \in Versions : ~Alive(v) /\ ~Alive(v)'
    BY <1>2 DEF IInv, OneWorker, Alive
  <2>2. OneWorker'
    BY <2>1 DEF OneWorker
  <2>3. GoesUp'
    BY <2>1 DEF IInv, GoesUp, Early, Alive, BeforeReplacing, process
  <2>4. Truthful'
    BY <2>1 DEF IInv, Truthful, process
  <2> QED BY <2>2, <2>3, <2>4
<1> QED BY <1>1, <1>2 DEF IInv

LEMMA ChecksReleaseStep ==
  ASSUME IInv, ChecksRelease PROVE IInv'
<1>1. /\ phase = "queued" /\ release > running /\ target' = release
      /\ UNCHANGED <<release, process, installed, marker, worker, overlapped, stumbled, stranded, bounds>>
  BY DEF ChecksRelease, history
<1>2. release \in Versions /\ release >= running /\ release >= installed
  BY <1>1, UpdateAssumption DEF IInv, TypeOK, Process, Versions
<1>3. CASE worker[release] \in {"setup", "replace"}
  <2>1. Fails(release) /\ file' = file
    BY <1>3 DEF ChecksRelease
  <2>2. TypeOK'
    BY <1>1, <1>2, <2>1 DEF IInv, TypeOK, Fails, Phases, Versions, process, bounds
  <2> QED BY <1>1, <2>1, <2>2, EarlyStep DEF Fails, Early
<1>4. CASE worker[release] \notin {"setup", "replace"}
  <2>1. phase' = "downloading" /\ file' = [file EXCEPT ![release] = "none"] /\ last' = last
    BY <1>4 DEF ChecksRelease
  <2>2. TypeOK'
    BY <1>1, <1>2, <2>1 DEF IInv, TypeOK, Phases, Versions, process, bounds
  <2> QED BY <1>1, <1>2, <2>1, <2>2, EarlyStep DEF Early
<1> QED BY <1>3, <1>4

LEMMA DownloadStep ==
  ASSUME IInv, DownloadBegins \/ DownloadEnds PROVE IInv'
<1>1. /\ phase \in Early \ {"queued"} /\ phase' \in Early \ {"queued"}
      /\ UNCHANGED <<release, process, target, installed, marker, worker, last, history,
                     requests, quits>>
  BY DEF DownloadBegins, DownloadEnds, Early, bounds
<1>2. faults' \in 0..MaxFaults
  BY Faults DEF DownloadBegins, DownloadEnds, bounds, NoFault, IInv
<1>3. file' \in [Versions -> {"none", "partial", "whole", "bad"}]
  BY DEF IInv, TypeOK, DownloadBegins, DownloadEnds
<1>4. TypeOK'
  BY <1>1, <1>2, <1>3 DEF IInv, TypeOK, Early, Phases, process, history
<1>5. CASE ~overlapped
  <2>1. target \in Versions /\ target >= running /\ target >= installed
    BY <1>1, <1>5 DEF IInv, GoesUp
  <2> QED BY <1>1, <1>4, <2>1, EarlyStep DEF history
<1>6. CASE overlapped
  BY <1>1, <1>4, <1>6 DEF IInv, Process, Early, process, history
<1> QED BY <1>5, <1>6

LEMMA GivesUpStep ==
  ASSUME IInv, FindsNoRelease \/ DownloadFails \/ DoesNotLaunch PROVE IInv'
<1>1. /\ phase \in Early
      /\ Fails(target)
      /\ UNCHANGED <<release, process, target, installed, marker, worker, history,
                     requests, quits>>
  BY DEF FindsNoRelease, DownloadFails, DoesNotLaunch, Early, disk
<1>2. faults' \in 0..MaxFaults
  BY Faults DEF FindsNoRelease, DownloadFails, DoesNotLaunch, IInv
<1>3. file' \in [Versions -> {"none", "partial", "whole", "bad"}]
  BY DEF IInv, TypeOK, FindsNoRelease, DownloadFails, DoesNotLaunch, disk
<1>4. phase' = "failed" /\ last' = [status |-> "failed", version |-> target]
  BY <1>1 DEF Fails
<1>5. TypeOK'
  BY <1>1, <1>2, <1>3, <1>4 DEF IInv, TypeOK, Phases, process, history
<1> QED BY <1>1, <1>4, <1>5, EarlyStep DEF history

LEMMA LaunchesStep ==
  ASSUME IInv, Launches PROVE IInv'
<1>1. /\ phase = "verifying" /\ phase' = "preparing"
      /\ file[target] = "whole" /\ Goes(target, "boot")
      /\ UNCHANGED <<release, process, target, disk, last, history, bounds>>
  BY DEF Launches
<1>2. Process'
  BY <1>1 DEF IInv, Process, process, disk
<1>3. CASE target \in Versions
  <2>1. /\ worker' \in [Versions -> WorkerSteps]
        /\ worker'[target] = "boot"
        /\ \A w \in Versions \ {target} : worker'[w] = worker[w]
    BY <1>1, <1>3, Went DEF IInv, WorkerSteps
  <2>2. TypeOK'
    BY <1>1, <2>1 DEF IInv, TypeOK, Phases, process, disk, history, bounds
  <2>3. ASSUME ~overlapped' PROVE OneWorker' /\ GoesUp' /\ Truthful'
    <3>1. ~overlapped /\ \A v \in Versions : ~Alive(v)
      BY <1>1, <2>3 DEF IInv, OneWorker, Early, history
    <3>2. \A v \in Versions \ {target} : worker'[v] = "none"
      BY <2>1, <3>1 DEF Alive
    <3>3. OneWorker'
      BY <1>1, <3>2 DEF OneWorker, Alive, Early
    <3>4. GoesUp'
      BY <1>1, <3>1, <3>2 DEF IInv, GoesUp, Early, BeforeReplacing, process, disk
    <3>5. Truthful'
      BY <1>1, <2>1, <3>1, <3>2 DEF IInv, Truthful, AfterReplacing, process, disk
    <3> QED BY <3>3, <3>4, <3>5
  <2> QED BY <1>2, <2>2, <2>3 DEF IInv
<1>4. CASE target \notin Versions
  <2>1. worker' = worker
    BY <1>1, <1>4 DEF IInv, TypeOK, Goes
  <2>2. TypeOK'
    BY <1>1, <2>1 DEF IInv, TypeOK, Phases, process, disk, history, bounds
  <2>3. overlapped
    BY <1>1, <1>4 DEF IInv, GoesUp, Early
  <2> QED BY <1>1, <1>2, <2>2, <2>3 DEF IInv, history
<1> QED BY <1>3, <1>4

LEMMA HandoffStep ==
  ASSUME IInv, SeesWorker \/ FailsAfterLaunch PROVE IInv'
<1>1. /\ phase = "preparing" /\ phase' \in {"closing", "failed"}
      /\ last'.status # "success"
      /\ last' \in [status: {"none", "handoff_started", "failed", "success"}, version: 0..MaxVersion]
      /\ UNCHANGED <<release, process, target, disk, worker, history, requests, quits>>
  BY DEF IInv, TypeOK, SeesWorker, FailsAfterLaunch, Fails, bounds
<1>2. faults' \in 0..MaxFaults
  BY Faults DEF SeesWorker, FailsAfterLaunch, NoFault, bounds, IInv
<1>3. TypeOK'
  BY <1>1, <1>2 DEF IInv, TypeOK, Phases, process, disk, history
<1>4. Process'
  BY <1>1 DEF IInv, Process, process, disk
<1>5. ASSUME ~overlapped' PROVE OneWorker' /\ GoesUp' /\ Truthful'
  <2>1. OneWorker'
    BY <1>1, <1>5 DEF IInv, OneWorker, Alive, Early, history
  <2>2. GoesUp'
    BY <1>1, <1>5 DEF IInv, GoesUp, Early, process, disk, history
  <2>3. Truthful'
    BY <1>1, <1>5 DEF IInv, Truthful, process, disk, history
  <2> QED BY <2>1, <2>2, <2>3
<1> QED BY <1>3, <1>4, <1>5 DEF IInv

-----------------------------------------------------------------------------
(* The process of EGM                                                       *)

\* Its end, by whomever.
LEMMA EndsStep ==
  ASSUME IInv, Exits \/ UserQuits PROVE IInv'
<1>1. /\ egm' = "down" /\ phase' = "idle"
      /\ UNCHANGED <<release, running, target, disk, worker, last, history, requests, faults>>
  BY DEF Exits, UserQuits, Ends, bounds
<1>2. TypeOK'
  <2>1. quits' \in 0..MaxQuits
    BY UpdateAssumption DEF IInv, TypeOK, Exits, UserQuits, bounds
  <2> QED BY <1>1, <2>1 DEF IInv, TypeOK, Phases, disk, history
<1>3. Process'
  BY <1>1 DEF Process
<1>4. ASSUME ~overlapped' PROVE OneWorker' /\ GoesUp' /\ Truthful'
  <2>1. OneWorker'
    BY <1>1, <1>4 DEF IInv, OneWorker, Alive, Early, history
  <2>2. GoesUp'
    BY <1>1, <1>4 DEF IInv, GoesUp, Early, disk, history
  <2>3. Truthful'
    BY <1>1, <1>4 DEF IInv, Truthful, disk, history
  <2> QED BY <2>1, <2>2, <2>3
<1> QED BY <1>2, <1>3, <1>4 DEF IInv

\* A start runs the files in place.  They are no older than what has run.
LEMMA Started ==
  ASSUME IInv, StartsEgm
  PROVE  /\ egm' \in {"down", "starting", "up"} /\ running' \in Versions
         /\ (phase # "idle" => egm' = "up")
         /\ (egm' # "down" => installed <= running')
         /\ (~overlapped => /\ running <= running'
                            /\ running' = running \/ running' = installed
                            /\ installed = 0 \/ installed >= running')
<1>1. CASE egm = "down" /\ installed # 0
  <2>1. egm' = "starting" /\ running' = installed
    BY <1>1 DEF StartsEgm
  <2>2. installed \in Versions /\ running \in Versions
    BY <1>1, UpdateAssumption DEF IInv, TypeOK, Versions
  <2> QED BY <1>1, <2>1, <2>2 DEF IInv, Process, GoesUp, Versions
<1>2. CASE ~(egm = "down" /\ installed # 0)
  <2>1. egm' = egm /\ running' = running
    BY <1>2 DEF StartsEgm, process
  <2>2. running \in Versions /\ egm \in {"down", "starting", "up"}
    BY DEF IInv, TypeOK
  <2> QED BY <1>2, <2>1, <2>2 DEF IInv, Process, GoesUp, Versions
<1> QED BY <1>1, <1>2

LEMMA StartOfEgmStep ==
  ASSUME IInv, StartsUp \/ StartStumbles PROVE IInv'
<1>1. /\ egm = "starting" /\ egm' \in {"down", "up"}
      /\ UNCHANGED <<release, running, installed, phase, target, file, worker, overlapped, bounds>>
  BY DEF StartsUp, StartStumbles, disk, history
<1>2. /\ marker' \in [version: 0..MaxVersion, ok: BOOLEAN, whole: BOOLEAN]
      /\ marker'.ok => marker' = marker
  <2>1. CASE marker' = NoMarker
    BY <2>1, Numbers DEF IInv, NoMarker
  <2>2. CASE marker' = marker
    BY <2>2 DEF IInv, TypeOK
  <2> QED BY <2>1, <2>2 DEF StartsUp, StartStumbles, disk
<1>3. /\ last' \in [status: {"none", "handoff_started", "failed", "success"}, version: 0..MaxVersion]
      /\ last'.status = "success" => last' = last \/ (marker.ok /\ last'.version = marker.version)
  BY DEF IInv, TypeOK, StartsUp, StartStumbles
<1>4. stumbled' \in BOOLEAN /\ stranded' \in BOOLEAN
  BY DEF IInv, TypeOK, StartsUp, StartStumbles, history
<1>5. TypeOK'
  BY <1>1, <1>2, <1>3, <1>4 DEF IInv, TypeOK, bounds
<1>6. Process'
  BY <1>1 DEF IInv, Process
<1>7. ASSUME ~overlapped' PROVE OneWorker' /\ GoesUp' /\ Truthful'
  <2>1. OneWorker' /\ GoesUp'
    BY <1>1, <1>7 DEF IInv, OneWorker, GoesUp, Alive
  <2>2. Truthful'
    BY <1>1, <1>2, <1>3, <1>7 DEF IInv, Truthful
  <2> QED BY <2>1, <2>2
<1> QED BY <1>5, <1>6, <1>7 DEF IInv

LEMMA UserStartsStep ==
  ASSUME IInv, UserStarts PROVE IInv'
<1>1. /\ egm = "down" /\ egm' = "starting" /\ running' = installed
      /\ UNCHANGED <<release, phase, target, disk, worker, last, history, bounds>>
  BY DEF UserStarts, StartsEgm
<1>2. /\ running' \in Versions /\ phase = "idle" /\ installed <= running'
      /\ ~overlapped => running <= running'
  <2>1. StartsEgm /\ egm' # "down"
    BY <1>1 DEF UserStarts
  <2>2. phase = "idle"
    BY <1>1 DEF IInv, Process
  <2> QED BY <2>1, <2>2, Started
<1>3. TypeOK'
  BY <1>1, <1>2 DEF IInv, TypeOK, disk, history, bounds
<1>4. Process'
  BY <1>1, <1>2 DEF IInv, Process, disk
<1>5. ASSUME ~overlapped' PROVE OneWorker' /\ GoesUp' /\ Truthful'
  <2>1. OneWorker'
    BY <1>1, <1>5 DEF IInv, OneWorker, Alive, history
  <2>2. GoesUp'
    BY <1>1, <1>2, <1>5 DEF IInv, GoesUp, Early, disk, history
  <2>3. Truthful'
    <3>1. /\ marker.ok => marker.version <= running'
          /\ last.status = "success" => last.version <= running'
      <4>1. running \in Nat /\ running' \in Nat /\ marker.version \in Nat /\ last.version \in Nat
        BY <1>2, Numbers DEF IInv
      <4>2. /\ running <= running'
            /\ marker.ok => marker.version <= running
            /\ last.status = "success" => last.version <= running
        BY <1>1, <1>2, <1>5 DEF IInv, Truthful, history
      <4> QED BY <4>1, <4>2
    <3> QED BY <3>1, <1>1, <1>5 DEF IInv, Truthful, AfterReplacing, disk, history
  <2> QED BY <2>1, <2>2, <2>3
<1> QED BY <1>3, <1>4, <1>5 DEF IInv

LEMMA PublishesStep ==
  ASSUME IInv, Publishes PROVE IInv'
<1>1. /\ release' = release + 1 /\ release < MaxVersion
      /\ UNCHANGED <<process, phase, target, disk, worker, last, history, bounds>>
  BY DEF Publishes
<1>2. TypeOK'
  BY <1>1, UpdateAssumption DEF IInv, TypeOK, Versions, process, disk, history, bounds
<1> QED BY <1>1, <1>2 DEF IInv, Process, OneWorker, GoesUp, Truthful, Alive, process, disk, history

-----------------------------------------------------------------------------
(* EGMUpdateWorker                                                          *)

\* While the only worker works no installation is at its beginning.
LEMMA Alone ==
  ASSUME IInv, ~overlapped, NEW v \in Versions, Alive(v), NEW step \in WorkerSteps, Goes(v, step),
         phase' \in {phase, "idle"}
  PROVE  /\ worker'[v] = step
         /\ \A w \in Versions \ {v} : worker'[w] = "none"
         /\ phase \notin Early /\ phase' \notin Early
         /\ OneWorker'
<1>1. worker'[v] = step /\ \A w \in Versions \ {v} : worker'[w] = worker[w]
  BY Went DEF IInv
<1>2. \A w \in Versions \ {v} : worker[w] = "none"
  BY DEF IInv, OneWorker, Alive
<1>3. phase \notin Early /\ phase' \notin Early
  BY DEF IInv, OneWorker, Early
<1> QED BY <1>1, <1>2, <1>3 DEF OneWorker, Alive

\* A worker that waits, starts the installer or writes its marker.
LEMMA MovesOn ==
  ASSUME IInv, TypeOK', NEW v \in Versions, Alive(v), NEW step \in WorkerSteps, Goes(v, step),
         UNCHANGED <<process, installed, file, phase, target, last, overlapped>>,
         step \in BeforeReplacing => worker[v] \in BeforeReplacing,
         step \in AfterReplacing => worker[v] \in {"open marker", "write marker"},
         \/ marker' = marker
         \/ marker'.version = v /\ (marker'.ok => worker[v] \in {"open marker", "write marker"})
  PROVE  IInv'
<1>1. Process'
  BY DEF IInv, Process, process
<1>2. ASSUME ~overlapped' PROVE OneWorker' /\ GoesUp' /\ Truthful'
  <2>1. /\ worker'[v] = step
        /\ \A w \in Versions \ {v} : worker'[w] = "none"
        /\ phase \notin Early
        /\ OneWorker'
    BY <1>2, Alone
  <2>2. GoesUp'
    BY <1>2, <2>1 DEF IInv, GoesUp, BeforeReplacing, process
  <2>3. worker[v] \in {"open marker", "write marker"} => installed = v /\ running = v
    BY <1>2 DEF IInv, Truthful, AfterReplacing
  <2>4. marker'.ok => marker'.version <= running
    <3>1. running \in Nat
      BY Numbers DEF IInv
    <3>2. CASE marker' = marker
      <4>1. marker.ok => marker.version <= running
        BY <1>2 DEF IInv, Truthful
      <4> QED BY <4>1, <3>2
    <3>3. CASE marker'.version = v /\ (marker'.ok => worker[v] \in {"open marker", "write marker"})
      BY <3>1, <3>3, <2>3, Order
    <3> QED BY <3>2, <3>3
  <2>5. Truthful'
    BY <1>2, <2>1, <2>3, <2>4 DEF IInv, Truthful, AfterReplacing, process
  <2> QED BY <2>1, <2>2, <2>5
<1> QED BY <1>1, <1>2 DEF IInv

LEMMA WorkerWaitsStep ==
  ASSUME IInv, NEW v \in Versions,
         \/ WorkerBoots(v) \/ WorkerGivesUp(v) \/ SetupStarts(v) \/ SetupDoesNotStart(v)
         \/ CannotRestart(v) \/ FallbackFails(v)
  PROVE  IInv'
<1> USE DEF WorkerBoots, WorkerGivesUp, SetupStarts, SetupDoesNotStart, CannotRestart, FallbackFails
<1>1. PICK step \in {"none", "wait", "setup", "open failure"} :
        /\ Goes(v, step)
        /\ step \in {"wait", "setup"} => worker[v] \in {"boot", "wait"}
  OBVIOUS
<1>2. /\ Alive(v)
      /\ UNCHANGED <<release, process, phase, target, disk, last, overlapped, stumbled, requests, quits>>
  BY DEF Alive, history, bounds
<1>3. faults' \in 0..MaxFaults /\ stranded' \in BOOLEAN
  <2>1. faults' \in 0..MaxFaults
    BY Faults DEF NoFault, bounds, IInv
  <2>2. stranded' \in {stranded, TRUE}
    BY DEF history
  <2> QED BY <2>1, <2>2 DEF IInv, TypeOK
<1>4. worker' \in [Versions -> WorkerSteps]
  BY <1>1, Went DEF IInv, WorkerSteps
<1>5. TypeOK'
  BY <1>2, <1>3, <1>4 DEF IInv, TypeOK, process, disk
<1> QED
  BY <1>1, <1>2, <1>5, MovesOn DEF BeforeReplacing, AfterReplacing, WorkerSteps, disk

LEMMA MarkerStep ==
  ASSUME IInv, NEW v \in Versions, OpensMarker(v) \/ WritesMarker(v) \/ MarkerFails(v)
  PROVE  IInv'
<1>1. PICK step \in {"none", "write marker", "write failure", "fallback"} :
        /\ Goes(v, step)
        /\ step = "write marker" => worker[v] = "open marker"
  BY DEF OpensMarker, WritesMarker, MarkerFails
<1>2. /\ Alive(v)
      /\ UNCHANGED <<release, process, phase, target, installed, file, last, history,
                     requests, quits>>
  BY DEF OpensMarker, WritesMarker, MarkerFails, Alive, disk, bounds
<1>3. \/ marker' = marker
      \/ /\ marker' \in [version: 0..MaxVersion, ok: BOOLEAN, whole: BOOLEAN]
         /\ marker'.version = v /\ (marker'.ok => worker[v] \in {"open marker", "write marker"})
  <2>1. v \in 0..MaxVersion
    BY Numbers DEF IInv
  <2>2. CASE OpensMarker(v)
    BY <2>1, <2>2 DEF OpensMarker
  <2>3. CASE WritesMarker(v)
    BY <2>1, <2>3 DEF WritesMarker
  <2> QED BY <2>2, <2>3 DEF MarkerFails, disk
<1>4. faults' \in 0..MaxFaults
  BY Faults DEF OpensMarker, WritesMarker, MarkerFails, NoFault, bounds, IInv
<1>5. worker' \in [Versions -> WorkerSteps]
  BY <1>1, Went DEF IInv, WorkerSteps
<1>6. TypeOK'
  BY <1>2, <1>3, <1>4, <1>5 DEF IInv, TypeOK, process, history
<1> QED
  BY <1>1, <1>2, <1>3, <1>6, MovesOn DEF BeforeReplacing, AfterReplacing, WorkerSteps, history

LEMMA SetupStopsEgmStep ==
  ASSUME IInv, NEW v \in Versions, SetupStopsEgm(v) PROVE IInv'
<1>1. /\ worker[v] = "setup" /\ Alive(v) /\ Goes(v, "replace")
      /\ egm' = "down" /\ phase' = "idle"
      /\ UNCHANGED <<release, running, target, disk, last, history, bounds>>
  BY DEF SetupStopsEgm, Ends, Alive
<1>2. worker' \in [Versions -> WorkerSteps]
  BY <1>1, Went DEF IInv, WorkerSteps
<1>3. TypeOK' /\ Process'
  BY <1>1, <1>2 DEF IInv, TypeOK, Process, Phases, disk, history, bounds
<1>4. ASSUME ~overlapped' PROVE OneWorker' /\ GoesUp' /\ Truthful'
  <2>1. /\ worker'[v] = "replace"
        /\ \A w \in Versions \ {v} : worker'[w] = "none"
        /\ OneWorker'
    BY <1>1, <1>4, Alone DEF WorkerSteps, history
  <2>2. GoesUp'
    BY <1>1, <1>4, <2>1 DEF IInv, GoesUp, Early, BeforeReplacing, disk, history
  <2>3. Truthful'
    BY <1>1, <1>4, <2>1 DEF IInv, Truthful, AfterReplacing, disk, history
  <2> QED BY <2>1, <2>2, <2>3
<1> QED BY <1>3, <1>4 DEF IInv

LEMMA SetupReplacesStep ==
  ASSUME IInv, NEW v \in Versions, SetupReplaces(v) PROVE IInv'
<1>1. /\ worker[v] = "replace" /\ Alive(v) /\ Goes(v, "restart")
      /\ egm = "down" /\ installed' = v
      /\ UNCHANGED <<release, process, phase, target, file, marker, last, history, bounds>>
  BY DEF SetupReplaces, Alive
<1>2. worker' \in [Versions -> WorkerSteps] /\ v \in 0..MaxVersion
  BY <1>1, Went, Numbers DEF IInv, WorkerSteps
<1>3. TypeOK' /\ Process'
  BY <1>1, <1>2 DEF IInv, TypeOK, Process, process, history, bounds
<1>4. ASSUME ~overlapped' PROVE OneWorker' /\ GoesUp' /\ Truthful'
  <2>1. /\ worker'[v] = "restart"
        /\ \A w \in Versions \ {v} : worker'[w] = "none"
        /\ phase \notin Early /\ OneWorker'
    BY <1>1, <1>4, Alone DEF WorkerSteps, history
  <2>2. v >= running
    BY <1>1, <1>4 DEF IInv, GoesUp, BeforeReplacing, history
  <2>3. GoesUp'
    BY <1>1, <2>1, <2>2 DEF GoesUp, BeforeReplacing, process
  <2>4. Truthful'
    BY <1>1, <1>4, <2>1 DEF IInv, Truthful, AfterReplacing, process, history
  <2> QED BY <2>1, <2>3, <2>4
<1> QED BY <1>3, <1>4 DEF IInv

LEMMA SetupFailsStep ==
  ASSUME IInv, NEW v \in Versions, SetupFails(v) PROVE IInv'
<1>1. /\ worker[v] = "replace" /\ Alive(v) /\ Goes(v, "open failure")
      /\ installed' \in {installed, 0}
      /\ UNCHANGED <<release, process, phase, target, file, marker, last, history, requests, quits>>
  BY DEF SetupFails, Alive
<1>2. worker' \in [Versions -> WorkerSteps] /\ faults' \in 0..MaxFaults
  BY <1>1, Went, Faults DEF IInv, WorkerSteps, SetupFails
<1>3. TypeOK'
  <2>1. installed' \in 0..MaxVersion
    BY <1>1, Numbers DEF IInv, TypeOK
  <2> QED BY <2>1, <1>1, <1>2 DEF IInv, TypeOK, process, history
<1>4. Process'
  <2>1. running \in Nat /\ installed \in Nat
    BY Numbers DEF IInv
  <2>2. (installed' = installed \/ installed' = 0) /\ running' = running
    BY <1>1 DEF process
  <2>3. installed <= running => installed' <= running'
    BY <2>1, <2>2
  <2> QED BY <2>3, <1>1 DEF IInv, Process, process
<1>5. ASSUME ~overlapped' PROVE OneWorker' /\ GoesUp' /\ Truthful'
  <2>1. /\ worker'[v] = "open failure"
        /\ \A w \in Versions \ {v} : worker'[w] = "none"
        /\ phase \notin Early /\ OneWorker'
    BY <1>1, <1>5, Alone DEF WorkerSteps, history
  <2>2. GoesUp'
    BY <1>1, <1>5, <2>1 DEF IInv, GoesUp, BeforeReplacing, process, history
  <2>3. Truthful'
    BY <1>1, <1>5, <2>1 DEF IInv, Truthful, AfterReplacing, process, history
  <2> QED BY <2>1, <2>2, <2>3
<1> QED BY <1>3, <1>4, <1>5 DEF IInv

LEMMA RestartStep ==
  ASSUME IInv, NEW v \in Versions, RestartsEgm(v) \/ FallbackRestarts(v) PROVE IInv'
<1>1. /\ Alive(v) /\ StartsEgm
      /\ UNCHANGED <<release, phase, target, disk, last, history, bounds>>
  BY DEF RestartsEgm, FallbackRestarts, Alive
<1>2. PICK step \in {"none", "open marker"} :
        /\ Goes(v, step)
        /\ step = "open marker" => worker[v] = "restart" /\ installed # 0
  BY DEF RestartsEgm, FallbackRestarts
<1>3. /\ egm' \in {"down", "starting", "up"} /\ running' \in Versions
      /\ phase # "idle" => egm' = "up"
      /\ egm' # "down" => installed <= running'
      /\ ~overlapped => /\ running <= running'
                        /\ running' = running \/ running' = installed
                        /\ installed = 0 \/ installed >= running'
  BY <1>1, Started
<1>4. worker' \in [Versions -> WorkerSteps]
  BY <1>2, Went DEF IInv, WorkerSteps
<1>5. TypeOK' /\ Process'
  BY <1>1, <1>3, <1>4 DEF IInv, TypeOK, Process, disk, history, bounds
<1>6. ASSUME ~overlapped' PROVE OneWorker' /\ GoesUp' /\ Truthful'
  <2>1. /\ worker'[v] = step
        /\ \A w \in Versions \ {v} : worker'[w] = "none"
        /\ phase \notin Early /\ OneWorker'
    BY <1>1, <1>2, <1>6, Alone DEF WorkerSteps, history
  <2>2. GoesUp'
    BY <1>1, <1>3, <1>6, <2>1 DEF IInv, GoesUp, BeforeReplacing, disk, history
  <2>3. step = "open marker" => installed = v /\ running' = v
    <3>1. step = "open marker" => installed = v /\ egm' # "down"
      BY <1>1, <1>2, <1>6 DEF IInv, Truthful, AfterReplacing, StartsEgm, process, history
    <3>2. running' \in Nat /\ installed \in Nat
      BY <1>3, Numbers DEF IInv
    <3>3. /\ egm' # "down" => installed <= running'
          /\ installed = 0 \/ installed >= running'
      BY <1>1, <1>3, <1>6 DEF history
    <3>4. step = "open marker" => installed # 0
      BY <1>2
    <3> QED BY <3>1, <3>2, <3>3, <3>4, Order
  <2>4. /\ marker.ok => marker.version <= running'
        /\ last.status = "success" => last.version <= running'
    <3>1. running \in Nat /\ running' \in Nat /\ marker.version \in Nat /\ last.version \in Nat
      BY <1>3, Numbers DEF IInv
    <3>2. /\ running <= running'
          /\ marker.ok => marker.version <= running
          /\ last.status = "success" => last.version <= running
      BY <1>1, <1>3, <1>6 DEF IInv, Truthful, history
    <3> QED BY <3>1, <3>2, Order
  <2>5. Truthful'
    BY <1>1, <2>1, <2>3, <2>4 DEF Truthful, AfterReplacing, disk
  <2> QED BY <2>1, <2>2, <2>5
<1> QED BY <1>5, <1>6 DEF IInv

-----------------------------------------------------------------------------
LEMMA InvInit == Init => IInv
<1> SUFFICES ASSUME Init PROVE IInv
  OBVIOUS
<1>1. TypeOK
  <2>1. /\ release \in Versions /\ running \in Versions
        /\ installed \in 0..MaxVersion /\ target \in 0..MaxVersion
        /\ requests \in 0..MaxRequests /\ faults \in 0..MaxFaults /\ quits \in 0..MaxQuits
    BY UpdateAssumption DEF Init, Versions
  <2>2. /\ marker \in [version: 0..MaxVersion, ok: BOOLEAN, whole: BOOLEAN]
        /\ last \in [status: {"none", "handoff_started", "failed", "success"},
                     version: 0..MaxVersion]
    <3>1. 0 \in 0..MaxVersion
      BY UpdateAssumption
    <3> QED BY <3>1 DEF Init, NoMarker, NoResult
  <2>3. /\ egm \in {"down", "starting", "up"} /\ phase \in Phases
        /\ file \in [Versions -> {"none", "partial", "whole", "bad"}]
        /\ worker \in [Versions -> WorkerSteps]
    BY DEF Init, Phases, WorkerSteps
  <2>4. overlapped \in BOOLEAN /\ stumbled \in BOOLEAN /\ stranded \in BOOLEAN
    BY DEF Init
  <2> QED BY <2>1, <2>2, <2>3, <2>4 DEF TypeOK
<1>2. Process
  BY DEF Init, Process
<1>3. OneWorker /\ GoesUp /\ Truthful
  BY DEF Init, OneWorker, GoesUp, Truthful, Alive, Early, BeforeReplacing, AfterReplacing,
         NoMarker, NoResult
<1> QED BY <1>1, <1>2, <1>3 DEF IInv

LEMMA InvStep == IInv /\ [Next]_vars => IInv'
<1> SUFFICES ASSUME IInv, [Next]_vars PROVE IInv'
  OBVIOUS
<1>1. CASE InstallUpdate
  BY <1>1, InstallUpdateStep
<1>2. CASE Install
  BY <1>2, ChecksReleaseStep, DownloadStep, GivesUpStep, LaunchesStep, HandoffStep, EndsStep
  DEF Install
<1>3. ASSUME NEW v \in Versions, Worker(v) PROVE IInv'
  BY <1>3, WorkerWaitsStep, MarkerStep, SetupStopsEgmStep, SetupReplacesStep, SetupFailsStep,
     RestartStep
  DEF Worker
<1>4. CASE Start
  BY <1>4, StartOfEgmStep DEF Start
<1>5. CASE UserStarts \/ UserQuits \/ Publishes
  BY <1>5, UserStartsStep, EndsStep, PublishesStep
<1>6. CASE UNCHANGED vars
  BY <1>6 DEF IInv, TypeOK, Process, OneWorker, GoesUp, Truthful, Alive, vars
<1> QED BY <1>1, <1>2, <1>3, <1>4, <1>5, <1>6 DEF Next

LEMMA InvAlways == Spec => []IInv
BY InvInit, InvStep, PTL DEF Spec

\* The installer that the worker starts is the one whose checksum was verified
\* (app_update.py: _run_install; EGMUpdateWorker.cs: Main).
THEOREM OnlyVerifiedInstallersRun == Spec => []VerifiedOnly
<1>1. IInv => VerifiedOnly
  BY DEF IInv, GoesUp, BeforeReplacing, VerifiedOnly
<1> QED BY <1>1, InvAlways, PTL

\* A success that EGM reports is true: the version that was asked for, or a
\* later one, runs (app_update.py: consume_completion_marker).
THEOREM ReportedSuccessIsTrue == Spec => []SuccessIsTrue
<1>1. IInv => SuccessIsTrue
  <2> SUFFICES ASSUME IInv, ~overlapped, last.status = "success" PROVE running >= last.version
    BY DEF SuccessIsTrue
  <2> QED BY UpdateAssumption DEF IInv, TypeOK, Truthful, Versions
<1> QED BY <1>1, InvAlways, PTL
=============================================================================
