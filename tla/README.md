# Exiles Game Manager in TLA+

Exiles Game Manager (EGM) runs Palworld and Conan Exiles dedicated servers on a
Windows host: a FastAPI backend (`src/app`), a web interface, a desktop shell and
a small C# program that installs updates (`src/update_worker`). This directory
holds TLA+ models of the backend's own logic, the TLC configurations that check
them and TLAPS proofs about them.

The backend is one process with one asyncio event loop. A handler, a worker or a
scheduled job runs alone between two `await`s; blocking work (file copies,
processes, sockets) runs in threads through `asyncio.to_thread`. What is hard in
this program comes from there: state read before an `await` or outside a lock and
used after it, threads that overlap, requests that run beside the task queue, and
a process that may end at any point, also on purpose (`os._exit` of an update).
There are no tests in the repository.

## Inventory

| Part | State | Operations | Talks to | What makes it correct |
|---|---|---|---|---|
| Task queue (`task_queue.py`) | `_tasks` and its file, the priority queue, three workers, instance locks, waiters | enqueue, enqueue_and_wait, cancel, pause, resume, retry, clear, external tasks, the worker loop, checkpoints, load | almost every long operation is one of its tasks; scheduler and routes wait in it | one task per instance; nothing queued is forgotten; endings are final; callers get an answer; a restart leaves nothing half-alive |
| Backups (`backup_service.py`, `safe_replace.py`, `save_import_service.py`) | Saved, backup folders with `meta.json`, `.staged-*` and `.rollback-*` siblings | backup, verify, restore, import, delete, retention | task queue, process managers, the game's own writes | listed backups are whole; a restore is all or nothing; no world loses its last copy |
| Control of Palworld and Conan servers (`process_manager.py`, `conan_process_manager.py`, providers, `server_control.py`) | `_processes`, `_stopping`, `_recent_intentional_stop`, countdown tasks | start, stop, restart, countdown, get_status | the operating system, the game's REST API, scheduler, restore | never two servers on one world; marks are taken back; a stop stops; crashes are reported |
| Scheduler (`scheduler.py`) | what has fired, last states, in memory; `automation.json` | backups, warnings, restarts, health checks | task queue, process managers, broadcast | each occurrence fires once, in its window, after its warning; one held-up instance does not end the loop |
| Application update (`app_update.py`, `EGMUpdateWorker.cs`) | install state, job file, installer, completion marker | check, download, verify, hand over, exit, install, restart, report | the worker process, the installer, the start of EGM | what runs was verified, what is reported is true, EGM comes back |
| Instance store, ports, deployments (`instance_store.py`, `port_allocator.py`, `storage.py`, `deploy_jobs.py`) | `instances.json`, the settings of each server, `_jobs` | import, deploy, remove, ports, active server, repair on read | everything | no folder and no game, REST or query port twice; reads are repaired and agree; no lost update |
| Mods and Workshop (`steam_workshop.py`, `nexus_mod_service.py`, `mod_installer.py`, `manual_mod_service.py`, `pal_mod_settings.py`, `conan_workshop.py`) | `mods.json`, `modlist.txt`, `PalModSettings.ini`, folders, disabled and rollback copies, inventory | install, update, check, switch, remove, order, scan | Steam, SteamCMD, Nexus, task queue | what the game loads, what is listed and what was asked for agree |
| Nexus session (`nexus_session.py`, `nexus_oauth.py`) | one encrypted record, pending sign-ins | sign in, refresh, disconnect | Nexus web service | premium only with a premium token; a session is neither lost nor brought back |
| Users, sessions, throttle (`auth.py`, `session_store.py`, `login_throttle.py`) | user file, invite file, sessions and failures in memory | set-up, invite, register, login, logout, remove | routes | one super admin; one account per code; sessions of removed users end; the waiting time is true |
| Server update (`server_update.py`, `steamcmd.py`) | the queue's task | checkpoints | SteamCMD | pausing and cancelling work (in `TaskQueue`) |
| Notifications, settings files, network, diagnostics, desktop shell | records, INI text, none | append, parse, requests | - | data or pure I/O |

`PROJECT.json` lists these parts with their files ("components"), and under
"hazards" each place where the code can go wrong in a way a test hardly reaches,
with the properties that watch it.

## Modules

| Module | Models | Proofs |
|---|---|---|
| `TaskQueue` | `task_queue.py` with the operations of `routes/tasks.py` | `TaskQueueProofs` |
| `TaskLifecycle`, `TaskQueueRefinement` | abstract: what the queue promises, without queue, workers, locks and flags; the mapping that shows `TaskQueue` implements it | `TaskQueueProofs` |
| `Backups` | backup, restore, import, deletion and retention of one instance | `BackupsProofs` |
| `ProcessManager` | start, stop, countdown, status, restart and monitor of a Palworld server | `ServerControlProofs` |
| `ConanControl` | the same of a Conan Exiles server | |
| `ServerControl` | composes the two: the provider of an instance's game, on one state | `ServerControlProofs` |
| `Scheduler` | the loop of `scheduler.py` over all instances | `SchedulerProofs` |
| `AppUpdate` | EGM, its update workers, the installer and the start of EGM | `AppUpdateProofs` |
| `Instances` | `instance_store.py`, the routes over it, `deploy_jobs.py` | `InstancesProofs` |
| `ModsStore` | lists of `mods.json`: what is kept of one, its order (`mods_store.py`) | `ModsProofs` |
| `Mods` | mods of Palworld servers: Workshop, Nexus packages, PAK files, UE4SS folders | `ModsProofs` |
| `ConanPromises`, `ConanMods` | Workshop mods of a Conan server: `mods.json`, `modlist.txt`, the download folder; what users are promised of them, and how they change | `ModsProofs` |
| `NexusPromises`, `NexusSession` | the Nexus record: what is promised of it; sign-in, refresh, disconnect | `SessionsProofs` |
| `Accounts` | users, invites, sessions, throttle | `SessionsProofs` |
| `...MC` | constants and symmetry of these modules for TLC | |

A definition named at the end of a comment `Mutant: ...` is a variant of the one
before it with a plausible mistake. No specification uses it: it shows that a
property can fail.

### TaskQueue

One action is the code between two points that yield to the loop. `task` is
`_tasks`; because `_persist()` follows every change before the next yield, it is
also the file, and `Restart` loses everything else. `queue` holds the heap's
tuples `(-priority, time, id)`; equal tuples of one task are told apart by `copy`.
`lockQ[k]` is the asyncio lock of an instance: its holder, then its waiters in
order. `pc` and `hand` say where each worker is and with which task; `event` and
`caller` are the waiter's event and the coroutine in `enqueue_and_wait`.

- `Enqueue`, `EnqueueAndWait`, `Cancel`, `Pause`, `Resume`, `Retry`,
  `ClearCompleted`, `CreateExternal`, `BindExternal`, `FinishExternal` are the
  functions of these names. `retry` submits with `priority or 50`, and so does
  the reload: a priority of 0 becomes 50 (`OrDefault`).
- `PickSkips`, `PickPauses`, `PickBegins`, `PickWaits`, `LockGranted` are the
  outcomes of one turn of `_worker`. `Begin` is `_execute` up to the handler:
  the task is gone (KeyError, the worker sleeps a second), was cancelled, or
  starts. As in the code, the status is not looked at again after the wait.
- `Succeeds`, `Fails`, `FailsAndRequeues`, and `CheckpointX` are how a handler
  goes on; the handler's own work belongs to other modules. A cleared task leaves
  its key behind (`Popped`), for the lock a worker may be waiting for.
- `Restart` is the end of the process at any point, then `start()` with `_load`.

### Backups

`live` is the Saved directory, `aside` its `.rollback-*` siblings, `backups` the
folders by their time; a backup has a directory, a `meta.json`, is intact (its
files agree with the manifest) or being deleted. `op` is what each of two actors
is in the middle of: "queue" is the backup or restore of the task queue (one at a
time per instance, as `TaskQueue` shows), "import" the save import, which runs
beside the queue. Failing copies and renames (`Fault`), the game's writes
(`GameSaves`), the delete route and the end of the process (`Crash`) may come
between any two steps. A world that changes while it is copied is `Torn` in the
copy, and so is a copy into or out of a backup that is being removed: `CopyEnds`
builds its manifest from what is there then, and `verify_copy` compares with the
source as it is then. A removal, by the route (`DeleteStarts`) or by the retention
(`PruneStarts`), takes files one by one and ends in `RemovalEnds`, or never: the
retention ignores errors (`PruneEnds`). The retention begins with all its surplus in
one step. `taken` remembers what a backup was taken of, `robbed` that the retention
began to remove what an operation uses. The staged copy of a restore is in `op`; that of an import is inside Saved.
What is abstracted: file contents (a world is one value), hashing, retention by
age and by size (only `maxCount`), legacy backups, notes and export.

### ProcessManager

`proc` is what became of every process of the game, `tracked` is `_processes`,
`stopping` and `intent` are `_stopping` and `_recent_intentional_stop`. `start`
holds the lock from its first check to its last assignment and is one action;
`stop` is two locked sections with the killing in between; `get_status` reads,
scans and pops in three steps without or with the lock, as the code does. A game
is found by the scan of processes even if it is not tracked: after `EgmRestarts`
(a game outlives EGM) and after `LauncherExits` (PalServer.exe may hand its work
to its child). `StopRequest` is the provider's stop and restart and the scheduled
restart, `BareStopRequest` the stop of a restore, and the countdown may be
cancelled wherever it waits. An error of the REST request that the provider does not
catch ends the request between its mark and its stop (`RestRaises`), a registry that
cannot be read ends the stop (`StopRaises`), and a kill may leave the server alive
(`StopKills`). `seen` is the monitor's `_last_process_state`; the
state "starting" is not told apart from "online", the monitor treats them alike.
`due`, `asked` and `given_up` are history variables that only properties read.

### ConanControl and ServerControl

Conan's requests run on the event loop from beginning to end (`Loop`), restores
stop the server from threads of their own (`Restores`). `stop` of Conan takes the
lock for its marks only and looks for processes in between (`"read"`, `"scan"`,
`"kill"`, `"end"`): `met` is what was alive when the request began, `spared` what the
kill has left alive because the system refused it (`KillIsRefused`) or the launcher
exited before its tree was read (`LauncherExitsFirst`). `ServerControl`
puts an instance of either game on one state; for Conan the histories `mine` and
`given_up` stay unused. `PalworldDoes` and `ConanDoes` are the choice of the
provider in `registry.py` and of the monitor in `_check_instance`.

### Scheduler

Time is slots of a few minutes. `at` is the instance the loop is at, `step` where
in its check it is: awaiting the backup task, or in a stop or start of a restart.
`Check(i)` is `_check_instance`; `Wakes` goes on to the next instance. A slot
passes (`Tick`) after a round of the loop or while something holds it up, so that
late rounds happen exactly when a backup or a restart is slow. An exception ends
the check of its instance wherever it is raised (`Raises`): while the schedules are
loaded or the backup is awaited (`CheckBreaks`), after the warning or the restart
has been noted (`WarningBreaks`, `RestartBreaks`: it is not made up for), or in the
stop (`StopBreaks`); `RoundFails` is a registry that cannot be read. `warningFired`,
`restartFired` and the backup's day are the dictionaries of the module, lost by
`EgmRestarts`. `config` is what the current check has read, while
`SavesSchedule` may change `saved`. `steady`, `warnedAt`, `repeated` are history.

### AppUpdate

`phase` is `installPhase` and tells how far `_run_install` is; `worker[v]` is the
step of the detached worker in the folder of version v, `file[v]` its installer,
`marker` the `update-completed.json`, perhaps half written. EGM ends when the user quits
(`UserQuits`, at any time) or by its own `os._exit` (`Exits`). Each download, file operation, process start
and setup may fail. The installer is external: it replaces the files, fails, or
leaves no executable, and it ends EGM before. `overlapped`, `stumbled` and `stranded`
are the exceptions that the properties name: a second installation while the worker of
the first still waits, a start that meets the marker half written, and a worker that
ends without a start of EGM, because its job cannot be read or because the start in its
fallback fails after the failure it answers. That the worker's log cannot be written is
only seen as the failure of the step that follows it.

### Instances

`registry` is the list and the active server, `ini` the ports in each server's
settings. A record has its ports twice: `ports` stands for `gamePort`, `rconPort` and
`queryPort`, which Palworld is started with, `map` for the map `ports`, which pages,
deployments and the start of Conan (whose servers also use the port after the game
port) read. `Clean` is the repair of every `load`: distinct ids, distinct `ports` and an
active server; it fills in a missing map and otherwise leaves the maps alone, and so
they may meet (`MapsAreOwn`, below). A handler and a deployment's step are one action, since they await nothing
between load and save; a thread (`ThreadLoads`, `ThreadSaves`) loads in one and
saves in another. Ports are numbers up to `MaxPort`, allocation is the code's
search for the first free ones. `Legacy` are registries of earlier versions. There
are more than three ports for every folder (65535 of them), so that a search never
runs out of ports: `InstancesAssumption` says so. Deployments ask for any ports that
`validate_port_map` accepts; that another program has a port is left out.

### Mods and ConanMods

`Mods` holds for each of two servers its `mods.json`, the packages its
`PalModSettings.ini` names, and the versions in its folders, with the copies of an
interrupted install aside (`rollback`). A PAK file lies loose in `~mods` or in a
folder there; folders, of PAK files and of UE4SS mods, move when they are switched off
to a directory that all servers share (`staged`). `Foldered` are the PAK files whose archive has a
folder around them, `Named` the mods whose file or folder has their name: a scan
knows the record of a file by a path (`at`, which an upload does not record) or by
its name (`Claims`), and merges records by Nexus id, path or name (`Same`). What awaits
SteamCMD or a download is split there, with
the list it has read carried along; a fault may cut an install off half-way
(version 0 is half a copy), make a removal or a move fail (`RequestFails`), end EGM in
the middle of an update of all mods (`UpdatesCutOff`) or restart it. `ConanMods` is Conan's own page: the
tasks of a server run one at a time, pages and checks beside them read the list,
await Steam and save what they read. A save writes `mods.json` and then
`modlist.txt`; if the second write fails (`SavesHalf`), the task that saved ends there,
without the page it would have ended with. An order comes from a page that may be
older than the list, so `Reorder` takes one of any of the published mods. The part of
the state that users are promised something about stands in `ConanPromises`.
`wanted`, for Conan `asked`, is what users last asked for. An update of all mods
switches on whatever it updates, and puts back what was removed while it downloaded;
an install asked for before a removal does the same: `wanted` is then "overruled", and
`UpdatesKeepChoices` (below) says that this happens. `unsure`, `stale`, `undone`,
`torn` and `moved` mark the mods that a named mishap has reached, for which a property
is silent: of `unsure`, a fault, a neighbour who has taken the copy in `staged`, or a
request that was answered and not carried out.

### NexusSession

Between two awaits a handler is one step: `req` is what it waits for and what it
had read. Nexus (external) issues numbered tokens, honours a refresh token once and
may have spent it when its answer is lost. The part of the state that the promises
are about stands in `NexusPromises` with them. `disturbed` becomes true when two
refreshes overlap, when the record changes hands under one, or an answer is lost. Nexus
may answer any refresh with an error, also one whose token it honours (`Refuses`, the
replies "refused" and "unavailable"); `_refresh` then deletes the record whatever the
error is, and `signedIn`, what the user has reason to expect, ends with an "unavailable".

### Accounts

No handler awaits, so each is one action; registration is two writes with a
possible end between them. Whether a request comes from a super admin is looked at
before, in a thread (`Admits`): those who have passed are `admitted`, and what they ask
for may come after any other step (`Comes`). The same check drops expired sessions, and
may make the removal of a user's sessions fail half-way (the second branch of
`RemoveUser`, a fault). Sessions and failures are lost by `Restart`, a file that
cannot be read starts empty (`FileLost`). Time counts parts of a second, because
the throttle rounds.

## Runs

Every run finishes without an error.

| Run | Bounds | Shows |
|---|---|---|
| `queue_lifecycle` | 2 tasks, 2 workers, 2 keys, 1 retry, 1 restart; wait, cancel, retry, clear | `TypeOK`, `NoCallerLeftBehind`, `TerminalIsFinal`, `ImplementsLifecycle`, `QueuedIsWorkedOff`, `CallersReturn` |
| `queue_pause` | 2 tasks, 2 workers, 2 keys, 0 or 1 retries, no two equal entries in the queue; cancel, clear, pause, external | `SerializedPerInstance`, `QueuedIsScheduled`, `PausedIsHeld`, `ResumedGoesOn` |
| `backups_game` | 2 worlds, 4 backups of which 2 are kept, 4 operations, 2 faults, 1 crash, the game | `TypeOK`, `ListedIsWhole`, `RollbackPointKept`, `AllOrNothing` |
| `backups_beside` | 2 worlds and 1 to import, 3 backups of which 2 are kept, 4 operations, deletions among them, 2 faults, import and delete | `RestoredIsVerified`, `LastCopyKept` |
| `server_control` | both games, 3 processes, 2 callers (one the event loop), the monitor's polls, 3 requests, 1 restart, countdowns | `OneServer`, `StatusPasses`, `StopStops`, `CrashIsReported` |
| `scheduler_loop` | 3 instances, one of them Conan, days of 7 slots, window 3, 8 slots, a daily schedule or none, 1 change or exception | `RestartsOnce`, `NothingMissed`, `WarnedInTime`, `LoopComesRound` |
| `update_handoff` | 3 versions, 2 installations asked for, 2 faults, 1 quit by the user | `VerifiedOnly`, `SuccessIsTrue`, `ComesBack` |
| `instances_registry` | a folder of Palworld and one of Conan, 10 ports, 1 thread, 2 deployments, 3 registries of earlier versions, 3 operations | `ReadsAreClean`, `ReadsAgree` |
| `mods_servers` | 2 servers, one mod of each of four kinds, the second server with two of them, 1 or 2 versions, 4 operations, 1 fault | `LoadsAsWanted`, `ListedOnce`, `StatusIsTrue` |
| `conan_page` | 2 mods of 2 versions, 1 page or check, 4 operations, 1 fault | `GameLoadsTheList`, `ChoicesHold` |
| `nexus_account` | 2 handlers, 2 sign-ins, 3 tokens, 1 lost answer | `PremiumIsTrue`, `QuietSession` |
| `accounts_panel` | 2 names, 2 browsers, 4 random numbers, 3 moments, throttle after 2 failures, 1 fault | `OneSuperAdmin`, `CodeMakesOneAccount`, `SessionsHaveUsers`, `RetryAfterIsTrue` |

Why the bounds are enough. The queue: an interference needs a task in a worker's
hands and one that acts on it or on the same lock, so two tasks, two workers and
two keys give every pairing; a second retry or restart repeats the first. Pause
and the other optional operations are split over two runs because their product
is large: `Ops` names what a run has. `TerminalIsFinal` and the refinement are
stated where nobody pauses: with pauses they fail (see below). `PausedIsHeld` and
`ResumedGoesOn` are about tasks without automatic retries: a pause asked for while
an attempt fails is noticed by the worker that takes the task's next entry, the
task is then "paused" with `startedAt` set, and `resume` neither puts it back nor
finds a checkpoint. Backups: two kept of up to four made is enough for the
retention to reach a backup in use, two faults for a failing swap with a failing
put-back, and four operations for a restore after a restore. Control: three
processes give a launch after a launch after a death, two callers and a poll every
pair of overlapping threads; that the monitor's poll stands for all is enough
because polls share no state but the handle. The scheduler: two instances with schedules
give one that holds the loop up and one that waits for it, eight slots give a
second day. The update: a second installation of a newer version while the worker
of the first lives is the deepest case, a third version can be published
meanwhile, and a second fault meets the fallback of the first. The registry: two folders and their default ports with two custom ones
give collisions of every pair. Mods: one of each kind meets all code, the second
server has what can collide over the shared folder; its PAK file is uploaded loose and
has its mod's name (`Foldered`, `Named`), and gets a folder from an archive that has none. Nexus: three tokens give a
refresh of a refresh. Accounts: four numbers make an account, a code, a second
account and a session more.

`CHECK_DEADLOCK FALSE` stands in the configurations of the queue, the backups, the
servers and the update because requests are bounded there: a run ends when they are used up.
`QueuedIsWorkedOff`, `CallersReturn`, `ResumedGoesOn`, `CrashIsReported`,
`LoopComesRound` and `ComesBack` are what says that nothing gets stuck.

### Fairness

- `TaskQueue`: weak fairness of every worker and of every waiting caller. An
  event loop runs each ready coroutine, and every handler of `_dispatch` ends
  (downloads and copies have timeouts or ends of their own). Requests and
  restarts are never assumed to happen. A paused task may stay paused: no one
  has to resume it.
- `ServerControl`: weak fairness of every request's thread, of `get_status` and
  of the monitor's verdict. Threads run on, and the scheduler looks every ten
  seconds. Requests, deaths and restarts are not assumed.
- `Scheduler`: weak fairness of the loop, `Wakes` and the `Check` of each
  instance. A check that awaits a backup goes on when the task ends, which is what
  `CallersReturn` shows of the queue. Nothing outside and no exception is assumed.
- `AppUpdate`: weak fairness of the installation's task, of each worker (its waits
  have timeouts) and of the start of EGM. Requests, faults and quits are not assumed.
- The other modules have no liveness property: their operations are straight lines.

## Statements the code does not keep

These definitions state what the repository says of itself, and TLC finds a
counterexample to each. None stands in a configuration; to see the counterexample
name the definition as an INVARIANT or PROPERTY (the last column says which) of the
configuration given.

| Statement | Where | What happens | To see it |
|---|---|---|---|
| `TerminalIsFinal` with pauses (`TaskQueue`) | `task_queue.py:345` | pause and resume while the worker waits for the lock give the task a second entry; it is carried out a second time after it has completed | `TaskQueue_pause.cfg`, PROPERTY |
| `InterruptedFails` (`TaskQueue`): "interrupted running tasks fail safely", `CHANGELOG.md:1067` | `task_queue.py:135` | a task paused in its handler stays paused after a restart; `resume` finds nobody to wake, `retry` refuses it | `TaskQueue_pause.cfg` with `MaxRestarts = 1`, INVARIANT |
| `RestoreDelivers` (`Backups`): docstring at `backup_service.py:309` | `backup_service.py:340` | the snapshot before a restore lets the retention delete the very backup that is to be restored, if it is the oldest; the same of an import may remove it while it is copied, and the half is put in place | `Backups_game.cfg`, PROPERTY |
| `NeverLeftMissing` (`Backups`): "never left partially written", `safe_replace.py:12` | `safe_replace.py:143` | the end of the process between the two renames leaves no live directory, and nobody looks for `rollback-*` | `Backups_game.cfg`, INVARIANT |
| `LaunchedStaysTracked` (`ProcessManager`): `process_manager.py:303` | `process_manager.py:383` | a poll that found nothing before a start drops the handle of the server that was launched meanwhile; `stop` then finds nothing | `ServerControl_games.cfg` with `Games = {"palworld"}`, INVARIANT |
| `NoFalseAlarm` (`ProcessManager`): `process_manager.py:104` | `scheduler.py:177` | a poll that overlaps a restart reports the requested end as a crash | the same, INVARIANT |
| `MarkedStopComes` (`ProcessManager`): `server_control.py:32` | `server_control.py:400` | a countdown that is cancelled after it has set the mark, or an error of the shutdown request that `palworld_rest.py:78` does not name, leaves the status at "stopping" | the same, INVARIANT |
| `StoppedIsGone` (`ServerControl`): "Conan Exiles server stopped.", `conan_process_manager.py:353` | `conan_process_manager.py:267`, `:296`, `:336` | a kill that fails is ignored, and a launcher that exits just before its tree is read leaves its child out: the stop is reported, the game goes on | `ServerControl_games.cfg`, INVARIANT |
| `WarningIsTrue` (`Scheduler`): the warning's own text | `scheduler.py:92` | a late round gives the warning when the restart is due, and restarts in the same round | `Scheduler_loop.cfg`, PROPERTY |
| `DeployedIsRegistered` (`Instances`) | `instance_store.py:464` | a thread that loaded the list before a deployment registered its server, and saves it afterwards, drops the server | `Instances_registry.cfg`, INVARIANT |
| `MapsAreOwn` (`Instances`): "validates that Game and REST API ports do not collide", `CHANGELOG.md:1003` | `instance_store.py:212`, `:309`, `:412` | an import, Conan's settings and the repair write a map `ports` that another server's has a port of; Conan servers are started with what their map says | the same, INVARIANT |
| `KeepsOthers` (`Mods`) | `steam_workshop.py:605` | a check for updates saves the Workshop records only; the records of Nexus packages are gone from the list until the next scan | `Mods_servers.cfg`, PROPERTY |
| `UpdatesKeepChoices` (`Mods`) | `steam_workshop.py:392`, `:657` | an update of all mods switches every mod on that it updates, those included that users have switched off, and puts back those that they removed while it downloaded | the same, PROPERTY |
| `NeverTwice` (`Mods`) | `nexus_mod_service.py:529`, `:788`, `manual_mod_service.py:135` | the record of an uploaded PAK file has no path; if the file's folder, or the file, has another name than the mod, a scan takes it for another mod and lists it a second time | the same with `Foldered = {p}` and `Named = {}`, INVARIANT |
| `GameLoadsTheList` (`ConanMods`), where a file name comes back | `conan_workshop.py:323` | the mods page rewrites `modlist.txt` if the files found are others than `mods.json` says; switching a mod writes the new name to `modlist.txt` and leaves the old one in `mods.json`; if the next version has the old name again the page sees no difference, and the game is to load a file that is gone | `ConanMods_page.cfg` with one mod, `MaxVersion = 3` and `PakOf` first, other, first, INVARIANT |
| `DisconnectHolds` (`NexusPromises`): `TERMS_OF_SERVICE.md` | `nexus_session.py:102` | a refresh that was under way when the user disconnected saves its record afterwards | `NexusSession_account.cfg`, INVARIANT |

## Proofs

TLAPS checks, for every value of the constants that satisfies the ASSUMEs. Most of
these only say what kind of values the constants are. Those that say more:

- `SchedulerAssumption`: two schedules at different hours are further apart than the
  catch-up window (they name full hours, `scheduler.py` catches up for a quarter of
  one), and the window is at least a slot of the model's time.
- `NoneIsNoDirectory` (`Backups`): the mark for a missing directory is no directory.
- `ModsAssumption`: there are finitely many mods, and each is of one kind (Workshop
  items, Nexus packages, PAK files and UE4SS folders have identifiers of their own);
  `Foldered` and `Named` are about PAK files and UE4SS folders.
- `NamesDoNotReturn` (`ConanPromises`), of `ConanGameLoadsTheList` alone: a file name
  that a version of a Conan mod gives up is not that of a later version. Versions that
  all have one name satisfy it, and so do versions that each have their own. Without
  it the property fails: see the table above.
- `ConanModsAssumption`: Steam lists finitely many items, each with a first version.
- `InstancesAssumption`: there are finitely many folders and more than three ports
  for each, and a registry of an earlier version has no identifier twice.

| Module | Theorem | States |
|---|---|---|
| `TaskQueueProofs` | `TypeCorrect` | `TypeOK` |
| | `Serialization` | `SerializedPerInstance`, with pause, resume and restart |
| | `ExternalStaysOut` | `ExternalHasNoWorker` |
| | `NoTaskForgotten` | `QueuedIsScheduled` |
| | `CallersAreToldOfTheEnd` | `NoCallerLeftBehind` |
| | `PausesAreHeld` | `PausedIsHeld`, until a restart |
| | `QueueImplementsLifecycle` | `ImplementsLifecycle`, while nobody pauses |
| | `EndingsAreFinal` | `TerminalIsFinal`, while nobody pauses |
| `BackupsProofs` | `BackupsTypeCorrect` | `TypeOK` |
| | `ListedBackupsAreWhole` | `ListedIsWhole` |
| | `RollbackPointSurvives` | `RollbackPointKept` |
| | `RestoresWhatItVerified` | `RestoredIsVerified` |
| | `RestoreIsAllOrNothing` | `AllOrNothing` |
| | `LastCopySurvives` | `LastCopyKept`, unless imports and the game are both in `Ops` |
| `ServerControlProofs` | `ControlTypeCorrect` | `TypeOK` of `ProcessManager` |
| | `NeverTwoServers` | `OneServer` of `ProcessManager` |
| | `StoppingIsOwned` | `StoppingPasses` of `ProcessManager` |
| | `NeverTwoServersOfAGame` | `OneServer`, of either game |
| | `StoppingPassesInGames` | `StatusPasses` |
| | `StopOfConanStops` | `StopStops` |
| `SchedulerProofs` | `EachRestartOnce` | `RestartsOnce` |
| | `UndisturbedIsNotMissed` | `NothingMissed` |
| | `WarningComesFirst` | `WarnedInTime` |
| `AppUpdateProofs` | `OnlyVerifiedInstallersRun` | `VerifiedOnly` |
| | `ReportedSuccessIsTrue` | `SuccessIsTrue` |
| `SessionsProofs` | `SuperAdminIsOne` | `OneSuperAdmin` |
| | `CodesMakeOneAccount` | `CodeMakesOneAccount` |
| | `NoSessionOutlivesItsUser` | `SessionsHaveUsers` |
| | `RefusalsEnd` | `RetryAfterIsTrue` |
| | `PremiumTokensOnly` | `PremiumIsTrue`, of `Nexus!Spec` |
| | `QuietSessionsLast` | `QuietSession`, of `Nexus!Spec` |
| `InstancesProofs` | `ReadsStayClean` | `ReadsAreClean` |
| | `SecondReadAgrees` | `ReadsAgree` |
| `ModsProofs` | `TypesHold` | `TypeOK` |
| | `GameFollowsUsers` | `LoadsAsWanted` |
| | `StatusFollowsGame` | `StatusIsTrue` |
| | `ScanListsOnce` | `ListedOnce` |
| | `ConanTypesHold` | `TypeOK` of `ConanMods` |
| | `ConanFollowsUsers` | `ChoicesHold`, of `Conan!Spec` |
| | `ConanGameLoadsTheList` | `GameLoadsTheList`, of `Conan!Spec`, if `NamesDoNotReturn` |

`ServerControlProofs`, `SessionsProofs` and `ModsProofs` hold the proofs of several
modules, one of which they extend and the others of which they instantiate. An instance
brings no assumption with it, so the theorems about `Nexus!Spec` and `Conan!Spec` name
their assumptions.

The invariant of `TaskQueueProofs` is `IInv`: the types, and

- `HandsFull`: a worker that waits or executes has a task in hand;
- `HandsKnown`, `EntriesKnown`: no worker and no entry names an absent task, so a
  new id is in nobody's hands;
- `ExternalStatus`: an external task is never "queued" and in no worker's hands;
- `ExecutingIsFirst`: an executing worker is the first in the lock queue of its
  task's key. Two executing workers with one key would both be its head: this is
  why `SerializedPerInstance` follows, and it is not inductive without it. It
  survives `ClearCompleted` because a popped task keeps its key.

`QueuedIsScheduled` is inductive together with `IInv`: a task becomes "queued"
only with a new entry, and an entry leaves the queue only into a worker's hands,
or because its task is not "queued". `NoCallerLeftBehind` is inductive with the
types: each step leaves a task live, sets its event, or touches neither (`Serves`).
`PausedIsHeld` needs `PauseInv`: what a worker at a handler or a checkpoint has in
hand has been begun and is running, cancelling, paused or gone (`Sound`), so that a
paused task without retries is only ever left by its own worker.

The refinement needs `QuietInv`, for runs without pauses and external tasks
(`Quiet`; with pauses it fails, see above): a task is in one place, an entry of the
queue or one worker's hands (`OnePlace`); what a worker executes is "running" or
"cancelling", and what is so is in a worker's hands; a worker that waits for a lock
has a task that is queued, cleared, or cancelled with `cancelRequested` still set,
which is what keeps `_execute` from beginning it. Each action has a lemma that it
keeps `QuietInv`, maps to a step or a stutter of `TaskLifecycle`, and leaves endings
final (`Goes`).

The invariant of `BackupsProofs` is `IInv`: the types, where the operations of
the queue (`QueueOp`) move whole `Saved` directories and an import (`ImportOp`)
moves worlds inside one, and

- `Sane`, of each actor's operation: its snapshot has a name that was handed out,
  is not listed while it is copied, is removed then only if it may go, and a restore
  that depends on it still has it, or lost it to the user, or to newer backups;
- `Sound`, of each backup: no trace of it before its name is handed out, and what
  is being deleted is not whole;
- `Apart`: two actors never copy into the same directory.

`ListedIsWhole` needs them all: without `Apart` two copies could share a
directory, without `Sane` one could be listed before it is whole.
`RollbackPointKept` rests on `PruneSpares`: what the retention removes has at
least `MaxCount` newer backups. Its proof counts: the backups kept and newer
lie between the removed one and the next name. `RestoredIsVerified` needs `Faith`:
what was verified is still what the backup holds, for nobody writes into a backup
that is whole (`Whole`, `Foreign`), and what a restore carries is what it verified
(`Promise`), unless the game or an import has meddled with the directory since, or
somebody has begun to remove the backup (`Disturbed`); while the restore's own
retention removes it (`Leaving`) the restore does not go on.
`LastCopyKept` has an argument for each half of its hypothesis. A backup is written
once and remembers what it was taken of after it is removed (`Written`), so the worlds
of which some snapshot was taken only grow. Without the game (`Beside`) a world outside them is in
its place while no operation has got past its snapshot, or is nowhere the program
could still lose it from. Without imports (`Alone`) the snapshot of the restore
holds all that it is about to replace, unless the game has played since.

Servers: `OneServer` is inductive with the types, because `start` of either game
looks at the machine's processes under its lock. `StoppingPasses` needs that each
action that leaves a caller's stop takes the mark back. `StopStops` needs `Meets`:
what a stop met is among those it will kill, or spared, or dead already, and nothing launches
what is dead. For a Palworld instance the lemmas about `ProcessManager` are used
as they are, for Conan the same facts are `ConanInv`.

Scheduler: only the last restart is remembered, so `RestartsOnce` needs
`Remembered`: that one came due after every other that was begun. A schedule that
is in its window now and is not the remembered one has a later target
(`LaterTarget`, arithmetic of days and hours, where the assumption on hours is used).
`NothingMissed` and `WarnedInTime` need `SInv`: where the loop is in its round
(`Rounds`), what its notes are worth (`Notes`: a remembered restart was begun, a
warning was given when it says), and that an instance whose schedule nobody has
touched and none of whose checks has raised has had its round in every slot so far
(`Undisturbed`). An exception takes that from its own instance only (`RaisesKeeps`).

Update: `VerifiedOnly` and `SuccessIsTrue` need `Process` (what is known of EGM in
each phase) and, unless installations overlapped, `OneWorker` (one worker, of the
version last asked for), `GoesUp` (its installer is verified and no older than what
is installed) and `Truthful` (a marker or a result of success names no version
later than the one that runs).

Nexus: `AllVouched` says of every record, stored or carried by a handler, that what
it says of the membership Nexus said of its token; `OneThing` that a handler works
on one thing at a time; `QuietRefresh` that an undisturbed refresh is alone, works
on the record in place and its answer is honoured.

Accounts: `Numbered` (what was made has a smaller number than what will be) and
`OpenCodes` (a code stands on one invite, and an open one has made no more accounts
than there were interruptions). `RetryAfterIsTrue` needs `Attempts`: an address has no
more failures than attempts, so that the oldest one alone keeps it out; the rest is
arithmetic of the clock, whose parts of a second the answer rounds up.

Instances: every list that is saved, whoever saves it and however old it is, has
identifiers that were handed out and none twice (`Saved`), for a thread holds what a
read gave it. `CleanIsFine` says what the repair makes of any such list: no folder, no
identifier and none of the three ports twice (`Tidy`), and an active server that exists. It rests on
`Allocates` (the ports that `allocate_instance_ports` finds are distinct and nobody's),
for which `PortsLeft` counts: a tidy list has one server for each folder at most, and
three ports for each server. `KeptAsIs` says that a tidy list is left as it is.

Mods: the invariant is the types, `LoadsAsWanted`, `StatusIsTrue` and `Listed`, that
no list has a Workshop mod twice, neither `mods.json` nor what a check has read and
will save. `ListedOnce` is about a scan, which makes one list of four and merges what
is the same: `OnlyThese` says that a part of a list has the items of its places, each
once, `SetAsList` the same of a set; `FirstStays` that of each group one record stays,
`NamedAreSame` that the records of a mod whose files have its name are one group, and
`PlaceListed` that the scan of a place leaves no file of it without a record.

Conan's mods: `ChoicesHold` is proved with the types and `Downloaded` (what a task is
about to install lies in the folder) as `ChoiceInv`. Its weight is in the lists:
`Sorted` puts a record where as many come before it as are sooner, and that this is an
order of all of them, each once, is a counting argument (`SoonerHasFewer`: of two
records the sooner one has fewer before it, so no two share a place and every place
has one). A page that saves what it had read, sorted, therefore has the mods that it
had read. `GameLoadsTheList` needs `FileInv`, which says of every list that is or may be
saved, and of `modlist.txt`, which version their file names come from: that of an entry
from a version `u`, that of its line from a `v`, and `u <= v <=` the version in the
folder, for an entry is written no later than its line. When a page finds the name in
the folder equal to that of the entry, `NamesDoNotReturn` makes the name of `v`
between them the same, so the line that the page leaves alone is right.

The loops of these modules are recursive functions (`Only`, `Kept`, `Counted`). What
they compute is proved by induction: `Upwards` states it for sets of numbers, from the
library's theorem that the order of the natural numbers is well-founded, and
`LoopExists` and `Unfolds` say that such a function exists and is what its definition
says at each argument.

Only model-checked:

- Liveness, which is out of the prover's reach: `QueuedIsWorkedOff`, `CallersReturn`,
  `ResumedGoesOn`, `CrashIsReported`, `LoopComesRound`, `ComesBack`.

`LastCopySurvives` has the hypothesis that imports and the game are not both in `Ops`
because TLC violates `LastCopyKept` with `Ops = {"import", "server"}`: a game that is
started while a restore has Saved aside saves a new world between the restore's two
attempts; an import waiting for its snapshot meets the second time that Saved is aside,
finds nothing to copy, and after the restore has put the world back replaces it and
removes it. Every other safety property of the runs is stated by a theorem.

## What is left

1. Retention by age and size in `Backups`; the preset and update backups of mods.
2. `ServerUpdate`: SteamCMD's retries and the validation of what it installed.
3. Composition: `Scheduler` over `TaskLifecycle` in place of a task that just ends;
   `AppUpdate` over the restart of `TaskQueue`.

## Not modelled

Text and formatting: settings files, logs, titles and messages. Requests to
Steam, Nexus, routers and the firewall: pure I/O without state of its own. The
web interface, the desktop shell and the setup. Notifications and activity logs:
records that are appended, trimmed and shown, on which nothing depends. Time in seconds: timeouts are
choices of the environment (`IntentExpires` comes only when no request is under
way), except in `Scheduler` and `Accounts`, where properties are about it; the
queue's clock only orders its entries. The size of things: disk space is a `Fault`.
Names, notes, passwords' hashes and secrets. The load order of Palworld's mods,
the wish list's records and the installation of UE4SS itself.
