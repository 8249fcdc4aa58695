------------------------------ MODULE ConanMods -------------------------------
(***************************************************************************)
(* Workshop mods of a Conan Exiles server: services/conan_workshop.py with *)
(* its tasks in services/task_queue.py and its routes.                     *)
(*                                                                         *)
(* mods.json lists the mods, modlist.txt names the files that the game     *)
(* loads, in order, and the files lie in the download folder of SteamCMD.  *)
(* The tasks of a server run one at a time.  The mods page and the update  *)
(* check do not wait for them: they read mods.json, await Steam, and may   *)
(* save what they have read.  modlist.txt is written after mods.json and   *)
(* the write may fail.                                                     *)
(***************************************************************************)
EXTENDS ConanPromises

CONSTANTS
  MaxVersion,  \* bound: versions of an item on Steam
  Pages,       \* requests for the mods page or an update check, at a time
  MaxOps,      \* bound: tasks that users start
  MaxFaults    \* bound: failed downloads and writes, and restarts

ASSUME ConanModsAssumption ==
  /\ {MaxVersion, MaxOps, MaxFaults} \subseteq Nat /\ MaxVersion > 0
  /\ DOMAIN PakOf = 1..MaxVersion
  /\ IsFiniteSet(Published)

VARIABLES
  steam,    \* the version on Steam
  task,     \* the task that runs
  page,     \* what the pages, and the task when it ends as one, have read
  ops, faults

vars == <<listed, modlist, library, steam, task, page, ops, faults, asked, undone, torn, moved>>

Versions == 1..MaxVersion
Task == "task"
NoPage == [kind |-> "none", read |-> <<>>]
NoTask == [kind |-> "none", todo |-> {}, id |-> {}, at |-> "idle", force |-> FALSE, latest |-> None]

-----------------------------------------------------------------------------
(* The list of mods and the list for the game                               *)

\* Mutant: in the order in which the mods were installed.
LinesAsListed(list) ==
  LET enabled == Only(list, {k \in DOMAIN list : list[k].on})
  IN [k \in DOMAIN enabled |-> [id |-> enabled[k].id, pak |-> Pak(enabled[k])]]
Lines(list) ==
  LET enabled == Enabled(list)
  IN [k \in DOMAIN enabled |-> [id |-> enabled[k].id, pak |-> Pak(enabled[k])]]

\* save_mods, then _write_modlist, which may fail.
Saves(list) ==
  /\ listed' = list /\ modlist' = Lines(list)
  /\ torn' = FALSE /\ moved' = {}
  /\ UNCHANGED faults
SavesHalf(list) ==
  /\ faults < MaxFaults
  /\ faults' = faults + 1
  /\ listed' = list /\ torn' = TRUE
  /\ UNCHANGED <<modlist, moved>>

\* Mutant: an update enables the mod.
InstalledOn(list, w, version) ==
  LET new == [id |-> w, on |-> TRUE, prio |-> Len(list) + 1, ver |-> version,
              pak |-> PakOf[library[w]]]
      Updated(r) == IF r.id = w THEN [new EXCEPT !.prio = r.prio] ELSE r
  IN IF w \in IdsIn(list) THEN [k \in DOMAIN list |-> Updated(list[k])] ELSE Append(list, new)

\* The entry of an item that was listed keeps its place and its status.
Installed(list, w, version) ==
  LET new == [id |-> w, on |-> TRUE, prio |-> Len(list) + 1, ver |-> version,
              pak |-> PakOf[library[w]]]
      Updated(r) == IF r.id = w THEN [new EXCEPT !.on = r.on, !.prio = r.prio] ELSE r
  IN IF w \in IdsIn(list) THEN [k \in DOMAIN list |-> Updated(list[k])] ELSE Append(list, new)

\* The rest is numbered anew, in its order; the list itself stays as it is.
Without(list, w) ==
  LET rest == Only(list, {k \in DOMAIN list : list[k].id # w})
      sorted == Sorted(rest)
  IN [k \in DOMAIN rest |->
        [rest[k] EXCEPT !.prio = CHOOSE j \in DOMAIN sorted : sorted[j].id = rest[k].id]]

Switched(list, w, on) ==
  [k \in DOMAIN list |-> IF list[k].id = w THEN [list[k] EXCEPT !.on = on] ELSE list[k]]

Reordered(list, order) ==
  [k \in DOMAIN list |->
     IF list[k].id \in Range(order)
     THEN [list[k] EXCEPT !.prio = CHOOSE j \in DOMAIN order : order[j] = list[k].id]
     ELSE list[k]]

-----------------------------------------------------------------------------
(* Tasks: one at a time                                                     *)

StartsTask ==
  /\ task = NoTask /\ page[Task] = NoPage
  /\ ops < MaxOps
  /\ ops' = ops + 1

Wants(w, what) ==
  /\ asked' = [asked EXCEPT ![w] = what]
  /\ undone' = undone \ {w}

SetEnabled(w, on) ==
  /\ StartsTask
  /\ w \in IdsIn(listed)
  /\ Saves(Switched(listed, w, on)) \/ SavesHalf(Switched(listed, w, on))
  /\ Wants(w, IF on THEN "on" ELSE "off")
  /\ UNCHANGED <<library, steam, task, page>>

\* The order comes from a page that may have been loaded a while ago: with mods
\* that have gone since, or without some that have come.
Reorder(order) ==
  /\ StartsTask
  /\ listed # <<>>
  /\ Saves(Reordered(listed, order)) \/ SavesHalf(Reordered(listed, order))
  /\ UNCHANGED <<library, steam, task, page, asked, undone>>

RemoveMod(w) ==
  /\ StartsTask
  /\ w \in IdsIn(listed)
  /\ Saves(Without(listed, w)) \/ SavesHalf(Without(listed, w))
  /\ Wants(w, "out")
  /\ UNCHANGED <<library, steam, task, page>>

\* An update is forced: it downloads what it has already.
InstallBegins(w, force) ==
  /\ StartsTask
  /\ task' = [NoTask EXCEPT !.kind = "install", !.id = {w}, !.at = "details", !.force = force]
  /\ UNCHANGED <<listed, modlist, library, steam, page, faults, asked, undone, torn, moved>>

GetsDetails(w) ==
  /\ task.at = "details" /\ task.id = {w}
  /\ steam[w] # None
  /\ task' = [task EXCEPT !.at = "download", !.latest = steam[w]]
  /\ UNCHANGED <<listed, modlist, library, steam, page, ops, faults, asked, undone, torn, moved>>

Downloads(w) ==
  /\ task.at = "download" /\ task.id = {w}
  /\ task' = [task EXCEPT !.at = "install"]
  /\ IF library[w] # None /\ ~task.force
     THEN UNCHANGED <<library, moved>>
     ELSE library' = [library EXCEPT ![w] = steam[w]] /\ moved' = moved \cup {w}
  /\ UNCHANGED <<listed, modlist, steam, page, ops, faults, asked, undone, torn>>

\* SteamCMD fails, with the old files there, or gone, or replaced.
DownloadFails(w) ==
  /\ task.at = "download" /\ task.id = {w}
  /\ library[w] = None \/ task.force
  /\ faults < MaxFaults
  /\ faults' = faults + 1
  /\ \E version \in {None, library[w], steam[w]} : library' = [library EXCEPT ![w] = version]
  /\ moved' = moved \cup {w}
  /\ task' = NoTask
  /\ UNCHANGED <<listed, modlist, steam, page, ops, asked, undone, torn>>

\* The install ends with the mods page, for the list as it is now.
Installs(w) ==
  /\ task.at = "install" /\ task.id = {w}
  /\ \/ /\ Saves(Installed(listed, w, task.latest))
        /\ page' = [page EXCEPT ![Task] = [kind |-> "view", read |-> Sorted(listed')]]
        /\ task' = IF task.kind = "all" THEN [task EXCEPT !.at = "next"] ELSE NoTask
     \/ /\ SavesHalf(Installed(listed, w, task.latest))
        /\ task' = NoTask
        /\ UNCHANGED page
  /\ Wants(w, IF w \in IdsIn(listed) /\ ~Entry(listed, w).on THEN "off" ELSE "on")
  /\ UNCHANGED <<library, steam, ops>>

-----------------------------------------------------------------------------
(* Pages and checks: they read, await Steam, and save                        *)

Reads(p, kind) == page' = [page EXCEPT ![p] = [kind |-> kind, read |-> listed]]

PageBegins(p, kind) ==
  /\ page[p] = NoPage
  /\ kind = "check" => listed # <<>>
  /\ Reads(p, kind)
  /\ UNCHANGED <<listed, modlist, library, steam, task, ops, faults, asked, undone, torn, moved>>

\* mods.check_updates and workshop.update_all.
CheckBegins(all) ==
  /\ StartsTask
  /\ listed # <<>>
  /\ Reads(Task, "check")
  /\ task' = IF all THEN [NoTask EXCEPT !.kind = "all", !.at = "check"] ELSE NoTask
  /\ UNCHANGED <<listed, modlist, library, steam, faults, asked, undone, torn, moved>>

\* What a save of a list that was read before has changed.
Changed(list) == {w \in Published : StateIn(list, w) # StateIn(listed, w)}

\* The page looks for the files of each mod it has read; if they are others than
\* the list says, it saves the list and writes modlist.txt.
Refreshed(read) ==
  LET sorted == Sorted(read)
  IN [k \in DOMAIN sorted |-> [sorted[k] EXCEPT !.pak = Pak(sorted[k])]]

FindsOthers(p) ==
  /\ Refreshed(page[p].read) # Sorted(page[p].read)
  /\ \/ Saves(Refreshed(page[p].read)) /\ UNCHANGED task
     \/ /\ SavesHalf(Refreshed(page[p].read))
        /\ task' = IF p = Task THEN NoTask ELSE task
  /\ undone' = undone \cup Changed(page[p].read)

FindsTheSame(p) ==
  /\ Refreshed(page[p].read) = Sorted(page[p].read)
  /\ moved' = IF page[p].read = listed THEN {w \in moved : library[w] = None} ELSE moved
  /\ UNCHANGED <<listed, modlist, task, faults, undone, torn>>

ViewEnds(p) ==
  /\ page[p].kind = "view"
  /\ page' = [page EXCEPT ![p] = NoPage]
  /\ FindsOthers(p) \/ FindsTheSame(p)
  /\ UNCHANGED <<library, steam, ops, asked>>

\* The check saves the list that it has read, and leaves modlist.txt alone.
Newer(read) == {w \in IdsIn(read) : steam[w] > Entry(read, w).ver}

CheckEnds(p) ==
  /\ page[p].kind = "check"
  /\ listed' = page[p].read
  /\ undone' = undone \cup Changed(page[p].read)
  /\ torn' = (torn \/ listed # page[p].read)
  /\ page' = [page EXCEPT ![p] = NoPage]
  /\ task' = IF p = Task /\ task.at = "check"
             THEN [task EXCEPT !.at = "next", !.todo = Newer(page[p].read)] ELSE task
  /\ UNCHANGED <<modlist, library, steam, ops, faults, asked, moved>>

\* update_all: the mods one after another, each a forced install, and the page.
NextUpdate ==
  /\ task.at = "next" /\ page[Task] = NoPage
  /\ \/ \E w \in task.todo :
          /\ task' = [task EXCEPT !.at = "details", !.id = {w}, !.force = TRUE, !.todo = @ \ {w}]
          /\ UNCHANGED page
     \/ task.todo = {} /\ Reads(Task, "view") /\ task' = NoTask
  /\ UNCHANGED <<listed, modlist, library, steam, ops, faults, asked, undone, torn, moved>>

\* Steam cannot be reached, the task is cancelled, or EGM ends.
Interrupted ==
  /\ faults < MaxFaults
  /\ faults' = faults + 1
  /\ task' = NoTask
  /\ page' = [p \in Pages \cup {Task} |-> NoPage]
  /\ UNCHANGED <<listed, modlist, library, steam, ops, asked, undone, torn, moved>>

NewVersion(w) ==
  /\ steam[w] < MaxVersion
  /\ steam' = [steam EXCEPT ![w] = @ + 1]
  /\ UNCHANGED <<listed, modlist, library, task, page, ops, faults, asked, undone, torn, moved>>

-----------------------------------------------------------------------------
Init ==
  /\ listed = <<>> /\ modlist = <<>>
  /\ library = [w \in Published |-> None]
  /\ steam = [w \in Published |-> 1]
  /\ task = NoTask
  /\ page = [p \in Pages \cup {Task} |-> NoPage]
  /\ ops = 0 /\ faults = 0
  /\ asked = [w \in Published |-> "out"]
  /\ undone = {} /\ torn = FALSE /\ moved = {}

Operation ==
  \/ \E w \in Published :
       \/ \E b \in BOOLEAN : SetEnabled(w, b) \/ InstallBegins(w, b)
       \/ RemoveMod(w)
       \/ GetsDetails(w) \/ Downloads(w) \/ DownloadFails(w) \/ Installs(w)
  \/ \E some \in SUBSET Published : \E order \in SetToSeqs(some) : Reorder(order)
  \/ \E all \in BOOLEAN : CheckBegins(all)
  \/ NextUpdate

Next ==
  \/ Operation
  \/ \E p \in Pages, kind \in {"view", "check"} : PageBegins(p, kind)
  \/ \E p \in Pages \cup {Task} : ViewEnds(p) \/ CheckEnds(p)
  \/ Interrupted
  \/ \E w \in Published : NewVersion(w)

Spec == Init /\ [][Next]_vars

-----------------------------------------------------------------------------
(* Properties                                                               *)

Entries == [id: Published, on: BOOLEAN, prio: Nat, ver: Versions, pak: Range(PakOf)]

\* Every mod is listed at most once.
Lists == {list \in Seq(Entries) : \A j, k \in DOMAIN list : list[j].id = list[k].id => j = k}

Works == [kind: {"none", "install", "all"}, todo: SUBSET Published, id: SUBSET Published,
          at: {"idle", "check", "next", "details", "download", "install"}, force: BOOLEAN,
          latest: Versions \cup {None}]

TypeOK ==
  /\ listed \in Lists /\ modlist \in Seq([id: Published, pak: Range(PakOf)])
  /\ library \in [Published -> Versions \cup {None}] /\ steam \in [Published -> Versions]
  /\ page \in [Pages \cup {Task} -> [kind: {"none", "view", "check"}, read: Lists]]
  /\ task \in Works
  /\ task.at \in {"download", "install"} => task.latest # None
  /\ {ops, faults} \subseteq Nat
  /\ asked \in [Published -> {"out", "on", "off"}]
  /\ {undone, moved} \subseteq SUBSET Published /\ torn \in BOOLEAN
=============================================================================
