--------------------------------- MODULE Mods ---------------------------------
(***************************************************************************)
(* Mods of Palworld servers: services/steam_workshop.py,                   *)
(* nexus_mod_service.py, nexus_inventory.py, mod_installer.py,             *)
(* manual_mod_service.py, pal_mod_settings.py and the routes of the pages. *)
(*                                                                         *)
(* A mod is an item of the Workshop, a package from Nexus, a PAK file or a *)
(* UE4SS folder.  The game loads the first two if PalModSettings.ini names *)
(* them, the others because they are there.  PAK files lie loose in ~mods  *)
(* or in a folder there; a folder that is switched off lies in a directory *)
(* that all servers share.  mods.json lists the mods.                      *)
(* Everything runs on one event loop, so that what happens between two     *)
(* awaits is one step; a server has one task at a time, and requests beside*)
(* it.  Load order, the game's own copies of packages and PAK files outside*)
(* ~mods are left out.                                                     *)
(***************************************************************************)
EXTENDS ModsStore

CONSTANTS
  Servers,
  Workshop, Packages, Paks, Ue4ss,  \* the mods, by kind
  Foldered,    \* the PAK files whose archive has a folder around them
  Named,       \* the PAK files and UE4SS folders with the name of their mod
  Offered,     \* the mods that users put on each server
  Newest,      \* bound: the last version, or file, of each mod
  MaxOps,      \* bound: operations of users
  MaxFaults    \* bound: failures and restarts of EGM

Items == Workshop \cup Packages \cup Paks \cup Ue4ss

ASSUME ModsAssumption ==
  /\ {MaxOps, MaxFaults} \subseteq Nat /\ Newest \in [Items -> Nat \ {0}]
  /\ Workshop \cap (Packages \cup Paks \cup Ue4ss) = {}
  /\ Packages \cap (Paks \cup Ue4ss) = {} /\ Paks \cap Ue4ss = {}
  /\ IsFiniteSet(Items)
  /\ Offered \in [Servers -> SUBSET Items]
  /\ Foldered \cup Named \subseteq Paks \cup Ue4ss

VARIABLES
  mods,       \* mods.json of each server
  active,     \* the packages that its PalModSettings.ini names
  root,       \* it has a folder Mods/Workshop
  files,      \* the copies of each mod: versions (0 is half a copy), or places
  rollback,   \* what an install that was cut off has moved aside
  staged,     \* disabled_mods, of all servers
  cache,      \* what SteamCMD has downloaded for it
  latest,     \* the version that Steam offers, or the last file on Nexus
  inventory,  \* nexus_inventory.json
  job,        \* the task, and the request beside it
  ops, faults,
  wanted,     \* history: what users last asked of each mod, and whether a task
              \* has since overruled it
  unsure,     \* history: mods that lost this by a fault, a neighbour, or a request
              \* that was answered and not carried out
  stale,      \* history: Workshop mods whose status an outdated save has changed
  scanned     \* history: the last step was a scan of the server

vars == <<mods, active, root, files, rollback, staged, cache, latest, inventory, job,
          ops, faults, wanted, unsure, stale, scanned>>

Torn == 0
Versions == UNION {1..Newest[i] : i \in Items}

\* Where a PAK file lies in ~mods.  UE4SS mods are folders.
Loose == 1
InFolder == 2
Spots == {Loose, InFolder}
OnDisk == Paks \cup Ue4ss
Copies(i) == IF i \in OnDisk THEN Spots ELSE Versions \cup {Torn}
Spot(i) == IF i \in Paks \ Foldered THEN Loose ELSE InFolder

\* An upload without a folder of its own gets one with the mod's name.
HasName(i, x) == i \in Named \/ (x = InFolder /\ i \notin Foldered)
Jobs == {"task", "request"}
Idle == [at |-> "idle", kind |-> "none", id |-> {}, ver |-> 0, force |-> FALSE,
         read |-> <<>>, todo |-> {}, got |-> {}]

\* What the game loads.
Loads(s, i) == files[s][i] # {} /\ (i \in Workshop \cup Packages => i \in active[s])

-----------------------------------------------------------------------------
(* Records                                                                  *)

\* From a file that Nexus knows: "nexus", that it does not know: "manual"; found
\* on the disk without its marker: "unknown".  A record of a mod on the disk has
\* its paths (at), which an upload has not, and the name of its folder (dir).
FullRecord(i, src, on, v, at, dir) ==
  [id |-> i, src |-> src, on |-> on, ver |-> v, at |-> at, dir |-> dir]
Record(i, src, on, v) == FullRecord(i, src, on, v, {}, InFolder)
FoundAt(i, x) == FullRecord(i, "unknown", TRUE, 0, {x}, x)
HasMods(r) == r.src # "unknown" \/ HasName(r.id, r.dir)
IsSteam(r) == r.src = "steam"
IsNexus(r) == r.src \in {"nexus", "unknown"}
SteamIds(list) == {list[k].id : k \in {j \in DOMAIN list : IsSteam(list[j])}}
NexusIds(list) == {list[k].id : k \in {j \in DOMAIN list : IsNexus(list[j])}}

\* Mutant: a mod that is installed again keeps its old status.
PutAsItWas(list, new) ==
  IF \E k \in DOMAIN list : list[k].id = new.id /\ list[k].src = new.src
  THEN [k \in DOMAIN list |-> IF list[k].id = new.id /\ list[k].src = new.src
                             THEN [new EXCEPT !.on = list[k].on] ELSE list[k]]
  ELSE Append(list, new)

\* The record of the same source is replaced, or the new one is the last.
Put(list, new) ==
  IF \E k \in DOMAIN list : list[k].id = new.id /\ list[k].src = new.src
  THEN [k \in DOMAIN list |-> IF list[k].id = new.id /\ list[k].src = new.src THEN new ELSE list[k]]
  ELSE Append(list, new)

\* The part of a list of which something is true, and a list without one record.
Where(list, Is(_)) == Only(list, {k \in DOMAIN list : Is(list[k])})
Without(list, place) == Only(list, DOMAIN list \ {place})

\* discover_installed: the Workshop records and folders, and nothing else.
Discovered(s, list) ==
  LET steam == Where(list, IsSteam)
      found == {w \in Workshop \ SteamIds(steam) : files[s][w] \ {Torn} # {}}
  IN IF root[s] THEN steam \o SetToSeq({Record(w, "steam", w \in active[s], 0) : w \in found})
     ELSE list

\* Packages by their markers, which half a copy has not: of every folder, also
\* one moved aside, that no record names.
WithPackages(s, list) ==
  LET Tracked(n, v) == \E k \in DOMAIN list : list[k].id = n /\ list[k].ver = v
      found == {r \in [id: Packages, ver: Versions] :
                  r.ver \in files[s][r.id] \cup rollback[s][r.id] /\ ~Tracked(r.id, r.ver)}
  IN list \o SetToSeq({Record(r.id, "nexus", r.id \in active[s], r.ver) : r \in found})

\* Files that no record from Nexus names.
Unknown(ids, x) == {FoundAt(i, x) : i \in ids}

\* The folders of UE4SS mods, whatever the lists of UE4SS say of them.
FoldersThere(s) == {i \in Ue4ss : files[s][i] # {}}
WithFolders(s, list) == list \o SetToSeq(Unknown(FoldersThere(s) \ NexusIds(list), InFolder))

\* A PAK file belongs to the first record that has its path or its name; it is
\* enabled because it is there.  The loose files come before the folders.
PaksThere(s, x) == {i \in Paks : x \in files[s][i]}
Claims(r, x) == IsNexus(r) /\ (x \in r.at \/ (HasMods(r) /\ HasName(r.id, x)))
Claimed(list, k, x) ==
  Claims(list[k], x) /\ ~\E j \in 1..(k - 1) : list[j].id = list[k].id /\ Claims(list[j], x)
WithPlace(s, list, x) ==
  LET there == PaksThere(s, x)
      old == {list[k].id : k \in {j \in DOMAIN list : Claims(list[j], x)}}
      Seen(k) == IF list[k].id \in there /\ Claimed(list, k, x)
                 THEN FullRecord(list[k].id, list[k].src, TRUE, list[k].ver, {x}, x) ELSE list[k]
  IN [k \in DOMAIN list |-> Seen(k)] \o SetToSeq(Unknown(there \ old, x))
WithPaks(s, list) == WithPlace(s, WithPlace(s, list, Loose), InFolder)

\* The inventory knows a mod by a path or by its name.
Known(s, r) ==
  \E e \in inventory[s] : e.id = r.id /\ (e.at \cap r.at # {} \/ HasMods(r))
Enriched(s, r) == IF r.src = "unknown" /\ Known(s, r) THEN [r EXCEPT !.src = "nexus"] ELSE r

\* Records of one mod: of one number, with a path in common, or of one name.
Same(q, r) ==
  /\ IsNexus(q) /\ IsNexus(r) /\ q.id = r.id
  /\ \/ q.src = "nexus" /\ r.src = "nexus"
     \/ q.at \cap r.at # {}
     \/ HasMods(q) /\ HasMods(r)
Merged(list, k) ==
  LET same == {k} \cup {j \in DOMAIN list : Same(list[k], list[j])}
      numbered == {j \in same : list[j].src = "nexus"}
      best == IF numbered # {} THEN Min(numbered) ELSE Max(same)
  IN [list[best] EXCEPT !.at = UNION {list[j].at : j \in same}]

\* Mutant: what the disk shows is taken as it is.
Undeduplicated(s, list) == list

\* The first of them stays, and gets what the others have.
Deduplicated(s, list) ==
  LET rich == [k \in DOMAIN list |-> Enriched(s, list[k])]
      First(k) == ~\E j \in 1..(k - 1) : Same(rich[j], rich[k])
  IN Only([k \in DOMAIN rich |-> Merged(rich, k)], {k \in DOMAIN rich : First(k)})

\* What the inventory is told of a mod; an upload has no paths.
Told(s, list) ==
  LET numbered == {list[k] : k \in {j \in DOMAIN list : list[j].src = "nexus"}}
      Paths(r) == IF r.at # {} THEN r.at ELSE UNION {e.at : e \in {f \in inventory[s] : f.id = r.id}}
  IN {e \in inventory[s] : \A r \in numbered : e.id # r.id}
     \cup {[id |-> r.id, at |-> Paths(r)] : r \in numbered}

-----------------------------------------------------------------------------
(* Steps                                                                    *)

Starts(s, p) == job[s][p] = Idle /\ ops < MaxOps /\ ops' = ops + 1
Asked == ops < MaxOps /\ ops' = ops + 1
Fault == faults < MaxFaults /\ faults' = faults + 1
NotScanned == scanned' = {}
Goes(s, p, new) == job' = [job EXCEPT ![s][p] = new]
Saves(s, list) == mods' = [mods EXCEPT ![s] = list]
Places(s, i, versions) == files' = [files EXCEPT ![s][i] = versions]
Activates(s, i, on) ==
  /\ active' = [active EXCEPT ![s] = IF on THEN @ \cup {i} ELSE @ \ {i}]
  /\ root' = [root EXCEPT ![s] = TRUE]
Wants(s, i, what) ==
  /\ wanted' = [wanted EXCEPT ![s][i] = what]
  /\ unsure' = [unsure EXCEPT ![s] = @ \ {i}]
  /\ stale' = [stale EXCEPT ![s] = @ \ {i}]
Unsure(s, lost) ==
  /\ unsure' = [unsure EXCEPT ![s] = @ \cup lost]
  /\ UNCHANGED <<wanted, stale>>

\* A task switches a mod on that it installs or updates: as users have asked, or
\* although they have switched it off, or removed it, in the meantime.
SwitchedOn(s, i) == IF wanted[s][i] \in {"on", "asked"} THEN "on" ELSE "overruled"

Kept == <<active, root, files, rollback, staged>>
Outside == <<cache, latest>>
History == <<wanted, unsure, stale>>

-----------------------------------------------------------------------------
(* Install and update                                                       *)

\* workshop.install, workshop.update and nexus.install are tasks; the approval of
\* a wish installs from Nexus beside them.
InstallBegins(s, p, i, force) ==
  /\ Starts(s, p)
  /\ i \in Offered[s]
  /\ i \in Workshop => p = "task"
  /\ force => i \in Workshop
  /\ Goes(s, p, [Idle EXCEPT !.at = "details", !.kind = "install", !.id = {i}, !.force = force])
  /\ wanted' = [wanted EXCEPT ![s][i] = IF force THEN @ ELSE
                                         IF @ \in {"on", "overruled"} THEN "on" ELSE "asked"]
  /\ NotScanned
  /\ UNCHANGED <<mods, Kept, Outside, inventory, faults, unsure, stale>>

\* Nexus offers several files of a mod, one of which the user may choose.
GetsDetails(s, p, i) ==
  /\ job[s][p].at = "details" /\ job[s][p].id = {i}
  /\ \E v \in (IF i \in Workshop THEN {latest[i]} ELSE 1..latest[i]) :
       Goes(s, p, [job[s][p] EXCEPT !.at = IF job[s][p].kind = "all" THEN "download" ELSE "place",
                                    !.ver = v])
  /\ NotScanned
  /\ UNCHANGED <<mods, Kept, Outside, inventory, ops, faults, History>>

\* What is in the cache will do, or, for an update, if it is newer than what the
\* server has.  Else SteamCMD is asked; if it fails, what is in the cache will do.
Fetched(s, p, w) ==
  IF cache[s][w] # 0 /\ (job[s][p].force => \A v \in files[s][w] : cache[s][w] > v)
  THEN {cache[s][w]} ELSE {latest[w], cache[s][w]} \ {0}

\* update_all downloads before it changes the server.
Downloads(s, w) ==
  /\ job[s]["task"].at = "download" /\ job[s]["task"].id = {w}
  /\ \E v \in Fetched(s, "task", w) : cache' = [cache EXCEPT ![s][w] = v]
  /\ Goes(s, "task", [job[s]["task"] EXCEPT !.at = "next",
                                            !.got = @ \cup {[id |-> w, ver |-> job[s]["task"].ver]}])
  /\ NotScanned
  /\ UNCHANGED <<mods, Kept, latest, inventory, ops, faults, History>>

\* Steam or Nexus does not answer, or gives nothing that is of use.
JobFails(s, p) ==
  /\ job[s][p].at \in {"details", "download", "place", "check"}
  /\ Fault
  /\ Goes(s, p, Idle)
  /\ NotScanned
  /\ UNCHANGED <<mods, Kept, Outside, inventory, ops, History>>

\* The folders of a package carry the number of the file: they lie side by side.
\* Another mod is copied over its old files.
WithFolder(s, n, v) == files[s][n] \cup {v}
Placed(s, i, v) ==
  IF i \in Workshop THEN {v} ELSE WithFolder(s, i, IF i \in Packages THEN v ELSE Spot(i))
Installed(i, v) ==
  IF i \in Workshop THEN Record(i, "steam", TRUE, v)
  ELSE FullRecord(i, "nexus", TRUE, v, IF i \in OnDisk THEN {Spot(i)} ELSE {}, Spot(i))

PlacesMod(s, p, i) ==
  /\ job[s][p].at = "place" /\ job[s][p].id = {i}
  /\ \E v \in (IF i \in Workshop THEN Fetched(s, p, i) ELSE {job[s][p].ver}) :
       /\ Places(s, i, Placed(s, i, v))
       /\ cache' = IF i \in Workshop THEN [cache EXCEPT ![s][i] = v] ELSE cache
  /\ rollback' = [rollback EXCEPT ![s][i] = {}]
  /\ IF i \in Workshop \cup Packages THEN Activates(s, i, TRUE) ELSE UNCHANGED <<active, root>>
  /\ LET new == Installed(i, job[s][p].ver) IN
       /\ Saves(s, Put(mods[s], new))
       /\ inventory' = [inventory EXCEPT ![s] = IF i \in Workshop THEN @ ELSE Told(s, <<new>>)]
  /\ Wants(s, i, SwitchedOn(s, i))
  /\ Goes(s, p, Idle)
  /\ NotScanned
  /\ UNCHANGED <<staged, latest, ops, faults>>

\* PAK files and UE4SS folders are copied over the old ones: what is left of them
\* is a copy, or nothing that is loaded.
HalfCopied(s, i, x) == {files[s][i] \ {x}, files[s][i] \cup {x}}

\* An error takes the old copy back, if it is a package; it may come after the
\* package was enabled.
PlaceFails(s, p, i) ==
  /\ job[s][p].at = "place" /\ job[s][p].id = {i}
  /\ Fault
  /\ \/ /\ i \in Workshop \cup Packages
        /\ UNCHANGED files
        /\ \/ UNCHANGED <<active, root>>
           \/ files[s][i] # {} /\ Activates(s, i, TRUE)
     \/ /\ i \in OnDisk
        /\ \E left \in HalfCopied(s, i, Spot(i)) : Places(s, i, left)
        /\ UNCHANGED <<active, root>>
  /\ \E v \in (IF i \in Workshop THEN Fetched(s, p, i) ELSE {0}) :
       cache' = IF i \in Workshop THEN [cache EXCEPT ![s][i] = v] ELSE cache
  /\ rollback' = [rollback EXCEPT ![s][i] = {}]
  /\ Unsure(s, {i})
  /\ Goes(s, p, Idle)
  /\ NotScanned
  /\ UNCHANGED <<mods, staged, latest, inventory, ops>>

-----------------------------------------------------------------------------
(* Checks and update_all                                                    *)

CheckBegins(s, p, all) ==
  /\ Starts(s, p)
  /\ all => p = "task"
  /\ \E list \in {Discovered(s, mods[s])} :
       /\ Saves(s, list)
       /\ Goes(s, p, IF SteamIds(list) = {} THEN Idle
                     ELSE [Idle EXCEPT !.at = "check", !.read = list,
                                       !.kind = IF all THEN "all" ELSE "check"])
  /\ NotScanned
  /\ UNCHANGED <<Kept, Outside, inventory, faults, History>>

\* The check saves what it has read; a mod without a version gets the latest one.
Checked(r) == IF IsSteam(r) /\ r.ver = 0 THEN [r EXCEPT !.ver = latest[r.id]] ELSE r
OnIn(list, w) == \E k \in DOMAIN list : IsSteam(list[k]) /\ list[k].id = w /\ list[k].on
Outdated(list) ==
  {list[k].id : k \in {j \in DOMAIN list : IsSteam(list[j]) /\ list[j].ver \in 1..(latest[list[j].id] - 1)}}

CheckEnds(s, p) ==
  /\ job[s][p].at = "check"
  /\ LET read == job[s][p].read
         saved == [k \in DOMAIN read |-> Checked(read[k])]
         todo == IF job[s][p].kind = "all" THEN Outdated(read) ELSE {}
     IN /\ Saves(s, IF job[s][p].kind = "all" /\ todo = {} THEN Discovered(s, saved) ELSE saved)
        /\ stale' = [stale EXCEPT ![s] = @ \cup
             {w \in SteamIds(read) : w \in SteamIds(mods[s]) => OnIn(read, w) # OnIn(mods[s], w)}]
        /\ Goes(s, p, IF todo = {} THEN Idle
                      ELSE [job[s][p] EXCEPT !.at = "next", !.read = <<>>, !.todo = todo, !.force = TRUE])
  /\ NotScanned
  /\ UNCHANGED <<Kept, Outside, inventory, ops, faults, wanted, unsure>>

\* One download after the other, then the backup.
NextUpdate(s) ==
  /\ job[s]["task"].at = "next"
  /\ \/ \E w \in job[s]["task"].todo :
          Goes(s, "task", [job[s]["task"] EXCEPT !.at = "details", !.id = {w}, !.todo = @ \ {w}])
     \/ job[s]["task"].todo = {} /\ Goes(s, "task", [job[s]["task"] EXCEPT !.at = "backup", !.id = {}])
  /\ NotScanned
  /\ UNCHANGED <<mods, Kept, Outside, inventory, ops, faults, History>>

Updated(list, got) ==
  LET ids == {g.id : g \in got}
      New(w) == Record(w, "steam", TRUE, (CHOOSE g \in got : g.id = w).ver)
      Seen(r) == IF IsSteam(r) /\ r.id \in ids THEN New(r.id) ELSE r
  IN [k \in DOMAIN list |-> Seen(list[k])] \o SetToSeq({New(w) : w \in ids \ SteamIds(list)})

\* All at once, after the backup, also what was switched off or removed since the
\* list was read; if one fails, or its download was removed, those before it are on
\* the server and not in the list.
UpdatesPlaced(s, done) ==
  /\ files' = [files EXCEPT ![s] = [i \in Items |-> IF i \in done THEN {cache[s][i]} ELSE @[i]]]
  /\ active' = [active EXCEPT ![s] = @ \cup done]
  /\ root' = [root EXCEPT ![s] = TRUE]
  /\ rollback' = [rollback EXCEPT ![s] = [i \in Items |-> IF i \in done THEN {} ELSE @[i]]]

PlacesUpdates(s) ==
  /\ job[s]["task"].at = "backup"
  /\ LET got == job[s]["task"].got
         ids == {g.id : g \in got}
     IN \/ /\ UpdatesPlaced(s, ids)
           /\ Saves(s, Updated(mods[s], got))
           /\ wanted' = [wanted EXCEPT ![s] =
                            [i \in Items |-> IF i \in ids THEN SwitchedOn(s, i) ELSE @[i]]]
           /\ unsure' = [unsure EXCEPT ![s] = @ \ ids]
           /\ stale' = [stale EXCEPT ![s] = @ \ ids]
           /\ \A i \in ids : cache[s][i] # 0
           /\ faults' = faults
        \/ \E done \in SUBSET {i \in ids : cache[s][i] # 0} \ {ids} :
             /\ IF \E i \in ids : cache[s][i] = 0 THEN faults' = faults ELSE Fault
             /\ UpdatesPlaced(s, done) /\ Unsure(s, ids) /\ UNCHANGED mods
  /\ Goes(s, "task", Idle)
  /\ NotScanned
  /\ UNCHANGED <<staged, Outside, inventory, ops>>

-----------------------------------------------------------------------------
(* Pages and buttons                                                        *)

\* The list drops what was put there by hand, then all that is not of the Workshop.
OpenPage(s) ==
  /\ LET Shown(r) == r.src # "manual" IN Saves(s, Discovered(s, Where(mods[s], Shown)))
  /\ NotScanned
  /\ UNCHANGED <<Kept, Outside, inventory, job, ops, faults, History>>

Status(s, k, on) == Saves(s, [mods[s] EXCEPT ![k].on = on])

\* A neighbour whose folder lay in disabled_mods, and lies there no longer.
Owner(s, i) == {t \in Servers \ {s} : \E c \in staged : c.id = i /\ c.of = t}
Unstaged(i) == {c \in staged : c.id # i}

\* A request for a mod that was answered, and carried out or not.
Answers(s, i, what, done, robbed) ==
  /\ wanted' = [wanted EXCEPT ![s][i] = what]
  /\ unsure' = [t \in Servers |-> IF t \in robbed \/ (t = s /\ ~done) THEN unsure[t] \cup {i} ELSE
                                  IF t = s THEN unsure[t] \ {i} ELSE unsure[t]]
  /\ stale' = [stale EXCEPT ![s] = @ \ {i}]

\* Only the folder that the record names is moved: the request for a package or
\* a loose PAK file is answered, and the game goes on loading it.
Moved(r) == r.id \in OnDisk /\ r.dir = InFolder

Enable(s, k) ==
  /\ Asked
  /\ k \in DOMAIN mods[s]
  /\ LET r == mods[s][k]
         i == r.id IN
       \/ /\ i \in Workshop
          /\ Activates(s, i, TRUE) /\ Answers(s, i, "on", files[s][i] # {}, {})
          /\ UNCHANGED <<files, staged>>
       \/ /\ Moved(r) /\ Unstaged(i) # staged
          /\ Places(s, i, files[s][i] \cup {InFolder}) /\ staged' = Unstaged(i)
          /\ Answers(s, i, "on", TRUE, Owner(s, i))
          /\ UNCHANGED <<active, root>>
       \/ /\ i \notin Workshop /\ (Moved(r) => Unstaged(i) = staged)
          /\ Answers(s, i, "on", Loads(s, i), {})
          /\ UNCHANGED <<active, root, files, staged>>
  /\ Status(s, k, TRUE)
  /\ NotScanned
  /\ UNCHANGED <<rollback, Outside, inventory, job, faults>>

Disable(s, k) ==
  /\ Asked
  /\ k \in DOMAIN mods[s]
  /\ LET r == mods[s][k]
         i == r.id IN
       \/ /\ i \in Workshop
          /\ Activates(s, i, FALSE) /\ Answers(s, i, "off", TRUE, {})
          /\ UNCHANGED <<files, staged>>
       \/ /\ Moved(r) /\ InFolder \in files[s][i]
          /\ Places(s, i, files[s][i] \ {InFolder})
          /\ staged' = Unstaged(i) \cup {[id |-> i, of |-> s]}
          /\ Answers(s, i, "off", files[s][i] = {InFolder}, Owner(s, i))
          /\ UNCHANGED <<active, root>>
       \/ /\ i \notin Workshop /\ (Moved(r) => InFolder \notin files[s][i])
          /\ Answers(s, i, "off", ~Loads(s, i), {})
          /\ UNCHANGED <<active, root, files, staged>>
  /\ Status(s, k, FALSE)
  /\ NotScanned
  /\ UNCHANGED <<rollback, Outside, inventory, job, faults>>

RemoveMod(s, k) ==
  /\ Asked
  /\ k \in DOMAIN mods[s]
  /\ LET r == mods[s][k]
         i == r.id IN
       \/ /\ i \in Workshop
          /\ Activates(s, i, FALSE) /\ Answers(s, i, "out", TRUE, {})
          /\ Places(s, i, {})
          /\ cache' = [cache EXCEPT ![s][i] = 0]
          /\ UNCHANGED staged
       \/ /\ Moved(r)
          /\ Places(s, i, files[s][i] \ {InFolder}) /\ staged' = Unstaged(i)
          /\ Answers(s, i, "out", files[s][i] \subseteq {InFolder}, Owner(s, i))
          /\ UNCHANGED <<active, root, cache>>
       \/ /\ i \notin Workshop /\ ~Moved(r)
          /\ Answers(s, i, "out", ~Loads(s, i), {})
          /\ UNCHANGED <<active, root, files, staged, cache>>
  /\ Saves(s, Without(mods[s], k))
  /\ NotScanned
  /\ UNCHANGED <<rollback, latest, inventory, job, faults>>

\* A folder cannot be deleted or moved as a whole: the request ends with an error
\* and the list stays as it was.  A Workshop mod that was to be removed is already
\* out of PalModSettings.ini.
RequestFails(s, k) ==
  /\ Asked /\ Fault
  /\ k \in DOMAIN mods[s]
  /\ LET r == mods[s][k]
         i == r.id IN
       \/ /\ i \in Workshop
          /\ Activates(s, i, FALSE)
          /\ \E left \in {files[s][i], {Torn}, {}} : Places(s, i, left)
          /\ \E v \in {cache[s][i], 0} : cache' = [cache EXCEPT ![s][i] = v]
          /\ Unsure(s, {i})
          /\ UNCHANGED staged
       \/ /\ Moved(r)
          /\ \E left \in HalfCopied(s, i, InFolder) : Places(s, i, left)
          /\ staged' \in {staged, Unstaged(i), Unstaged(i) \cup {[id |-> i, of |-> s]}}
          /\ Answers(s, i, wanted[s][i], FALSE, Owner(s, i))
          /\ UNCHANGED <<active, root, cache>>
  /\ NotScanned
  /\ UNCHANGED <<mods, rollback, latest, inventory, job>>

\* A file that a user has uploaded and confirmed becomes a folder, if it can be
\* copied; the record does not say where.
ConfirmUpload(s, i, known) ==
  /\ Asked
  /\ i \in Offered[s] \cap OnDisk
  /\ \/ /\ Places(s, i, WithFolder(s, i, InFolder))
        /\ LET new == Record(i, IF known THEN "nexus" ELSE "manual", TRUE, latest[i])
           IN Saves(s, IF known THEN Put(mods[s], new) ELSE Append(mods[s], new))
        /\ Wants(s, i, "on")
        /\ faults' = faults
     \/ /\ Fault
        /\ \E left \in HalfCopied(s, i, InFolder) : Places(s, i, left)
        /\ Unsure(s, {i})
        /\ UNCHANGED mods
  /\ NotScanned
  /\ UNCHANGED <<active, root, rollback, staged, Outside, inventory, job>>

-----------------------------------------------------------------------------
(* The list of Nexus mods                                                   *)

Rescan(s) ==
  /\ Asked
  /\ \E list \in {Deduplicated(s, WithPaks(s, WithFolders(s, WithPackages(s, mods[s]))))} :
       /\ Saves(s, list)
       /\ inventory' = [inventory EXCEPT ![s] = Told(s, list)]
  /\ scanned' = {s}
  /\ UNCHANGED <<Kept, Outside, job, faults, History>>

\* Mutant: the package of the mod stays in PalModSettings.ini.
StillActive(s, i) == UNCHANGED <<active, root>>

Deactivates(s, i) == IF i \in Packages THEN Activates(s, i, FALSE) ELSE UNCHANGED <<active, root>>

\* The folder of a package, or what has the paths of the record.
Leaves(s, r) ==
  files[s][r.id] \ (IF r.id \in Packages THEN {r.ver} ELSE IF r.at # {} THEN r.at ELSE {r.dir})

\* The server does not run.  Another file of the same package stays, unnamed;
\* another copy of a PAK file stays, and is loaded.
Uninstall(s, k) ==
  /\ Asked
  /\ k \in DOMAIN mods[s] /\ IsNexus(mods[s][k])
  /\ LET i == mods[s][k].id
         left == Leaves(s, mods[s][k])
     IN /\ Deactivates(s, i)
        /\ \/ /\ Places(s, i, left)
              /\ Saves(s, Without(mods[s], k))
              /\ inventory' = [inventory EXCEPT ![s] = {e \in @ : e.id # i}]
              /\ Answers(s, i, "out", i \in Packages \/ left = {}, {})
              /\ faults' = faults
           \/ /\ Fault
              /\ \E some \in SUBSET (files[s][i] \ left), half \in {{}, {Torn}} :
                   /\ half = {} \/ i \in Packages
                   /\ Places(s, i, left \cup some \cup half)
              /\ Unsure(s, {i})
              /\ UNCHANGED <<mods, inventory>>
  /\ NotScanned
  /\ UNCHANGED <<rollback, staged, Outside, job>>

\* A mod that the list no longer has is looked for once.
UninstallMissing(s) ==
  /\ Asked
  /\ Saves(s, WithFolders(s, WithPaks(s, mods[s])))
  /\ mods' # mods
  /\ NotScanned
  /\ UNCHANGED <<Kept, Outside, inventory, job, faults, History>>

-----------------------------------------------------------------------------
(* EGM ends                                                                  *)

\* In the middle of an install: the old copy of a package lies aside, the new one
\* is there in part, or whole and perhaps already named, and not in the list.
CutOff(s, p, i) ==
  /\ job[s][p].at = "place" /\ job[s][p].id = {i}
  /\ \/ /\ i \in OnDisk
        /\ \E left \in HalfCopied(s, i, Spot(i)) : Places(s, i, left)
        /\ UNCHANGED <<rollback, active, root>>
     \/ /\ i \notin OnDisk
        /\ LET old == IF i \in Packages THEN files[s][i] \cap {job[s][p].ver} ELSE files[s][i]
           IN \E aside \in {old, {}}, half \in {{}, {Torn}, {job[s][p].ver}} :
                /\ rollback' = [rollback EXCEPT ![s][i] = aside]
                /\ Places(s, i, (files[s][i] \ old) \cup half)
                /\ \/ aside = old /\ UNCHANGED <<active, root>>
                   \/ half = {job[s][p].ver} /\ Activates(s, i, TRUE)
  /\ Unsure(s, {i})

\* In the middle of the updates: some are there and named, one may be cut off.
UpdatesCutOff(s) ==
  /\ job[s]["task"].at = "backup"
  /\ LET ids == {g.id : g \in job[s]["task"].got} IN
     \E done \in SUBSET {i \in ids : cache[s][i] # 0} :
     \E torn \in SUBSET (ids \ done), half \in {{}, {Torn}} :
       /\ Cardinality(torn) <= 1
       /\ files' = [files EXCEPT ![s] = [i \in Items |-> IF i \in done THEN {cache[s][i]} ELSE
                                                        IF i \in torn THEN half ELSE @[i]]]
       /\ rollback' = [rollback EXCEPT ![s] = [i \in Items |-> IF i \in done THEN {} ELSE
                                                              IF i \in torn THEN files[s][i] ELSE @[i]]]
       /\ active' = [active EXCEPT ![s] = @ \cup done]
       /\ root' = [root EXCEPT ![s] = TRUE]
       /\ Unsure(s, ids)

\* A request that is cut off leaves what one that fails leaves.
Restart ==
  /\ Fault
  /\ job' = [s \in Servers |-> [p \in Jobs |-> Idle]]
  /\ \/ UNCHANGED <<active, root, files, rollback, History>>
     \/ \E s \in Servers, p \in Jobs, i \in Items : CutOff(s, p, i)
     \/ \E s \in Servers : UpdatesCutOff(s)
  /\ NotScanned
  /\ UNCHANGED <<mods, staged, Outside, inventory, ops>>

NewVersion(i) ==
  /\ i \in Workshop /\ latest[i] < Newest[i]
  /\ latest' = [latest EXCEPT ![i] = @ + 1]
  /\ NotScanned
  /\ UNCHANGED <<mods, Kept, cache, inventory, job, ops, faults, History>>

-----------------------------------------------------------------------------
Init ==
  /\ mods = [s \in Servers |-> <<>>]
  /\ active = [s \in Servers |-> {}]
  /\ root = [s \in Servers |-> FALSE]
  /\ files = [s \in Servers |-> [i \in Items |-> {}]]
  /\ rollback = [s \in Servers |-> [i \in Items |-> {}]]
  /\ staged = {}
  /\ cache = [s \in Servers |-> [w \in Workshop |-> 0]]
  /\ latest = [i \in Items |-> IF i \in Workshop THEN 1 ELSE Newest[i]]
  /\ inventory = [s \in Servers |-> {}]
  /\ job = [s \in Servers |-> [p \in Jobs |-> Idle]]
  /\ ops = 0 /\ faults = 0
  /\ wanted = [s \in Servers |-> [i \in Items |-> "out"]]
  /\ unsure = [s \in Servers |-> {}] /\ stale = [s \in Servers |-> {}]
  /\ scanned = {}

JobStep(s, p) ==
  \/ \E i \in Items :
       \/ \E force \in BOOLEAN : InstallBegins(s, p, i, force)
       \/ GetsDetails(s, p, i) \/ PlacesMod(s, p, i) \/ PlaceFails(s, p, i)
  \/ \E all \in BOOLEAN : CheckBegins(s, p, all)
  \/ CheckEnds(s, p) \/ JobFails(s, p)

PageStep(s) ==
  \/ NextUpdate(s) \/ PlacesUpdates(s) \/ \E w \in Workshop : Downloads(s, w)
  \/ OpenPage(s) \/ Rescan(s) \/ UninstallMissing(s)
  \/ \E k \in DOMAIN mods[s] : Enable(s, k) \/ Disable(s, k) \/ RemoveMod(s, k) \/ RequestFails(s, k) \/ Uninstall(s, k)
  \/ \E i \in Items, known \in BOOLEAN : ConfirmUpload(s, i, known)

Next ==
  \/ \E s \in Servers : PageStep(s) \/ \E p \in Jobs : JobStep(s, p)
  \/ Restart
  \/ \E i \in Items : NewVersion(i)

Spec == Init /\ [][Next]_vars

-----------------------------------------------------------------------------
(* Properties                                                               *)

\* A record of a Workshop mod is from Steam, one of a package from Nexus.
Records ==
  {r \in [id: Items, src: {"steam", "nexus", "unknown", "manual"}, on: BOOLEAN, ver: Versions \cup {0},
           at: SUBSET Spots, dir: Spots] :
     (IsSteam(r) <=> r.id \in Workshop) /\ (r.id \in Packages => r.src = "nexus")}
Works ==
  [at: {"idle", "details", "download", "next", "backup", "place", "check"},
   kind: {"none", "install", "check", "all"}, id: SUBSET Items, ver: Versions \cup {0},
   force: BOOLEAN, read: Seq(Records), todo: SUBSET Workshop,
   got: SUBSET [id: Workshop, ver: Versions \cup {0}]]

TypeOK ==
  /\ mods \in [Servers -> Seq(Records)]
  /\ active \in [Servers -> SUBSET Items] /\ root \in [Servers -> BOOLEAN]
  /\ files \in [Servers -> [Items -> SUBSET (Versions \cup {Torn} \cup Spots)]]
  /\ \A s \in Servers : \A i \in Items : files[s][i] \subseteq Copies(i)
  /\ rollback \in [Servers -> [Items -> SUBSET (Versions \cup {Torn})]]
  /\ staged \subseteq [id: OnDisk, of: Servers]
  /\ cache \in [Servers -> [Workshop -> Versions \cup {0}]]
  /\ latest \in [Items -> Versions] /\ \A i \in Items : latest[i] <= Newest[i]
  /\ inventory \in [Servers -> SUBSET [id: Items, at: SUBSET Spots]]
  /\ job \in [Servers -> [Jobs -> Works]]
  /\ {ops, faults} \subseteq Nat
  /\ wanted \in [Servers -> [Items -> {"out", "on", "off", "asked", "overruled"}]]
  /\ unsure \in [Servers -> SUBSET Items] /\ stale \in [Servers -> SUBSET Workshop]
  /\ scanned \subseteq Servers

\* What the game loads is what users last asked for, or what a task has switched on
\* since: no check, scan, page or second file of a mod loads something else, unless a
\* fault, a neighbour or a request that is not carried out was in between
\* (pal_mod_settings.py: set_enabled; mod_installer.py: enable, disable, remove).
LoadsAsWanted ==
  \A s \in Servers : \A i \in Items \ unsure[s] :
    Loads(s, i) <=> wanted[s][i] \in {"on", "overruled"}

\* After a scan every mod from Nexus that lies on the server is listed, save for a
\* package that could not be copied; a package, and a mod whose files have its name,
\* is listed once (nexus_mod_service.py: downloaded_nexus_mods,
\* _existing_record_for_paths, _deduplicate_nexus_records).
ListedOnce ==
  \A s \in scanned : \A i \in Items \ Workshop :
    LET entries == {k \in DOMAIN mods[s] : IsNexus(mods[s][k]) /\ mods[s][k].id = i}
    IN /\ i \in Packages \cup Named => Cardinality(entries) <= 1
       /\ files[s][i] \ {Torn} # {} => entries # {}

\* A Workshop mod is listed as enabled exactly if the game loads it
\* (routes/mods/crud.py: enable_mod, disable_mod; steam_workshop.py: check_updates).
StatusIsTrue ==
  \A s \in Servers : \A k \in DOMAIN mods[s] :
    LET r == mods[s][k] IN
      IsSteam(r) /\ r.id \notin unsure[s] \cup stale[s] => (r.on <=> Loads(s, r.id))

\* A check for updates keeps the records that are not of the Workshop
\* (steam_workshop.py:605).
KeepsOthers ==
  [][\A s \in Servers : (\E p \in Jobs : CheckEnds(s, p) \/ \E all \in BOOLEAN : CheckBegins(s, p, all))
        => NexusIds(mods[s]) = NexusIds(mods'[s])]_vars

\* An update of all mods switches none on that users have switched off or removed
\* (steam_workshop.py:392, 657).
UpdatesKeepChoices ==
  [][\A s \in Servers : PlacesUpdates(s) =>
        \A i \in Items : wanted[s][i] \in {"off", "out"} => wanted'[s][i] = wanted[s][i]]_vars

\* The same mod is never listed twice, whatever its files are called
\* (nexus_mod_service.py:788).
NeverTwice ==
  \A s \in scanned : \A j, k \in DOMAIN mods[s] :
    IsNexus(mods[s][j]) /\ IsNexus(mods[s][k]) /\ mods[s][j].id = mods[s][k].id => j = k
=============================================================================
