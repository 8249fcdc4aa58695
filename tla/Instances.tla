------------------------------ MODULE Instances ------------------------------
(***************************************************************************)
(* The registry of servers: services/instance_store.py over storage.py,    *)
(* the routes of routes/instances.py that change it, and the deployments   *)
(* of services/deploy_jobs.py that add to it.                              *)
(*                                                                         *)
(* Every operation loads the file, repairs what it read, changes it and    *)
(* saves it, without a lock.  Handlers and deployments run on the event    *)
(* loop, one at a time, and are one step each.  The start of a server and  *)
(* the overview run in threads and may write the game port that they found *)
(* in the settings of the server: they load in one step and save in        *)
(* another.  (What a thread saves within a step of the loop is overwritten *)
(* by it: to the file, this thread has not saved at all.)                  *)
(*                                                                         *)
(* A record holds the ports twice: in gamePort, rconPort and queryPort,    *)
(* which the repair keeps apart and Palworld is started with, and in the   *)
(* map `ports`, which pages, deployments and the start of Conan read.      *)
(***************************************************************************)
EXTENDS Integers, SequencesExt

CONSTANTS
  Paths,     \* folders of servers, resolved
  Conan,     \* those of Conan Exiles; the others are Palworld's
  MaxPort,   \* ports are 1..MaxPort
  Custom,    \* ports that users ask for
  Requests,  \* the ports that users ask for in deployments
  Threads,
  Jobs,      \* deployments
  Legacy,    \* registries that earlier versions have left behind
  MaxOps     \* bound: changes asked for by users

Ports == 1..MaxPort
None == 0
PortMap == [game: Ports, rest: Ports, query: Ports]
NoMap == [game |-> None, rest |-> None, query |-> None]
\* What a registry may hold: query ports and the map came with later versions.
Stored == [id: Int, path: Paths, ports: [game: Ports, rest: Ports, query: Ports \cup {None}],
           map: PortMap \cup {NoMap}]

\* There are ports for the servers of all folders, and one more.
ASSUME InstancesAssumption ==
  /\ IsFiniteSet(Paths) /\ Paths # {}
  /\ Conan \subseteq Paths
  /\ MaxPort \in Nat /\ MaxPort >= 7 /\ MaxPort >= 3 * (Cardinality(Paths) + 1)
  /\ Custom \subseteq Ports /\ Requests \subseteq PortMap
  /\ MaxOps \in Nat
  /\ \A data \in Legacy :
       /\ data.list \in Seq(Stored)
       /\ \A k, l \in DOMAIN data.list :
            data.list[k].id < 0 /\ (data.list[k].id = data.list[l].id => k = l)

VARIABLES
  registry,  \* what the next read of instances.json gives, repaired
  folder,    \* what there is of a server in each folder
  ini,       \* the ports in the settings of the server in each folder
  read,      \* what each thread has loaded and not saved yet
  job,       \* the deployments: _jobs
  removed,   \* history: instances that users removed
  nextId, ops

vars == <<registry, folder, ini, read, job, removed, nextId, ops>>

Known == UNION {{data.list[k].id : k \in DOMAIN data.list} : data \in Legacy}
Ids == Known \cup 1..MaxOps
\* The default ports of Palworld and of Conan Exiles.
Default(path) == IF path \in Conan THEN [game |-> 4, rest |-> 7, query |-> 6]
                 ELSE [game |-> 1, rest |-> 2, query |-> 3]
NoRead == [active |-> None, list |-> <<>>, held |-> FALSE]
NoJob == [status |-> "none", path |-> CHOOSE p \in Paths : TRUE, copy |-> FALSE,
          ports |-> Default(CHOOSE p \in Paths : TRUE), id |-> None]

-----------------------------------------------------------------------------
(* Port allocation                                                          *)

Distinct(p) == p.game # p.rest /\ p.game # p.query /\ p.rest # p.query
PortsOf(r) == {r.ports.game, r.ports.rest, r.ports.query} \ {None}
Reserved(list) == UNION {PortsOf(list[k]) : k \in DOMAIN list}

\* The first free port from the preferred one on, then from below.
NextFree(p, taken) ==
  LET above == (p..MaxPort) \ taken
      below == (1..(p - 1)) \ taken
      Least(S) == CHOOSE x \in S : \A y \in S : x <= y
  IN IF above # {} THEN Least(above) ELSE Least(below)

\* Mutant: the REST port is not reserved for the query port.
AllocateTwice(list, p) ==
  LET game == NextFree(p.game, Reserved(list))
      rest == NextFree(IF p.rest # game THEN p.rest ELSE game + 1, Reserved(list) \cup {game})
      query == NextFree(IF p.query # None THEN p.query ELSE rest, Reserved(list) \cup {game})
  IN [game |-> game, rest |-> rest, query |-> query]

Allocate(list, p) ==
  LET game == NextFree(p.game, Reserved(list))
      rest == NextFree(IF p.rest # game THEN p.rest ELSE game + 1, Reserved(list) \cup {game})
      larger == IF game > rest THEN game ELSE rest
      query == NextFree(IF p.query # None THEN p.query ELSE larger + 1,
                        Reserved(list) \cup {game, rest})
  IN [game |-> game, rest |-> rest, query |-> query]

-----------------------------------------------------------------------------
(* _dedupe_data                                                             *)

Preferred(r, old, active) == r.id = active \/ (old.id # active /\ r.id < old.id)

\* A map that is missing is made of the ports as they were read, and is not
\* touched when these are allocated anew.
Filled(r) ==
  IF r.map # NoMap THEN r.map
  ELSE [r.ports EXCEPT !.query = IF @ # None THEN @ ELSE Default(r.path).query]

Keep(kept, r, active) ==
  LET new == [id |-> r.id, path |-> r.path, ports |-> Allocate(kept, r.ports), map |-> Filled(r)]
      same == {k \in DOMAIN kept : kept[k].path = r.path}
  IN IF same = {} THEN Append(kept, new)
     ELSE [k \in DOMAIN kept |->
            IF k \in same /\ Preferred(r, kept[k], active) THEN new ELSE kept[k]]

IdsOf(list) == {list[k].id : k \in DOMAIN list}
ActiveIn(list, active) ==
  IF active \in IdsOf(list) THEN active ELSE IF list = <<>> THEN None ELSE list[1].id

\* (Sets of one element: TLC evaluates what stands in them once.)
Kept(list, active) ==
  LET kept[k \in 0..Len(list)] ==
        IF k = 0 THEN <<>>
        ELSE CHOOSE next \in {Keep(before, list[k], active) : before \in {kept[k - 1]}} : TRUE
  IN kept[Len(list)]

\* Mutant: the active instance is looked up before duplicates are dropped.
CleanBefore(data) ==
  [active |-> ActiveIn(data.list, data.active),
   list |-> Kept(data.list, None)]

Clean(data) ==
  LET list == Kept(data.list, data.active)
  IN [active |-> ActiveIn(list, data.active), list |-> list]

-----------------------------------------------------------------------------
(* Load, change, save                                                       *)

Asked == ops < MaxOps /\ ops' = ops + 1
Saves(active, list) == registry' \in {Clean(data) : data \in {[active |-> active, list |-> list]}}

\* Some of the ports set to p, in both places.
Set(ports, keys, p) ==
  [game |-> IF "game" \in keys THEN p ELSE ports.game,
   rest |-> IF "rest" \in keys THEN p ELSE ports.rest,
   query |-> IF "query" \in keys THEN p ELSE ports.query]
With(list, id, keys, p) ==
  [k \in DOMAIN list |->
    LET r == list[k] IN
    IF r.id # id THEN r
    ELSE [id |-> id, path |-> r.path, ports |-> Set(r.ports, keys, p), map |-> Set(r.map, keys, p)]]
Entry(list, id) == CHOOSE r \in Range(list) : r.id = id
Place(list, id) == CHOOSE k \in DOMAIN list : list[k].id = id
Others(list, id) == {r \in Range(list) : r.id # id}

\* create_instance: a known folder is made active, another one is appended.  Its
\* ports are allocated; its map is the given one, whatever the other maps hold.
Created(path, p, given) ==
  LET data == registry
      same == {r \in Range(data.list) : r.path = path}
      ports == Allocate(data.list, p)
  IN IF same # {}
     THEN [data EXCEPT !.active = (CHOOSE r \in same : TRUE).id]
     ELSE [active |-> nextId,
           list |-> Append(data.list, [id |-> nextId, path |-> path, ports |-> ports,
                                       map |-> IF given = NoMap THEN ports ELSE given])]

Creates(path, p, given) ==
  \E data \in {Created(path, p, given)} :
    /\ registry' \in {Clean(data)}
    /\ nextId' = IF data.active = nextId THEN nextId + 1 ELSE nextId

\* import_existing gives the default ports for Palworld, those of its settings for
\* Conan; the import from the Steam library gives none.
Imports(path) ==
  /\ Asked
  /\ folder[path] = "ready"
  /\ \/ \E p \in {IF path \in Conan THEN ini[path] ELSE Default(path)} : Creates(path, p, p)
     \/ path \notin Conan /\ Creates(path, Default(path), NoMap)
  /\ UNCHANGED <<folder, ini, read, job, removed>>

SetsActive(id) ==
  /\ Asked
  /\ id \in IdsOf(registry.list)
  /\ Saves(id, registry.list)
  /\ UNCHANGED <<folder, ini, read, job, removed, nextId>>

\* remove_instance, with its folder if that is asked for.
Removes(id) ==
  LET data == registry
      list == RemoveAt(data.list, Place(data.list, id))
      path == Entry(data.list, id).path
  IN /\ Asked
     /\ id \in IdsOf(data.list)
     /\ Saves(IF data.active = id THEN IF list = <<>> THEN None ELSE list[1].id
                    ELSE data.active, list)
     /\ removed' = removed \cup {id}
     /\ folder' \in {folder, [folder EXCEPT ![path] = "none"]}
     /\ UNCHANGED <<ini, read, job, nextId>>

\* update_game_port: unique among the ports of the registry as it is now, not
\* among its maps.
GamePortIsFree(id, p, list) ==
  /\ p.game # p.rest /\ p.game # p.query
  /\ p.game \notin UNION {PortsOf(r) : r \in Others(list, id)}

\* resolve_game_port: Palworld's default gives way to the settings.
FollowsSettings(r) ==
  /\ r.path \notin Conan
  /\ r.ports.game = Default(r.path).game /\ ini[r.path].game # Default(r.path).game

\* update_query_port looks at the game and query ports of the others, not at
\* their REST ports.  (Where resolve_game_port saves, this overwrites it.)
SetsQueryPort(id, q) ==
  LET data == registry
      r == Entry(data.list, id)
  IN /\ Asked
     /\ id \in IdsOf(data.list)
     /\ \A o \in Range(data.list) : q # o.ports.game /\ (o.id # id => q # o.ports.query)
     /\ FollowsSettings(r) =>
          q # ini[r.path].game
          /\ GamePortIsFree(id, [r.ports EXCEPT !.game = ini[r.path].game], data.list)
     /\ Saves(data.active, With(data.list, id, {"query"}, q))
     /\ UNCHANGED <<folder, ini, read, job, removed, nextId>>

\* The settings page of Palworld, for the active server: the settings are written
\* before the port is compared, and stay if it is refused.
SetsGamePort(id, g) ==
  LET data == registry
      r == Entry(data.list, id)
  IN /\ Asked
     /\ id = data.active /\ data.list # <<>>
     /\ r.path \notin Conan
     /\ IF GamePortIsFree(id, [r.ports EXCEPT !.game = g], data.list)
        THEN Saves(data.active, With(data.list, id, {"game"}, g)) ELSE UNCHANGED registry
     /\ ini' = [ini EXCEPT ![r.path] = [@ EXCEPT !.game = g]]
     /\ UNCHANGED <<folder, read, job, removed, nextId>>

\* update_network_ports: the settings page of Conan, which compares with nothing.
SetsNetworkPorts(id, keys, p) ==
  LET data == registry
      r == Entry(data.list, id)
  IN /\ Asked
     /\ id = data.active /\ data.list # <<>>
     /\ r.path \in Conan
     /\ Saves(data.active, With(data.list, id, keys, p))
     /\ ini' = [ini EXCEPT ![r.path] = Set(@, keys, p)]
     /\ UNCHANGED <<folder, read, job, removed, nextId>>

\* resolve_game_port in a thread: update_game_port loads.
ThreadLoads(t) ==
  /\ ~read[t].held
  /\ read' = [read EXCEPT ![t] = [active |-> registry.active, list |-> registry.list, held |-> TRUE]]
  /\ UNCHANGED <<registry, folder, ini, job, removed, nextId, ops>>

ThreadSaves(t, id) ==
  LET data == read[t]
      r == Entry(data.list, id)
  IN /\ read[t].held
     /\ id \in IdsOf(data.list)
     /\ FollowsSettings(r)
     /\ GamePortIsFree(id, [r.ports EXCEPT !.game = ini[r.path].game], registry.list)
     /\ Saves(data.active, With(data.list, id, {"game"}, ini[r.path].game))
     /\ read' = [read EXCEPT ![t] = NoRead]
     /\ UNCHANGED <<folder, ini, job, removed, nextId, ops>>

\* It has only read, or the port is refused.
ThreadDrops(t) ==
  /\ read[t].held
  /\ read' = [read EXCEPT ![t] = NoRead]
  /\ UNCHANGED <<registry, folder, ini, job, removed, nextId, ops>>

-----------------------------------------------------------------------------
(* Deployments                                                              *)

Goes(j, status) == job' = [job EXCEPT ![j].status = status]

\* What a server takes of the ports in its map: Conan also uses the one after its
\* game port.
Taken(p, path) ==
  {p.game, p.rest, p.query} \cup (IF path \in Conan THEN {p.game + 1} ELSE {})

\* validate_port_map: the ports of the request differ, and from the maps of all
\* servers.
MayDeploy(p, path, list) ==
  /\ Distinct(p)
  /\ path \in Conan => p.game + 1 \in Ports \ {p.rest, p.query}
  /\ \A r \in Range(list) : Taken(p, path) \cap Taken(r.map, r.path) = {}

\* deploy and start_deploy: the folder is empty and the ports are free now.
Deploys(j, path, copy) ==
  /\ Asked
  /\ job[j].status = "none"
  /\ folder[path] = "none"
  /\ \E p \in Requests :
       /\ MayDeploy(p, path, registry.list)
       /\ job' = [job EXCEPT ![j] =
                   [status |-> "start", path |-> path, copy |-> copy, ports |-> p, id |-> None]]
  /\ UNCHANGED <<registry, folder, ini, read, removed, nextId>>

\* copytree refuses a folder that exists; SteamCMD does not.
InstallBegins(j) ==
  /\ job[j].status = "start"
  /\ ~(job[j].copy /\ folder[job[j].path] # "none")
  /\ folder' = [folder EXCEPT ![job[j].path] = "partial"]
  /\ Goes(j, "install")
  /\ UNCHANGED <<registry, ini, read, removed, nextId, ops>>

InstallEnds(j) ==
  /\ job[j].status = "install"
  /\ folder' = [folder EXCEPT ![job[j].path] = "ready"]
  /\ Goes(j, "register")
  /\ UNCHANGED <<registry, ini, read, removed, nextId, ops>>

\* _fail_job
InstallFails(j) ==
  /\ \/ job[j].status = "start" /\ job[j].copy /\ folder[job[j].path] # "none"
     \/ job[j].status = "install"
  /\ Goes(j, "error")
  /\ UNCHANGED <<registry, folder, ini, read, removed, nextId, ops>>

\* initialize_server and create_instance.
Registers(j) ==
  /\ job[j].status = "register"
  /\ ini' = [ini EXCEPT ![job[j].path] = job[j].ports]
  /\ Creates(job[j].path, job[j].ports, job[j].ports)
  /\ job' = [job EXCEPT ![j].status = "firewall",
                        ![j].id = Created(job[j].path, job[j].ports, job[j].ports).active]
  /\ UNCHANGED <<folder, read, removed, ops>>

\* A firewall that cannot be set up is a warning only.
Finishes(j) ==
  /\ job[j].status = "firewall"
  /\ Goes(j, "done")
  /\ UNCHANGED <<registry, folder, ini, read, removed, nextId, ops>>

-----------------------------------------------------------------------------

Settings(path) == {[Default(path) EXCEPT !.game = c] : c \in Custom \cup {Default(path).game}}

\* What an earlier version knows, and folders with servers.
Init ==
  /\ registry \in {Clean(data) : data \in Legacy}
  /\ folder \in [Paths -> {"none", "ready"}]
  /\ ini \in [Paths -> UNION {Settings(p) : p \in Paths}] /\ \A p \in Paths : ini[p] \in Settings(p)
  /\ read = [t \in Threads |-> NoRead]
  /\ job = [j \in Jobs |-> NoJob]
  /\ removed = {} /\ nextId = 1 /\ ops = 0

Handler ==
  \/ \E p \in Paths : Imports(p)
  \/ \E i \in Ids : SetsActive(i) \/ Removes(i)
  \/ \E i \in Ids, c \in Custom :
       \/ SetsQueryPort(i, c) \/ SetsGamePort(i, c)
       \/ \E keys \in (SUBSET {"game", "rest", "query"}) \ {{}} : SetsNetworkPorts(i, keys, c)

Deployment(j) == InstallBegins(j) \/ InstallEnds(j) \/ InstallFails(j) \/ Registers(j) \/ Finishes(j)

Next ==
  \/ Handler
  \/ \E t \in Threads : ThreadLoads(t) \/ ThreadDrops(t) \/ \E i \in Ids : ThreadSaves(t, i)
  \/ \E j \in Jobs, p \in Paths, copy \in BOOLEAN : Deploys(j, p, copy)
  \/ \E j \in Jobs : Deployment(j)

Spec == Init /\ [][Next]_vars

-----------------------------------------------------------------------------
(* Properties                                                               *)

DataType(data) ==
  /\ data.active \in Ids \cup {None}
  /\ \A k \in DOMAIN data.list : data.list[k] \in [id: Ids, path: Paths, ports: PortMap, map: PortMap]

TypeOK ==
  /\ DataType(registry)
  /\ folder \in [Paths -> {"none", "partial", "ready"}]
  /\ ini \in [Paths -> {[Default(p) EXCEPT !.game = c] : p \in Paths, c \in Custom \cup {1, 4}}]
  /\ \A t \in Threads : DataType(read[t]) /\ read[t].held \in BOOLEAN
  /\ job \in [Jobs -> [status: {"none", "start", "install", "register", "firewall", "done", "error"},
                       path: Paths, copy: BOOLEAN, ports: PortMap, id: Ids \cup {None}]]
  /\ removed \subseteq Ids
  /\ nextId \in 1..(MaxOps + 1) /\ ops \in 0..MaxOps

\* Whatever threads and handlers have overwritten of each other, and whatever
\* Conan's settings ask for: what the next operation reads has one entry per folder,
\* no gamePort, rconPort or queryPort twice, neither between servers nor within
\* one, and an active server that exists.  (The maps are another matter: see
\* MapsAreOwn.)
ReadsAreClean ==
  LET data == registry IN
  /\ \A k, l \in DOMAIN data.list : k # l =>
       /\ data.list[k].id # data.list[l].id
       /\ data.list[k].path # data.list[l].path
       /\ PortsOf(data.list[k]) \cap PortsOf(data.list[l]) = {}
  /\ \A k \in DOMAIN data.list : Distinct(data.list[k].ports)
  /\ IF data.list = <<>> THEN data.active = None ELSE data.active \in IdsOf(data.list)

\* Not checked, and not so: two servers whose maps have a port in common, which an
\* import, the settings of Conan and the repair itself allow.
MapsAreOwn ==
  \A k, l \in DOMAIN registry.list : k # l =>
    Taken(registry.list[k].map, registry.list[k].path)
      \cap Taken(registry.list[l].map, registry.list[l].path) = {}

\* A repaired registry is not repaired again: two reads in a row, which every
\* view of the instances makes, agree on ports and on the active server.
ReadsAgree == Clean(registry) = registry

\* The server of a completed deployment is registered, until a user removes it.
DeployedIsRegistered ==
  \A j \in Jobs :
    job[j].status = "done" => job[j].id \in IdsOf(registry.list) \cup removed
=============================================================================
