---------------------------- MODULE InstancesProofs ----------------------------
(***************************************************************************)
(* Proofs about Instances, for any folders, ports, registries of earlier   *)
(* versions, threads and deployments: what the next operation reads has no *)
(* folder and no identifier twice, nor a gamePort, rconPort or queryPort   *)
(* (the maps are free), and a second read changes nothing.                 *)
(***************************************************************************)
EXTENDS Instances, FiniteSetTheorems, SequenceTheorems, WellFoundedInduction, TLAPS

-----------------------------------------------------------------------------
(* Numbers and finite sets                                                  *)

Less == {p \in Nat \X Nat : p[1] < p[2]}

LEMMA LessWellFounded == IsWellFoundedOn(Less, Nat)
BY NatLessThanWellFounded DEF OpToRel, Less

\* A set of numbers that is not empty has a least one.
LEMMA Least ==
  ASSUME NEW T, T \subseteq Nat, T # {}
  PROVE  \E m \in T : \A n \in T : m <= n
<1>1. \E x \in T : \A y \in T : ~(<<y, x>> \in Less)
  BY LessWellFounded, WFMin
<1>2. ASSUME NEW x \in Nat, NEW y \in Nat, ~(<<y, x>> \in Less) PROVE x <= y
  BY <1>2 DEF Less
<1> QED BY <1>1, <1>2

\* Induction, for a set of numbers: the least number outside of it cannot be.
LEMMA Upwards ==
  ASSUME NEW S, 0 \in S, \A n \in Nat : n \in S => n + 1 \in S
  PROVE  Nat \subseteq S
<1> SUFFICES ASSUME ~(Nat \subseteq S) PROVE FALSE
  OBVIOUS
<1> DEFINE T == Nat \ S
<1>1. PICK m \in T : \A n \in T : m <= n
  BY Least
<1>2. m # 0 /\ m - 1 \in Nat
  OBVIOUS
<1>3. m - 1 \in S
  BY <1>1, <1>2
<1> QED BY <1>2, <1>3

\* A list of n numbers has at most n values.
LEMMA FewValues ==
  ASSUME NEW n \in Nat, NEW f, DOMAIN f = 1..n, f = [k \in 1..n |-> f[k]]
  PROVE  /\ IsFiniteSet({f[k] : k \in 1..n})
         /\ Cardinality({f[k] : k \in 1..n}) \in Nat
         /\ Cardinality({f[k] : k \in 1..n}) <= n
<1> DEFINE T == {f[k] : k \in 1..n}
<1>1. f \in Surjection(1..n, T)
  BY DEF Surjection
<1>2. IsFiniteSet(1..n) /\ Cardinality(1..n) = n
  BY FS_Interval
<1>3. IsFiniteSet(T) /\ Cardinality(T) <= n
  BY <1>1, <1>2, FS_Surjection
<1> QED BY <1>3, FS_CardinalityType

LEMMA TwoSets ==
  ASSUME NEW S, NEW T, IsFiniteSet(S), IsFiniteSet(T)
  PROVE  /\ IsFiniteSet(S \cup T)
         /\ Cardinality(S \cup T) <= Cardinality(S) + Cardinality(T)
         /\ Cardinality(S \cup T) \in Nat /\ Cardinality(S) \in Nat /\ Cardinality(T) \in Nat
<1>1. IsFiniteSet(S \cup T) /\ IsFiniteSet(S \cap T)
  BY FS_Union, FS_Subset
<1>2. /\ Cardinality(S \cup T) \in Nat /\ Cardinality(S) \in Nat /\ Cardinality(T) \in Nat
      /\ Cardinality(S \cap T) \in Nat
  BY <1>1, FS_CardinalityType
<1>3. Cardinality(S \cup T) = Cardinality(S) + Cardinality(T) - Cardinality(S \cap T)
  BY FS_Union
<1> HIDE DEF Cardinality
<1> QED BY <1>1, <1>2, <1>3

-----------------------------------------------------------------------------
(* Lists of servers                                                         *)

Server == [id: Int, path: Paths, ports: PortMap, map: PortMap]

\* No folder and no port twice.
Tidy(list) ==
  /\ list \in Seq(Server)
  /\ \A k, l \in DOMAIN list : list[k].path = list[l].path => k = l
  /\ \A k, l \in DOMAIN list : k # l => PortsOf(list[k]) \cap PortsOf(list[l]) = {}
  /\ \A k \in DOMAIN list : Distinct(list[k].ports)

\* No server twice.
OwnIds(list) == \A k, l \in DOMAIN list : list[k].id = list[l].id => k = l

LEMMA ServerPorts ==
  ASSUME NEW r \in Server
  PROVE  PortsOf(r) = {r.ports.game, r.ports.rest, r.ports.query} /\ PortsOf(r) \subseteq Ports
<1>1. r.ports \in PortMap
  BY DEF Server
<1>2. r.ports.game \in 1..MaxPort /\ r.ports.rest \in 1..MaxPort /\ r.ports.query \in 1..MaxPort
  BY <1>1 DEF PortMap, Ports
<1>3. \A q \in 1..MaxPort : q # 0
  BY InstancesAssumption
<1> QED BY <1>2, <1>3 DEF PortsOf, None, Ports

\* A tidy list leaves ports for one more server: there is a folder for each of
\* its servers, and there are more than three ports for each folder.
LEMMA PortsLeft ==
  ASSUME NEW list, Tidy(list), NEW a, NEW b
  PROVE  Ports \ (Reserved(list) \cup {a, b}) # {}
<1> DEFINE n == Len(list)
           P == Cardinality(Paths)
           g == [k \in 1..n |-> list[k].ports.game]
           r == [k \in 1..n |-> list[k].ports.rest]
           q == [k \in 1..n |-> list[k].ports.query]
           G == {g[k] : k \in 1..n}
           R == {r[k] : k \in 1..n}
           Q == {q[k] : k \in 1..n}
<1>1. n \in Nat /\ DOMAIN list = 1..n /\ \A k \in 1..n : list[k] \in Server
  BY DEF Tidy
<1>2. P \in Nat /\ IsFiniteSet(Paths) /\ MaxPort \in Nat /\ 3 * (P + 1) <= MaxPort
  BY InstancesAssumption, FS_CardinalityType
<1>3. n <= P
  <2> DEFINE f == [k \in 1..n |-> list[k].path]
  <2>1. f \in Injection(1..n, Paths)
    BY <1>1 DEF Injection, IsInjective, Tidy, Server
  <2>2. IsFiniteSet(1..n) /\ Cardinality(1..n) = n
    BY <1>1, FS_Interval
  <2> HIDE DEF f
  <2> QED BY <1>2, <2>1, <2>2, FS_Injection
<1>4. Reserved(list) \subseteq G \cup R \cup Q
  BY <1>1, ServerPorts DEF Reserved
<1>5. IsFiniteSet(G) /\ Cardinality(G) \in Nat /\ Cardinality(G) <= n
  BY <1>1, FewValues
<1>6. IsFiniteSet(R) /\ Cardinality(R) \in Nat /\ Cardinality(R) <= n
  BY <1>1, FewValues
<1>7. IsFiniteSet(Q) /\ Cardinality(Q) \in Nat /\ Cardinality(Q) <= n
  BY <1>1, FewValues
<1> HIDE DEF n, P, G, R, Q
<1>8. IsFiniteSet(G \cup R \cup Q) /\ Cardinality(G \cup R \cup Q) <= n + n + n
      /\ Cardinality(G \cup R \cup Q) \in Nat
  <2>1. IsFiniteSet(G \cup R) /\ Cardinality(G \cup R) <= n + n /\ Cardinality(G \cup R) \in Nat
    BY <1>1, <1>5, <1>6, TwoSets
  <2>2. /\ IsFiniteSet((G \cup R) \cup Q) /\ Cardinality((G \cup R) \cup Q) \in Nat
        /\ Cardinality((G \cup R) \cup Q) <= Cardinality(G \cup R) + Cardinality(Q)
    BY <1>7, <2>1, TwoSets
  <2>3. Cardinality((G \cup R) \cup Q) <= n + n + n
    BY <1>1, <1>7, <2>1, <2>2
  <2> QED BY <2>2, <2>3
<1>9. IsFiniteSet({a, b}) /\ Cardinality({a, b}) <= 2 /\ Cardinality({a, b}) \in Nat
  <2>1. IsFiniteSet({a}) /\ IsFiniteSet({b}) /\ Cardinality({a}) = 1 /\ Cardinality({b}) = 1
    BY FS_Singleton
  <2>2. {a, b} = {a} \cup {b}
    OBVIOUS
  <2> QED BY <2>1, <2>2, TwoSets
<1> DEFINE taken == (G \cup R \cup Q) \cup {a, b}
<1>10. IsFiniteSet(taken) /\ Cardinality(taken) \in Nat /\ Cardinality(taken) <= n + n + n + 2
  BY <1>1, <1>8, <1>9, TwoSets
<1>11. Cardinality(Ports) = MaxPort
  BY <1>2, FS_Interval DEF Ports
<1>12. ~(Ports \subseteq taken)
  <2> HIDE DEF taken
  <2> SUFFICES ASSUME Ports \subseteq taken PROVE FALSE
    OBVIOUS
  <2>1. Cardinality(Ports) <= Cardinality(taken)
    BY <1>10, FS_Subset
  <2> QED BY <2>1, <1>1, <1>2, <1>3, <1>10, <1>11
<1> QED BY <1>4, <1>12

\* While a port is free, next_available_port finds one; it takes the preferred one
\* if that is free.
LEMMA NextFreeFinds ==
  ASSUME NEW p \in 1..(MaxPort + 1), NEW taken, Ports \ taken # {}
  PROVE  /\ NextFree(p, taken) \in Ports \ taken
         /\ p \in Ports \ taken => NextFree(p, taken) = p
<1> DEFINE above == (p..MaxPort) \ taken
           below == (1..(p - 1)) \ taken
           First(S) == CHOOSE x \in S : \A y \in S : x <= y
<1>1. MaxPort \in Nat /\ p \in Nat
  BY InstancesAssumption
<1>2. above \subseteq Nat /\ below \subseteq Nat /\ above \cup below = Ports \ taken
  BY <1>1 DEF Ports
<1>3. ASSUME NEW S, S \subseteq Nat, S # {} PROVE First(S) \in S /\ \A y \in S : First(S) <= y
  BY <1>3, Least
<1>4. NextFree(p, taken) = IF above # {} THEN First(above) ELSE First(below)
  BY DEF NextFree
<1>5. NextFree(p, taken) \in Ports \ taken
  <2> HIDE DEF above, below, First
  <2> QED BY <1>2, <1>3, <1>4
<1>6. ASSUME p \in Ports \ taken PROVE NextFree(p, taken) = p
  <2>1. p \in above /\ \A y \in above : p <= y
    BY <1>1, <1>6 DEF Ports
  <2>2. First(above) \in above /\ First(above) <= p
    <3> HIDE DEF above, First
    <3> QED BY <1>2, <1>3, <2>1
  <2>3. First(above) = p
    <3> HIDE DEF First
    <3> QED BY <1>1, <2>1, <2>2
  <2> HIDE DEF above, below, First
  <2> QED BY <1>4, <2>1, <2>3
<1> QED BY <1>5, <1>6

\* What allocate_instance_ports gives a server is its own, and what it prefers if
\* that is free.
StoredPorts == [game: Ports, rest: Ports, query: Ports \cup {None}]

LEMMA Allocates ==
  ASSUME NEW list, Tidy(list), NEW p \in StoredPorts
  PROVE  LET new == Allocate(list, p) IN
         /\ new \in PortMap /\ Distinct(new)
         /\ {new.game, new.rest, new.query} \cap Reserved(list) = {}
         /\ p \in PortMap /\ Distinct(p) /\ {p.game, p.rest, p.query} \cap Reserved(list) = {}
              => new = p
<1> DEFINE game == NextFree(p.game, Reserved(list))
           askedRest == IF p.rest # game THEN p.rest ELSE game + 1
           rest == NextFree(askedRest, Reserved(list) \cup {game})
           larger == IF game > rest THEN game ELSE rest
           askedQuery == IF p.query # None THEN p.query ELSE larger + 1
           query == NextFree(askedQuery, Reserved(list) \cup {game, rest})
<1>1. Allocate(list, p) = [game |-> game, rest |-> rest, query |-> query]
  BY DEF Allocate
<1>2. MaxPort \in Nat /\ \A x \in Ports : x \in 1..(MaxPort + 1) /\ x + 1 \in 1..(MaxPort + 1) /\ x # None
  BY InstancesAssumption DEF Ports, None
<1>3. p.game \in Ports /\ p.rest \in Ports /\ p.query \in Ports \cup {None}
  BY DEF StoredPorts
<1>4. \A a, b : Ports \ (Reserved(list) \cup {a, b}) # {}
  BY PortsLeft
<1>5. /\ Ports \ Reserved(list) # {}
      /\ \A a : Ports \ (Reserved(list) \cup {a}) # {}
  BY <1>4
<1>6. game \in Ports \ Reserved(list) /\ (p.game \notin Reserved(list) => game = p.game)
  BY <1>2, <1>3, <1>5, NextFreeFinds
<1> HIDE DEF game
<1>7. askedRest \in 1..(MaxPort + 1)
  BY <1>2, <1>3, <1>6
<1>8. /\ rest \in Ports \ (Reserved(list) \cup {game})
      /\ askedRest \in Ports \ (Reserved(list) \cup {game}) => rest = askedRest
  <2> HIDE DEF askedRest
  <2> QED BY <1>5, <1>7, NextFreeFinds
<1> HIDE DEF rest
<1>9. askedQuery \in 1..(MaxPort + 1)
  BY <1>2, <1>3, <1>6, <1>8
<1>10. /\ query \in Ports \ (Reserved(list) \cup {game, rest})
       /\ askedQuery \in Ports \ (Reserved(list) \cup {game, rest}) => query = askedQuery
  <2> HIDE DEF askedQuery
  <2> QED BY <1>4, <1>9, NextFreeFinds
<1> HIDE DEF query
<1>11. Allocate(list, p) \in PortMap /\ Distinct(Allocate(list, p))
  BY <1>1, <1>6, <1>8, <1>10 DEF PortMap, Distinct
<1>12. ASSUME p \in PortMap, Distinct(p), {p.game, p.rest, p.query} \cap Reserved(list) = {}
       PROVE  Allocate(list, p) = p
  <2>1. game = p.game
    BY <1>6, <1>12
  <2>2. rest = p.rest
    BY <1>3, <1>8, <1>12, <2>1 DEF Distinct
  <2>3. query = p.query
    BY <1>2, <1>10, <1>12, <2>1, <2>2 DEF Distinct, PortMap
  <2> QED BY <1>1, <1>12, <2>1, <2>2, <2>3 DEF PortMap
<1> QED BY <1>1, <1>6, <1>8, <1>10, <1>11, <1>12

LEMMA DefaultPorts == \A path : Default(path) \in PortMap
<1>1. 1 \in Ports /\ 2 \in Ports /\ 3 \in Ports /\ 4 \in Ports /\ 6 \in Ports /\ 7 \in Ports
  BY InstancesAssumption DEF Ports
<1> QED BY <1>1 DEF Default, PortMap

-----------------------------------------------------------------------------
(* One turn of _dedupe_data                                                  *)

\* The map is filled in the first time, and stays.
LEMMA Fills ==
  ASSUME NEW r \in Stored
  PROVE  Filled(r) \in PortMap /\ (r.map \in PortMap => Filled(r) = r.map)
<1>1. NoMap \notin PortMap
  BY InstancesAssumption DEF NoMap, PortMap, Ports, None
<1>2. r.map \in PortMap \cup {NoMap} /\ r.path \in Paths /\ r.ports \in StoredPorts
  BY DEF Stored, StoredPorts
<1>3. [r.ports EXCEPT !.query = IF r.ports.query # None THEN r.ports.query
                                ELSE Default(r.path).query] \in PortMap
  <2>1. Default(r.path).query \in Ports
    BY <1>2, DefaultPorts DEF PortMap
  <2> QED BY <1>2, <2>1 DEF StoredPorts, PortMap
<1> QED BY <1>1, <1>2, <1>3 DEF Filled

\* What a server becomes, or replaces, is a server of the same folder with ports of
\* its own.
Fits(new, r, kept) ==
  /\ new \in Server /\ new.id = r.id /\ new.path = r.path
  /\ Distinct(new.ports)
  /\ PortsOf(new) \cap Reserved(kept) = {}

\* Lists with one more item, with another item in a place, without an item.
LEMMA ListChanges ==
  ASSUME NEW S, NEW list \in Seq(S), NEW new \in S
  PROVE  /\ DOMAIN list = 1..Len(list) /\ Len(list) \in Nat /\ \A k \in DOMAIN list : list[k] \in S
         /\ Append(list, new) \in Seq(S)
         /\ DOMAIN Append(list, new) = 1..(Len(list) + 1)
         /\ \A k \in DOMAIN list : Append(list, new)[k] = list[k]
         /\ Append(list, new)[Len(list) + 1] = new
         /\ \A j \in DOMAIN list :
              /\ [list EXCEPT ![j] = new] \in Seq(S)
              /\ DOMAIN [list EXCEPT ![j] = new] = DOMAIN list
              /\ \A k \in DOMAIN list : [list EXCEPT ![j] = new][k] = IF k = j THEN new ELSE list[k]
  OBVIOUS

LEMMA KeepCases ==
  ASSUME NEW kept, Tidy(kept), NEW r \in Stored, NEW active
  PROVE  \E new :
           /\ Fits(new, r, kept)
           /\ r \in Server /\ Distinct(r.ports) /\ PortsOf(r) \cap Reserved(kept) = {} => new = r
           /\ \/ /\ \A k \in DOMAIN kept : kept[k].path # r.path
                 /\ Keep(kept, r, active) = Append(kept, new)
              \/ \E j \in DOMAIN kept :
                   /\ kept[j].path = r.path
                   /\ Keep(kept, r, active) \in {kept, [kept EXCEPT ![j] = new]}
<1> DEFINE p == Allocate(kept, r.ports)
           new == [id |-> r.id, path |-> r.path, ports |-> p, map |-> Filled(r)]
           same == {k \in DOMAIN kept : kept[k].path = r.path}
<1>1. r.id \in Int /\ r.path \in Paths /\ r.ports \in StoredPorts
      /\ r = [id |-> r.id, path |-> r.path, ports |-> r.ports, map |-> r.map]
      /\ Filled(r) \in PortMap /\ (r.map \in PortMap => Filled(r) = r.map)
  BY Fills DEF Stored, StoredPorts
<1>2. /\ p \in PortMap /\ Distinct(p) /\ {p.game, p.rest, p.query} \cap Reserved(kept) = {}
      /\ r.ports \in PortMap /\ Distinct(r.ports)
         /\ {r.ports.game, r.ports.rest, r.ports.query} \cap Reserved(kept) = {} => p = r.ports
  BY <1>1, Allocates
<1>3. Keep(kept, r, active) = IF same = {} THEN Append(kept, new)
        ELSE [k \in DOMAIN kept |-> IF k \in same /\ Preferred(r, kept[k], active) THEN new ELSE kept[k]]
  BY DEF Keep
<1> HIDE DEF p
<1>4. new = [id |-> r.id, path |-> r.path, ports |-> p, map |-> Filled(r)]
  OBVIOUS
<1> HIDE DEF new
<1>5. new \in Server
  BY <1>1, <1>2, <1>4 DEF Server
<1>6. PortsOf(new) = {p.game, p.rest, p.query}
  BY <1>4, <1>5, ServerPorts
<1>7. Fits(new, r, kept)
  BY <1>2, <1>4, <1>5, <1>6 DEF Fits
<1>8. ASSUME r \in Server, Distinct(r.ports), PortsOf(r) \cap Reserved(kept) = {} PROVE new = r
  <2>1. r.ports \in PortMap /\ r.map \in PortMap
    BY <1>8 DEF Server
  <2>2. p = r.ports
    BY <1>2, <1>8, <2>1, ServerPorts
  <2>3. Filled(r) = r.map
    BY <1>1, <2>1
  <2> QED BY <1>1, <1>4, <2>2, <2>3
<1>9. CASE same = {}
  BY <1>3, <1>7, <1>8, <1>9
<1>10. CASE same # {}
  <2>1. PICK j \in DOMAIN kept : kept[j].path = r.path
    BY <1>10
  <2>2. \A k \in DOMAIN kept : k \in same <=> k = j
    BY <2>1 DEF Tidy
  <2>3. kept = [k \in DOMAIN kept |-> kept[k]]
    BY DEF Tidy
  <2>4. Keep(kept, r, active) =
          [k \in DOMAIN kept |-> IF k \in same /\ Preferred(r, kept[k], active) THEN new ELSE kept[k]]
    BY <1>3, <1>10
  <2> HIDE DEF same
  <2>5. CASE Preferred(r, kept[j], active)
    <3>1. Keep(kept, r, active) = [kept EXCEPT ![j] = new]
      BY <2>1, <2>2, <2>3, <2>4, <2>5
    <3> QED BY <1>7, <1>8, <2>1, <3>1
  <2>6. CASE ~Preferred(r, kept[j], active)
    <3>1. Keep(kept, r, active) = kept
      BY <2>1, <2>2, <2>3, <2>4, <2>6
    <3> QED BY <1>7, <1>8, <2>1, <3>1
  <2> QED BY <2>5, <2>6
<1> QED BY <1>9, <1>10

\* A tidy list stays tidy, and no server comes twice of a list in which none does.
LEMMA KeepTidy ==
  ASSUME NEW kept, Tidy(kept), OwnIds(kept), NEW r \in Stored, r.id \notin IdsOf(kept), NEW active
  PROVE  LET more == Keep(kept, r, active) IN
         Tidy(more) /\ OwnIds(more) /\ IdsOf(more) \subseteq IdsOf(kept) \cup {r.id}
<1> DEFINE more == Keep(kept, r, active)
<1>1. PICK new :
        /\ Fits(new, r, kept)
        /\ \/ /\ \A k \in DOMAIN kept : kept[k].path # r.path
              /\ more = Append(kept, new)
           \/ \E j \in DOMAIN kept :
                kept[j].path = r.path /\ more \in {kept, [kept EXCEPT ![j] = new]}
  BY KeepCases
<1> HIDE DEF more
<1>2. /\ kept \in Seq(Server) /\ Len(kept) \in Nat /\ DOMAIN kept = 1..Len(kept)
      /\ \A k \in DOMAIN kept : kept[k] \in Server
  BY DEF Tidy
<1>3. \A k \in DOMAIN kept : PortsOf(kept[k]) \subseteq Reserved(kept) /\ kept[k].id \in IdsOf(kept)
  BY DEF Reserved, IdsOf
<1>4. \A k \in DOMAIN kept : PortsOf(new) \cap PortsOf(kept[k]) = {} /\ new.id # kept[k].id
  BY <1>1, <1>3 DEF Fits
<1>5. CASE (\A k \in DOMAIN kept : kept[k].path # r.path) /\ more = Append(kept, new)
  <2>1. /\ more \in Seq(Server) /\ DOMAIN more = 1..(Len(kept) + 1)
        /\ \A k \in DOMAIN kept : more[k] = kept[k]
        /\ more[Len(kept) + 1] = new
    <3>1. new \in Server /\ more = Append(kept, new)
      BY <1>1, <1>5 DEF Fits
    <3> QED BY <1>2, <3>1, ListChanges
  <2>2. \A k \in DOMAIN more : k \in DOMAIN kept \/ k = Len(kept) + 1
    BY <1>2, <2>1
  <2>3. Tidy(more)
    BY <1>1, <1>4, <1>5, <2>1, <2>2 DEF Tidy, Fits
  <2>4. OwnIds(more) /\ IdsOf(more) \subseteq IdsOf(kept) \cup {r.id}
    BY <1>1, <1>3, <1>4, <2>1, <2>2 DEF OwnIds, IdsOf, Fits
  <2> QED BY <2>3, <2>4 DEF more
<1>6. CASE more = kept
  BY <1>6 DEF more
<1>7. ASSUME NEW j \in DOMAIN kept, kept[j].path = r.path, more = [kept EXCEPT ![j] = new]
      PROVE  Tidy(more) /\ OwnIds(more) /\ IdsOf(more) \subseteq IdsOf(kept) \cup {r.id}
  <2>1. /\ more \in Seq(Server) /\ DOMAIN more = DOMAIN kept
        /\ \A k \in DOMAIN kept : more[k] = IF k = j THEN new ELSE kept[k]
    BY <1>1, <1>2, <1>7, ListChanges DEF Fits
  <2>2. Tidy(more)
    BY <1>1, <1>4, <1>7, <2>1 DEF Tidy, Fits
  <2>3. OwnIds(more) /\ IdsOf(more) \subseteq IdsOf(kept) \cup {r.id}
    BY <1>1, <1>3, <1>4, <2>1 DEF OwnIds, IdsOf, Fits
  <2> QED BY <2>2, <2>3
<1> QED BY <1>1, <1>5, <1>6, <1>7 DEF more

\* A server with a folder and ports of its own is appended as it is.
LEMMA KeepAsIs ==
  ASSUME NEW kept, Tidy(kept), NEW r \in Server, Distinct(r.ports),
         PortsOf(r) \cap Reserved(kept) = {}, \A k \in DOMAIN kept : kept[k].path # r.path, NEW active
  PROVE  Keep(kept, r, active) = Append(kept, r)
<1>1. r \in Stored
  BY DEF Server, Stored, PortMap
<1> QED BY <1>1, KeepCases

-----------------------------------------------------------------------------
(* The loop of _dedupe_data                                                 *)

\* What the loop keeps of the first k servers, from what it keeps of one less.
Turn(g, list, active, k) ==
  IF k = 0 THEN <<>>
  ELSE CHOOSE next \in {Keep(before, list[k], active) : before \in {g[k - 1]}} : TRUE

\* g keeps, of every beginning of the list, what the loop keeps.
Dedupes(g, list, active, n) ==
  g = [k \in 0..n |-> g[k]] /\ \A k \in 0..n : g[k] = Turn(g, list, active, k)

LEMMA TurnBase ==
  ASSUME NEW list, NEW active, NEW g PROVE Turn(g, list, active, 0) = <<>>
BY DEF Turn

LEMMA TurnKeeps ==
  ASSUME NEW list, NEW active, NEW g, NEW k, k # 0
  PROVE  Turn(g, list, active, k) = Keep(g[k - 1], list[k], active)
<1> DEFINE S == {Keep(before, list[k], active) : before \in {g[k - 1]}}
<1>1. S = {Keep(g[k - 1], list[k], active)}
  OBVIOUS
<1>2. Turn(g, list, active, k) = CHOOSE next \in S : TRUE
  BY DEF Turn
<1> HIDE DEF S
<1> QED BY <1>1, <1>2

LEMMA TurnAgrees ==
  ASSUME NEW list, NEW active, NEW g, NEW h, NEW k, k = 0 \/ g[k - 1] = h[k - 1]
  PROVE  Turn(g, list, active, k) = Turn(h, list, active, k)
BY TurnBase, TurnKeeps

\* There is such a g: induction on the length of the list.
LEMMA LoopExists ==
  ASSUME NEW list, NEW active, NEW N \in Nat
  PROVE  \E g : Dedupes(g, list, active, N)
<1> DEFINE S == {n \in Nat : \E g : Dedupes(g, list, active, n)}
<1>1. 0 \in S
  <2> DEFINE g == [k \in 0..0 |-> <<>>]
  <2>1. g = [k \in 0..0 |-> g[k]] /\ g[0] = <<>>
    OBVIOUS
  <2> HIDE DEF g
  <2>2. Dedupes(g, list, active, 0)
    BY <2>1, TurnBase DEF Dedupes
  <2> QED BY <2>2
<1>2. ASSUME NEW n \in Nat, n \in S PROVE n + 1 \in S
  <2>1. PICK g : Dedupes(g, list, active, n)
    BY <1>2
  <2> DEFINE h == [k \in 0..(n + 1) |-> IF k <= n THEN g[k] ELSE Turn(g, list, active, n + 1)]
  <2>2. h = [k \in 0..(n + 1) |-> h[k]]
    OBVIOUS
  <2>3. (\A k \in 0..n : h[k] = g[k]) /\ h[n + 1] = Turn(g, list, active, n + 1)
    OBVIOUS
  <2> HIDE DEF h
  <2>4. ASSUME NEW k \in 0..(n + 1) PROVE h[k] = Turn(h, list, active, k)
    <3>1. CASE k <= n
      <4>1. k = 0 \/ g[k - 1] = h[k - 1]
        BY <3>1, <2>3
      <4>2. h[k] = Turn(g, list, active, k)
        BY <3>1, <2>1, <2>3 DEF Dedupes
      <4> QED BY <4>1, <4>2, TurnAgrees
    <3>2. CASE k = n + 1
      <4>1. h[k] = Turn(g, list, active, k) /\ g[k - 1] = h[k - 1]
        BY <3>2, <2>3
      <4> QED BY <4>1, TurnAgrees
    <3> QED BY <3>1, <3>2
  <2>5. Dedupes(h, list, active, n + 1)
    BY <2>2, <2>4 DEF Dedupes
  <2> QED BY <2>5
<1>3. Nat \subseteq S
  BY <1>1, <1>2, Upwards
<1> QED BY <1>3

\* The recursive function of Kept is such a g.
LEMMA Unfolds ==
  ASSUME NEW list \in Seq(Stored), NEW active
  PROVE  \E g : Kept(list, active) = g[Len(list)]
                /\ g[0] = <<>>
                /\ \A n \in Nat : n + 1 <= Len(list) => g[n + 1] = Keep(g[n], list[n + 1], active)
<1> DEFINE N == Len(list)
           Is(h) == h = [k \in 0..N |-> Turn(h, list, active, k)]
<1>1. N \in Nat
  OBVIOUS
<1>2. PICK g : Dedupes(g, list, active, N)
  BY <1>1, LoopExists
<1>3. Is(g)
  BY <1>2 DEF Dedupes
<1>4. PICK f : Is(f) /\ Kept(list, active) = f[N]
  <2>1. Is(CHOOSE h : Is(h))
    <3> HIDE DEF Is
    <3> QED BY <1>3
  <2>2. Kept(list, active) = (CHOOSE h : Is(h))[N]
    BY DEF Kept, Turn
  <2> HIDE DEF Is
  <2> QED BY <2>1, <2>2
<1>5. \A k \in 0..N : f[k] = Turn(f, list, active, k)
  BY <1>4
<1> HIDE DEF N, Is
<1>6. f[0] = <<>>
  BY <1>1, <1>5, TurnBase
<1>7. ASSUME NEW n \in Nat, n + 1 <= N PROVE f[n + 1] = Keep(f[n], list[n + 1], active)
  <2>1. n + 1 \in 0..N /\ n + 1 # 0 /\ (n + 1) - 1 = n
    BY <1>1, <1>7
  <2>2. f[n + 1] = Turn(f, list, active, n + 1)
    BY <1>5, <2>1
  <2>3. Turn(f, list, active, n + 1) = Keep(f[(n + 1) - 1], list[n + 1], active)
    BY <2>1, TurnKeeps
  <2> QED BY <2>1, <2>2, <2>3
<1> QED BY <1>4, <1>6, <1>7 DEF N

\* Whatever list of servers was saved, a server of it once and nothing twice is kept.
LEMMA KeptTidy ==
  ASSUME NEW list \in Seq(Stored), OwnIds(list), NEW active
  PROVE  /\ Tidy(Kept(list, active)) /\ OwnIds(Kept(list, active))
         /\ IdsOf(Kept(list, active)) \subseteq IdsOf(list)
<1> DEFINE N == Len(list)
           Before(n) == {list[k].id : k \in 1..n}
<1>1. PICK g : /\ Kept(list, active) = g[N]
               /\ g[0] = <<>>
               /\ \A n \in Nat : n + 1 <= N => g[n + 1] = Keep(g[n], list[n + 1], active)
  BY Unfolds
<1>2. N \in Nat /\ DOMAIN list = 1..N /\ \A k \in 1..N : list[k] \in Stored
  OBVIOUS
<1> DEFINE Done(n) == Tidy(g[n]) /\ OwnIds(g[n]) /\ IdsOf(g[n]) \subseteq Before(n)
           S == {n \in Nat : n <= N => Done(n)}
<1> HIDE DEF N
<1>3. 0 \in S
  <2>1. Tidy(<<>>) /\ OwnIds(<<>>) /\ IdsOf(<<>>) = {}
    BY DEF Tidy, OwnIds, IdsOf
  <2> HIDE DEF Before
  <2>2. Done(0)
    BY <1>1, <2>1
  <2> HIDE DEF Done
  <2> QED BY <2>2
<1>4. ASSUME NEW n \in Nat, n \in S PROVE n + 1 \in S
  <2> SUFFICES ASSUME n + 1 <= N PROVE Done(n + 1)
    OBVIOUS
  <2>1. Done(n)
    BY <1>2, <1>4
  <2>2. list[n + 1] \in Stored
    BY <1>2
  <2>3. list[n + 1].id \notin Before(n) /\ Before(n + 1) = Before(n) \cup {list[n + 1].id}
    <3>1. \A k \in 1..n : list[k].id # list[n + 1].id
      BY <1>2 DEF OwnIds
    <3>2. \A k : k \in 1..(n + 1) <=> k \in 1..n \/ k = n + 1
      OBVIOUS
    <3> QED BY <3>1, <3>2
  <2> HIDE DEF Before
  <2>4. LET more == Keep(g[n], list[n + 1], active) IN
        Tidy(more) /\ OwnIds(more) /\ IdsOf(more) \subseteq IdsOf(g[n]) \cup {list[n + 1].id}
    BY <2>1, <2>2, <2>3, KeepTidy
  <2>5. g[n + 1] = Keep(g[n], list[n + 1], active)
    BY <1>1
  <2> QED BY <2>1, <2>3, <2>4, <2>5
<1>5. Done(N)
  <2> HIDE DEF Done
  <2>1. Nat \subseteq S
    BY <1>3, <1>4, Upwards
  <2> QED BY <1>2, <2>1
<1>6. Before(N) = IdsOf(list)
  BY <1>2 DEF IdsOf
<1> QED BY <1>1, <1>5, <1>6

\* A tidy list is kept as it is.
LEMMA KeptAsIs ==
  ASSUME NEW list, Tidy(list), NEW active
  PROVE  Kept(list, active) = list
<1> DEFINE N == Len(list)
<1>1. list \in Seq(Server) /\ N \in Nat /\ DOMAIN list = 1..N /\ \A k \in 1..N : list[k] \in Server
  BY DEF Tidy
<1>2. Server \subseteq Stored
  BY DEF Server, Stored, PortMap
<1>3. list \in Seq(Stored)
  BY <1>1, <1>2
<1>4. PICK g : /\ Kept(list, active) = g[N]
               /\ g[0] = <<>>
               /\ \A n \in Nat : n + 1 <= N => g[n + 1] = Keep(g[n], list[n + 1], active)
  BY <1>3, Unfolds
<1> HIDE DEF N
<1> DEFINE Done(n) == g[n] \in Seq(Server) /\ Len(g[n]) = n /\ \A k \in 1..n : g[n][k] = list[k]
           S == {n \in Nat : n <= N => Done(n)}
<1>5. 0 \in S
  <2>1. Done(0)
    BY <1>4
  <2> HIDE DEF Done
  <2> QED BY <2>1
<1>6. ASSUME NEW n \in Nat, n \in S PROVE n + 1 \in S
  <2> SUFFICES ASSUME n + 1 <= N PROVE Done(n + 1)
    OBVIOUS
  <2>1. Done(n) /\ DOMAIN g[n] = 1..n
    BY <1>1, <1>6
  <2>2. Tidy(g[n])
    BY <1>1, <2>1 DEF Tidy
  <2>3. list[n + 1] \in Server /\ Distinct(list[n + 1].ports)
    BY <1>1 DEF Tidy
  <2>4. \A k \in DOMAIN g[n] : g[n][k].path # list[n + 1].path
                               /\ PortsOf(list[n + 1]) \cap PortsOf(g[n][k]) = {}
    <3> SUFFICES ASSUME NEW k \in 1..n
                 PROVE  list[k].path # list[n + 1].path /\ PortsOf(list[n + 1]) \cap PortsOf(list[k]) = {}
      BY <2>1
    <3>1. k \in DOMAIN list /\ n + 1 \in DOMAIN list /\ k # n + 1
      BY <1>1
    <3> QED BY <3>1 DEF Tidy
  <2>5. PortsOf(list[n + 1]) \cap Reserved(g[n]) = {}
    BY <2>4 DEF Reserved
  <2>6. g[n + 1] = Append(g[n], list[n + 1])
    BY <1>4, <2>2, <2>3, <2>4, <2>5, KeepAsIs
  <2> QED BY <2>1, <2>3, <2>6
<1>7. Done(N)
  <2> HIDE DEF Done
  <2>1. Nat \subseteq S
    BY <1>5, <1>6, Upwards
  <2> QED BY <1>1, <2>1
<1>8. g[N] = list
  BY <1>1, <1>7
<1> QED BY <1>4, <1>8

-----------------------------------------------------------------------------
(* What a read gives                                                         *)

\* The active server is one of the list, if there is one.
ActiveIsOne(data) ==
  IF data.list = <<>> THEN data.active = None ELSE data.active \in IdsOf(data.list)

LEMMA CleanIsTidy ==
  ASSUME NEW list \in Seq(Stored), OwnIds(list), NEW active, NEW data,
         data.list = list, data.active = active
  PROVE  LET clean == Clean(data) IN
         /\ clean = [active |-> clean.active, list |-> clean.list]
         /\ Tidy(clean.list) /\ OwnIds(clean.list) /\ ActiveIsOne(clean)
         /\ IdsOf(clean.list) \subseteq IdsOf(list)
<1> DEFINE kept == Kept(list, active)
<1>1. Tidy(kept) /\ OwnIds(kept) /\ IdsOf(kept) \subseteq IdsOf(list)
  BY KeptTidy
<1>2. Clean(data) = [active |-> ActiveIn(kept, active), list |-> kept]
  BY DEF Clean
<1> HIDE DEF kept
<1>3. kept # <<>> => kept[1].id \in IdsOf(kept)
  BY <1>1 DEF Tidy, IdsOf
<1>4. IdsOf(<<>>) = {}
  BY DEF IdsOf
<1> QED BY <1>1, <1>2, <1>3, <1>4 DEF ActiveIn, ActiveIsOne

LEMMA CleanTwice ==
  ASSUME NEW data, data = [active |-> data.active, list |-> data.list],
         Tidy(data.list), ActiveIsOne(data)
  PROVE  Clean(data) = data
<1>1. Kept(data.list, data.active) = data.list
  BY KeptAsIs
<1>2. ActiveIn(data.list, data.active) = data.active
  BY DEF ActiveIn, ActiveIsOne, IdsOf
<1>3. Clean(data) = [active |-> data.active, list |-> data.list]
  BY <1>1, <1>2 DEF Clean
<1> QED BY <1>3

-----------------------------------------------------------------------------
(* What is saved                                                            *)

Below(list, n) == \A k \in DOMAIN list : list[k].id < n

\* A list that some operation may save: it may have ports and folders twice, but no
\* server twice and none that is yet to come.
Saved(list, n) == list \in Seq(Stored) /\ OwnIds(list) /\ Below(list, n)

\* A registry as a read gives it.
Fine(data, n) ==
  /\ data = [active |-> data.active, list |-> data.list]
  /\ Tidy(data.list) /\ OwnIds(data.list) /\ Below(data.list, n)
  /\ ActiveIsOne(data)

LEMMA SavedItems ==
  ASSUME NEW list, NEW n, Saved(list, n)
  PROVE  /\ list \in Seq(Stored) /\ Len(list) \in Nat /\ DOMAIN list = 1..Len(list)
         /\ \A k \in DOMAIN list : list[k] \in Stored /\ list[k].id \in Int /\ list[k].id < n
<1>1. list \in Seq(Stored) /\ Below(list, n)
  BY DEF Saved
<1>2. \A r \in Stored : r.id \in Int
  BY DEF Stored
<1>3. Len(list) \in Nat /\ DOMAIN list = 1..Len(list) /\ \A k \in DOMAIN list : list[k] \in Stored
  BY <1>1
<1> QED BY <1>1, <1>2, <1>3 DEF Below

LEMMA FineIsSaved ==
  ASSUME NEW list, Tidy(list), OwnIds(list), NEW n, Below(list, n)
  PROVE  Saved(list, n)
<1>1. Server \subseteq Stored
  BY DEF Server, Stored, PortMap
<1>2. list \in Seq(Server) /\ \A k \in 1..Len(list) : list[k] \in Server
  BY DEF Tidy
<1>3. list \in Seq(Stored)
  BY <1>1, <1>2
<1> QED BY <1>3 DEF Saved

LEMMA CleanIsFine ==
  ASSUME NEW data, NEW n, Saved(data.list, n)
  PROVE  Fine(Clean(data), n)
<1> DEFINE clean == Clean(data)
<1>1. /\ clean = [active |-> clean.active, list |-> clean.list]
      /\ Tidy(clean.list) /\ OwnIds(clean.list) /\ ActiveIsOne(clean)
      /\ IdsOf(clean.list) \subseteq IdsOf(data.list)
  BY CleanIsTidy DEF Saved
<1>2. Below(clean.list, n)
  <2> SUFFICES ASSUME NEW k \in DOMAIN clean.list PROVE clean.list[k].id < n
    BY DEF Below
  <2>1. clean.list[k].id \in IdsOf(data.list)
    BY <1>1 DEF IdsOf
  <2>2. PICK l \in DOMAIN data.list : data.list[l].id = clean.list[k].id
    BY <2>1 DEF IdsOf
  <2> QED BY <2>2 DEF Saved, Below
<1> QED BY <1>1, <1>2 DEF Fine

LEMMA SetPorts ==
  ASSUME NEW ports \in PortMap, NEW keys, NEW p \in Ports
  PROVE  Set(ports, keys, p) \in PortMap
BY DEF Set, PortMap

\* The ports of a server change.
LEMMA WithSaved ==
  ASSUME NEW list \in Seq(Server), NEW n, Saved(list, n), NEW id, NEW keys, NEW p \in Ports
  PROVE  Saved(With(list, id, keys, p), n)
<1> DEFINE new == With(list, id, keys, p)
           Other(r) == [id |-> r.id, path |-> r.path, ports |-> Set(r.ports, keys, p),
                        map |-> Set(r.map, keys, p)]
<1>1. list \in Seq(Stored) /\ Len(list) \in Nat /\ DOMAIN list = 1..Len(list)
      /\ \A k \in DOMAIN list : list[k] \in Server
  BY DEF Saved
<1>2. ASSUME NEW r \in Server PROVE r \in Stored /\ Other(r) \in Stored /\ Other(r).id = r.id
  <2>1. r.ports \in PortMap /\ r.map \in PortMap
    BY DEF Server
  <2>2. Set(r.ports, keys, p) \in PortMap /\ Set(r.map, keys, p) \in PortMap
    BY <2>1, SetPorts
  <2>3. /\ r = [id |-> r.id, path |-> r.path, ports |-> r.ports, map |-> r.map]
        /\ r.id \in Int /\ r.path \in Paths
    BY DEF Server
  <2> QED BY <2>1, <2>2, <2>3 DEF Stored, PortMap
<1>3. DOMAIN new = DOMAIN list /\ \A k \in DOMAIN list : new[k] \in Stored /\ new[k].id = list[k].id
  <2>1. \A k \in DOMAIN list : new[k] \in {list[k], Other(list[k])}
    BY DEF With
  <2> HIDE DEF Other
  <2>2. DOMAIN new = DOMAIN list
    BY DEF With
  <2> HIDE DEF new
  <2> QED BY <1>1, <1>2, <2>1, <2>2
<1>4. new = [k \in 1..Len(list) |-> new[k]]
  BY <1>1 DEF With
<1> HIDE DEF new
<1>5. new \in Seq(Stored)
  BY <1>1, <1>3, <1>4
<1>6. OwnIds(new) /\ Below(new, n)
  BY <1>3 DEF Saved, OwnIds, Below
<1> QED BY <1>5, <1>6 DEF Saved, new

\* A server goes.
LEMMA RemoveSaved ==
  ASSUME NEW list, NEW n, Saved(list, n), NEW k \in DOMAIN list
  PROVE  Saved(RemoveAt(list, k), n)
<1> DEFINE new == RemoveAt(list, k)
           Old(l) == IF l < k THEN l ELSE l + 1
<1>1. list \in Seq(Stored) /\ Len(list) \in Nat /\ DOMAIN list = 1..Len(list) /\ k \in 1..Len(list)
  BY DEF Saved
<1>2. new = SubSeq(list, 1, k - 1) \o SubSeq(list, k + 1, Len(list))
  BY DEF RemoveAt
<1> DEFINE first == SubSeq(list, 1, k - 1)
           rest == SubSeq(list, k + 1, Len(list))
<1>3. /\ first \in Seq(Stored) /\ Len(first) = k - 1 /\ \A l \in 1..(k - 1) : first[l] = list[l]
      /\ rest \in Seq(Stored) /\ Len(rest) = Len(list) - k
      /\ \A l \in 1..(Len(list) - k) : rest[l] = list[k + l]
  <2>1. (\A i \in 1..(k - 1) : list[i] \in Stored) /\ (\A i \in (k + 1)..Len(list) : list[i] \in Stored)
    BY <1>1
  <2> HIDE DEF first, rest
  <2>2. /\ first \in Seq(Stored) /\ Len(first) = IF 1 <= k - 1 THEN (k - 1) - 1 + 1 ELSE 0
        /\ \A l \in 1..((k - 1) - 1 + 1) : first[l] = list[1 + l - 1]
    BY <1>1, <2>1, SubSeqProperties DEF first
  <2>3. /\ rest \in Seq(Stored) /\ Len(rest) = IF k + 1 <= Len(list) THEN Len(list) - (k + 1) + 1 ELSE 0
        /\ \A l \in 1..(Len(list) - (k + 1) + 1) : rest[l] = list[(k + 1) + l - 1]
    BY <1>1, <2>1, SubSeqProperties DEF rest
  <2>4. ASSUME NEW l \in 1..(k - 1) PROVE first[l] = list[l]
    <3>1. l \in 1..((k - 1) - 1 + 1) /\ 1 + l - 1 = l
      BY <1>1
    <3> QED BY <2>2, <3>1
  <2>5. ASSUME NEW l \in 1..(Len(list) - k) PROVE rest[l] = list[k + l]
    <3>1. l \in 1..(Len(list) - (k + 1) + 1) /\ (k + 1) + l - 1 = k + l
      BY <1>1
    <3> QED BY <2>3, <3>1
  <2>6. Len(first) = k - 1 /\ Len(rest) = Len(list) - k
    BY <1>1, <2>2, <2>3
  <2> QED BY <2>2, <2>3, <2>4, <2>5, <2>6
<1> HIDE DEF first, rest
<1>4. /\ new \in Seq(Stored) /\ Len(new) = Len(list) - 1 /\ DOMAIN new = 1..(Len(list) - 1)
      /\ \A l \in 1..(Len(list) - 1) : new[l] = list[Old(l)]
  <2>1. /\ new \in Seq(Stored) /\ Len(new) = Len(first) + Len(rest)
        /\ \A l \in 1..(Len(first) + Len(rest)) :
             new[l] = IF l <= Len(first) THEN first[l] ELSE rest[l - Len(first)]
    BY <1>2, <1>3, ConcatProperties DEF first, rest
  <2> HIDE DEF new
  <2>2. Len(first) + Len(rest) = Len(list) - 1 /\ DOMAIN new = 1..Len(new)
    BY <1>1, <1>3, <2>1
  <2>3. ASSUME NEW l \in 1..(Len(list) - 1) PROVE new[l] = list[Old(l)]
    <3>1. l \in 1..(Len(first) + Len(rest))
      BY <2>2
    <3>2. CASE l < k
      <4>1. l <= Len(first) /\ l \in 1..(k - 1)
        BY <1>1, <1>3, <3>2
      <4> QED BY <1>3, <2>1, <3>1, <3>2, <4>1
    <3>3. CASE ~(l < k)
      <4>1. ~(l <= Len(first)) /\ l - Len(first) \in 1..(Len(list) - k) /\ k + (l - Len(first)) = l + 1
        BY <1>1, <1>3, <3>3
      <4>2. new[l] = rest[l - Len(first)] /\ rest[l - Len(first)] = list[k + (l - Len(first))]
        BY <1>3, <2>1, <3>1, <4>1
      <4> QED BY <3>3, <4>1, <4>2
    <3> QED BY <3>2, <3>3
  <2> QED BY <2>1, <2>2, <2>3
<1> HIDE DEF new
<1>5. \A l, m \in DOMAIN new : Old(l) = Old(m) => l = m
  BY <1>1, <1>4
<1>6. \A l \in DOMAIN new : Old(l) \in DOMAIN list
  BY <1>1, <1>4
<1> HIDE DEF Old
<1>7. OwnIds(new) /\ Below(new, n)
  BY <1>4, <1>5, <1>6 DEF Saved, OwnIds, Below
<1> QED BY <1>4, <1>7 DEF Saved, new

\* A server comes.
LEMMA AppendSaved ==
  ASSUME NEW list, NEW n \in Nat, Saved(list, n), NEW r \in Stored, r.id = n
  PROVE  Saved(Append(list, r), n + 1)
<1> DEFINE new == Append(list, r)
<1>1. /\ list \in Seq(Stored) /\ Len(list) \in Nat /\ DOMAIN list = 1..Len(list)
      /\ \A k \in DOMAIN list : list[k].id \in Int /\ list[k].id < n
  BY SavedItems
<1>2. /\ new \in Seq(Stored) /\ DOMAIN new = 1..(Len(list) + 1)
      /\ \A k \in DOMAIN list : new[k] = list[k]
      /\ new[Len(list) + 1] = r
  BY <1>1, ListChanges
<1> HIDE DEF new
<1>3. \A k \in DOMAIN new : k \in DOMAIN list \/ k = Len(list) + 1
  BY <1>1, <1>2
<1>4. OwnIds(new)
  BY <1>1, <1>2, <1>3 DEF Saved, OwnIds
<1>5. Below(new, n + 1)
  BY <1>1, <1>2, <1>3 DEF Below
<1> QED BY <1>2, <1>4, <1>5 DEF Saved, new

LEMMA Later ==
  ASSUME NEW list, NEW n \in Nat, Saved(list, n) PROVE Saved(list, n + 1)
<1>1. \A k \in DOMAIN list : list[k].id \in Int /\ list[k].id < n
  BY SavedItems
<1> QED BY <1>1 DEF Saved, Below

-----------------------------------------------------------------------------
(* The invariant                                                            *)

JobRecord ==
  [status: {"none", "start", "install", "register", "firewall", "done", "error"},
   path: Paths, copy: BOOLEAN, ports: PortMap, id: Int]
ReadRecord == [active: Int, list: Seq(Server), held: BOOLEAN]

\* What a thread holds may be old, but it was read.
Inv ==
  /\ nextId \in Nat /\ nextId > 0
  /\ Fine(registry, nextId)
  /\ ini \in [Paths -> PortMap]
  /\ read \in [Threads -> ReadRecord]
  /\ \A t \in Threads : Saved(read[t].list, nextId)
  /\ job \in [Jobs -> JobRecord]

LEMMA InitInv == Init => Inv
<1> SUFFICES ASSUME Init PROVE Inv
  OBVIOUS
<1>1. nextId = 1
  BY DEF Init
<1>2. Fine(registry, nextId)
  <2>1. PICK data \in Legacy : registry = Clean(data)
    BY DEF Init
  <2>2. /\ data.list \in Seq(Stored)
        /\ \A k, l \in DOMAIN data.list :
             data.list[k].id < 0 /\ (data.list[k].id = data.list[l].id => k = l)
    BY <2>1, InstancesAssumption
  <2>3. \A k \in DOMAIN data.list : data.list[k].id \in Int
    <3>1. \A r \in Stored : r.id \in Int
      BY DEF Stored
    <3> QED BY <2>2, <3>1
  <2>4. Saved(data.list, 1)
    BY <2>2, <2>3 DEF Saved, OwnIds, Below
  <2> QED BY <1>1, <2>1, <2>4, CleanIsFine
<1>3. ini \in [Paths -> PortMap]
  <2>1. \A path \in Paths : \A c \in Custom \cup {Default(path).game} :
          [Default(path) EXCEPT !.game = c] \in PortMap
    BY DefaultPorts, InstancesAssumption DEF PortMap
  <2>2. \A path \in Paths : Settings(path) \subseteq PortMap
    BY <2>1 DEF Settings
  <2>3. ini \in [Paths -> UNION {Settings(path) : path \in Paths}]
        /\ \A path \in Paths : ini[path] \in Settings(path)
    BY DEF Init
  <2> QED BY <2>2, <2>3
<1>4. NoRead \in ReadRecord /\ Saved(NoRead.list, 1)
  BY DEF NoRead, ReadRecord, None, Saved, OwnIds, Below
<1>5. read = [t \in Threads |-> NoRead]
  BY DEF Init
<1>6. read \in [Threads -> ReadRecord] /\ \A t \in Threads : Saved(read[t].list, nextId)
  BY <1>1, <1>4, <1>5
<1>7. NoJob \in JobRecord
  <2>1. (CHOOSE p \in Paths : TRUE) \in Paths
    BY InstancesAssumption
  <2> QED BY <2>1, DefaultPorts DEF NoJob, JobRecord, None
<1>8. job \in [Jobs -> JobRecord]
  BY <1>7 DEF Init
<1> QED BY <1>1, <1>2, <1>3, <1>6, <1>8 DEF Inv

\* What a read gives may be saved again, with the same type.
LEMMA FineList ==
  ASSUME NEW data, NEW n \in Nat, Fine(data, n)
  PROVE  /\ data.list \in Seq(Server) /\ Saved(data.list, n) /\ data.active \in Int
         /\ DOMAIN data.list = 1..Len(data.list)
         /\ \A k \in DOMAIN data.list :
              data.list[k] \in Server /\ data.list[k].id \in Int /\ data.list[k].id < n
<1>1. data.list \in Seq(Server) /\ Saved(data.list, n)
  BY FineIsSaved DEF Fine, Tidy
<1>2. \A k \in DOMAIN data.list : data.list[k].id \in Int /\ data.list[k].id < n
  BY <1>1, SavedItems
<1>3. data.active \in Int
  BY <1>2 DEF Fine, ActiveIsOne, IdsOf, None
<1> QED BY <1>1, <1>2, <1>3

\* The server that Entry and Place look up.
LEMMA Found ==
  ASSUME NEW list \in Seq(Server), NEW id \in IdsOf(list)
  PROVE  Entry(list, id) \in Server /\ Place(list, id) \in DOMAIN list
<1>1. PICK k \in DOMAIN list : list[k].id = id
  BY DEF IdsOf
<1>2. Place(list, id) \in DOMAIN list
  BY <1>1 DEF Place
<1>3. Range(list) = {list[l] : l \in DOMAIN list}
  BY DEF Range
<1>4. Entry(list, id) \in Range(list)
  BY <1>1, <1>3 DEF Entry
<1>5. Range(list) \subseteq Server
  BY <1>3
<1> QED BY <1>2, <1>4, <1>5

\* What a step may do: save a list that may be saved.
LEMMA SavesFine ==
  ASSUME NEW active, NEW list, NEW n, Saved(list, n), Saves(active, list)
  PROVE  Fine(registry', n)
<1> DEFINE data == [active |-> active, list |-> list]
<1>1. data.list = list
  OBVIOUS
<1>2. registry' = Clean(data)
  BY DEF Saves
<1> HIDE DEF data
<1> QED BY <1>1, <1>2, CleanIsFine

LEMMA CreatesFine ==
  ASSUME Inv, NEW path \in Paths, NEW p \in PortMap, NEW given \in PortMap \cup {NoMap},
         Creates(path, p, given)
  PROVE  /\ Fine(registry', nextId') /\ nextId' \in {nextId, nextId + 1}
         /\ Created(path, p, given).active \in Int
<1> DEFINE same == {r \in Range(registry.list) : r.path = path}
           ports == Allocate(registry.list, p)
           new == [id |-> nextId, path |-> path, ports |-> ports,
                   map |-> IF given = NoMap THEN ports ELSE given]
<1>0. PICK data : data = Created(path, p, given)
  OBVIOUS
<1>1. /\ registry' = Clean(data)
      /\ nextId' = IF data.active = nextId THEN nextId + 1 ELSE nextId
  BY <1>0 DEF Creates
<1>2. /\ nextId \in Nat /\ registry.list \in Seq(Server) /\ Saved(registry.list, nextId)
      /\ \A k \in DOMAIN registry.list :
              registry.list[k] \in Server /\ registry.list[k].id \in Int /\ registry.list[k].id < nextId
  BY FineList DEF Inv
<1>3. data = IF same # {} THEN [registry EXCEPT !.active = (CHOOSE r \in same : TRUE).id]
             ELSE [active |-> nextId, list |-> Append(registry.list, new)]
  BY <1>0 DEF Created
<1>4. CASE same # {}
  <2>1. (CHOOSE r \in same : TRUE) \in same
    BY <1>4
  <2>2. PICK k \in DOMAIN registry.list : registry.list[k] = CHOOSE r \in same : TRUE
    BY <2>1 DEF Range
  <2>3. registry = [active |-> registry.active, list |-> registry.list]
    BY DEF Inv, Fine
  <2>4. data = [registry EXCEPT !.active = registry.list[k].id]
    BY <1>3, <1>4, <2>2
  <2>5. data.list = registry.list /\ data.active = registry.list[k].id
    BY <2>3, <2>4
  <2>6. data.active \in Int /\ data.active # nextId
    BY <1>2, <2>5
  <2>7. Fine(Clean(data), nextId)
    BY <1>2, <2>5, CleanIsFine
  <2>8. nextId' = nextId
    BY <1>1, <2>6
  <2>9. Fine(registry', nextId')
    BY <1>1, <2>7, <2>8
  <2> QED BY <1>0, <2>6, <2>8, <2>9
<1>5. CASE same = {}
  <2>1. data = [active |-> nextId, list |-> Append(registry.list, new)]
    BY <1>3, <1>5
  <2>2. data.active = nextId /\ data.list = Append(registry.list, new)
    <3> HIDE DEF new
    <3> QED BY <2>1
  <2>3. Tidy(registry.list)
    BY DEF Inv, Fine
  <2>4. p \in StoredPorts
    BY DEF PortMap, StoredPorts
  <2>5. ports \in PortMap
    BY <2>3, <2>4, Allocates
  <2> HIDE DEF ports
  <2>6. new \in Stored /\ new.id = nextId
    BY <1>2, <2>5 DEF Stored, PortMap
  <2> HIDE DEF new
  <2>7. Saved(data.list, nextId + 1)
    BY <1>2, <2>2, <2>6, AppendSaved
  <2>8. Fine(Clean(data), nextId + 1)
    BY <2>7, CleanIsFine
  <2>9. nextId' = nextId + 1
    BY <1>1, <2>2
  <2>10. Fine(registry', nextId')
    BY <1>1, <2>8, <2>9
  <2> QED BY <1>0, <1>2, <2>2, <2>9, <2>10
<1> QED BY <1>4, <1>5

\* Time passes for what threads hold.
LEMMA ReadsStay ==
  ASSUME Inv, nextId' \in {nextId, nextId + 1}, NEW t \in Threads
  PROVE  Saved(read[t].list, nextId') /\ nextId' \in Nat /\ nextId' > 0
<1>1. nextId \in Nat /\ nextId > 0 /\ Saved(read[t].list, nextId)
  BY DEF Inv
<1> QED BY <1>1, Later

LEMMA NextIdStays ==
  ASSUME Inv, nextId' \in {nextId, nextId + 1}
  PROVE  nextId' \in Nat /\ nextId' > 0
BY DEF Inv

-----------------------------------------------------------------------------
(* The steps                                                                *)

LEMMA ImportsInv ==
  ASSUME Inv, NEW path \in Paths, Imports(path) PROVE Inv'
<1>1. Default(path) \in PortMap /\ ini[path] \in PortMap
  BY DefaultPorts DEF Inv
<1>2. \E p \in PortMap, given \in PortMap \cup {NoMap} : Creates(path, p, given)
  BY <1>1 DEF Imports
<1>4. Fine(registry', nextId') /\ nextId' \in {nextId, nextId + 1}
  BY <1>2, CreatesFine
<1>3. UNCHANGED <<ini, read, job>>
  BY DEF Imports
<1> QED BY <1>3, <1>4, ReadsStay, NextIdStays DEF Inv

LEMMA SetsActiveInv ==
  ASSUME Inv, NEW id, SetsActive(id) PROVE Inv'
<1>1. Saved(registry.list, nextId)
  BY FineList DEF Inv
<1>2. Fine(registry', nextId)
  BY <1>1, SavesFine DEF SetsActive
<1>3. UNCHANGED <<ini, read, job, nextId>>
  BY DEF SetsActive
<1> QED BY <1>2, <1>3 DEF Inv

LEMMA RemovesInv ==
  ASSUME Inv, NEW id, Removes(id) PROVE Inv'
<1> DEFINE list == RemoveAt(registry.list, Place(registry.list, id))
<1>1. registry.list \in Seq(Server) /\ Saved(registry.list, nextId)
  BY FineList DEF Inv
<1>2. id \in IdsOf(registry.list)
  BY DEF Removes
<1>3. Saved(list, nextId)
  BY <1>1, <1>2, Found, RemoveSaved
<1>4. \E active : Saves(active, list)
  BY DEF Removes
<1> HIDE DEF list
<1>5. Fine(registry', nextId)
  BY <1>3, <1>4, SavesFine
<1>6. UNCHANGED <<ini, read, job, nextId>>
  BY DEF Removes
<1> QED BY <1>5, <1>6 DEF Inv

LEMMA SetsQueryPortInv ==
  ASSUME Inv, NEW id, NEW q \in Custom, SetsQueryPort(id, q) PROVE Inv'
<1>1. registry.list \in Seq(Server) /\ Saved(registry.list, nextId) /\ q \in Ports
  BY FineList, InstancesAssumption DEF Inv
<1>2. Saves(registry.active, With(registry.list, id, {"query"}, q))
  BY DEF SetsQueryPort
<1>3. Fine(registry', nextId)
  BY <1>1, <1>2, WithSaved, SavesFine
<1>4. UNCHANGED <<ini, read, job, nextId>>
  BY DEF SetsQueryPort
<1> QED BY <1>3, <1>4 DEF Inv

LEMMA SetsGamePortInv ==
  ASSUME Inv, NEW id, NEW g \in Custom, SetsGamePort(id, g) PROVE Inv'
<1> DEFINE path == Entry(registry.list, id).path
<1>1. registry.list \in Seq(Server) /\ Saved(registry.list, nextId) /\ g \in Ports
  BY FineList, InstancesAssumption DEF Inv
<1>2. /\ id \in IdsOf(registry.list)
      /\ \/ Saves(registry.active, With(registry.list, id, {"game"}, g))
         \/ UNCHANGED registry
  BY DEF SetsGamePort, Inv, Fine, ActiveIsOne
<1>3. path \in Paths
  BY <1>1, <1>2, Found DEF Server
<1>4. ini' = [ini EXCEPT ![path] = [ini[path] EXCEPT !.game = g]]
  BY DEF SetsGamePort
<1> HIDE DEF path
<1>5. Fine(registry', nextId)
  BY <1>1, <1>2, WithSaved, SavesFine DEF Inv
<1>6. ini' \in [Paths -> PortMap]
  <2>1. ini \in [Paths -> PortMap] /\ ini[path] \in PortMap
    BY <1>3 DEF Inv
  <2>2. [ini[path] EXCEPT !.game = g] \in PortMap
    BY <1>1, <2>1 DEF PortMap
  <2> QED BY <1>4, <2>1, <2>2
<1>7. UNCHANGED <<read, job, nextId>>
  BY DEF SetsGamePort
<1> QED BY <1>5, <1>6, <1>7 DEF Inv

LEMMA SetsNetworkPortsInv ==
  ASSUME Inv, NEW id, NEW keys, NEW p \in Custom, SetsNetworkPorts(id, keys, p) PROVE Inv'
<1> DEFINE path == Entry(registry.list, id).path
<1>1. registry.list \in Seq(Server) /\ Saved(registry.list, nextId) /\ p \in Ports
  BY FineList, InstancesAssumption DEF Inv
<1>2. id \in IdsOf(registry.list) /\ Saves(registry.active, With(registry.list, id, keys, p))
  BY DEF SetsNetworkPorts, Inv, Fine, ActiveIsOne
<1>3. path \in Paths
  BY <1>1, <1>2, Found DEF Server
<1>4. ini' = [ini EXCEPT ![path] = Set(ini[path], keys, p)]
  BY DEF SetsNetworkPorts
<1> HIDE DEF path
<1>5. Fine(registry', nextId)
  BY <1>1, <1>2, WithSaved, SavesFine
<1>6. ini' \in [Paths -> PortMap]
  BY <1>1, <1>3, <1>4, SetPorts DEF Inv
<1>7. UNCHANGED <<read, job, nextId>>
  BY DEF SetsNetworkPorts
<1> QED BY <1>5, <1>6, <1>7 DEF Inv

LEMMA ThreadLoadsInv ==
  ASSUME Inv, NEW t \in Threads, ThreadLoads(t) PROVE Inv'
<1> DEFINE r == [active |-> registry.active, list |-> registry.list, held |-> TRUE]
<1>1. registry.list \in Seq(Server) /\ Saved(registry.list, nextId) /\ registry.active \in Int
  BY FineList DEF Inv
<1>2. r \in ReadRecord /\ r.list = registry.list
  BY <1>1 DEF ReadRecord
<1>3. read' = [read EXCEPT ![t] = r]
  BY DEF ThreadLoads
<1>4. UNCHANGED <<registry, ini, job, nextId>>
  BY DEF ThreadLoads
<1> HIDE DEF r
<1> QED BY <1>1, <1>2, <1>3, <1>4 DEF Inv

LEMMA NothingHeld ==
  ASSUME Inv, NEW t \in Threads, read' = [read EXCEPT ![t] = NoRead]
  PROVE  read' \in [Threads -> ReadRecord] /\ \A u \in Threads : Saved(read'[u].list, nextId)
<1>1. NoRead \in ReadRecord /\ Saved(NoRead.list, nextId)
  BY DEF NoRead, ReadRecord, None, Saved, OwnIds, Below
<1> QED BY <1>1 DEF Inv

LEMMA ThreadSavesInv ==
  ASSUME Inv, NEW t \in Threads, NEW id, ThreadSaves(t, id) PROVE Inv'
<1> DEFINE p == ini[Entry(read[t].list, id).path].game
<1>1. read[t].list \in Seq(Server) /\ Saved(read[t].list, nextId)
  BY DEF Inv, ReadRecord
<1>2. id \in IdsOf(read[t].list) /\ Saves(read[t].active, With(read[t].list, id, {"game"}, p))
  BY DEF ThreadSaves
<1>3. p \in Ports
  <2>1. Entry(read[t].list, id).path \in Paths
    BY <1>1, <1>2, Found DEF Server
  <2> QED BY <2>1 DEF Inv, PortMap
<1> HIDE DEF p
<1>4. Fine(registry', nextId)
  BY <1>1, <1>2, <1>3, WithSaved, SavesFine
<1>5. read' = [read EXCEPT ![t] = NoRead] /\ UNCHANGED <<ini, job, nextId>>
  BY DEF ThreadSaves
<1> QED BY <1>4, <1>5, NothingHeld DEF Inv

LEMMA ThreadDropsInv ==
  ASSUME Inv, NEW t \in Threads, ThreadDrops(t) PROVE Inv'
<1>1. read' = [read EXCEPT ![t] = NoRead] /\ UNCHANGED <<registry, ini, job, nextId>>
  BY DEF ThreadDrops
<1> QED BY <1>1, NothingHeld DEF Inv

LEMMA DeploysInv ==
  ASSUME Inv, NEW j \in Jobs, NEW path \in Paths, NEW copy \in BOOLEAN, Deploys(j, path, copy)
  PROVE  Inv'
<1>3. PICK p \in PortMap : job' = [job EXCEPT ![j] =
        [status |-> "start", path |-> path, copy |-> copy, ports |-> p, id |-> None]]
  BY InstancesAssumption DEF Deploys
<1>4. job' \in [Jobs -> JobRecord]
  BY <1>3 DEF Inv, JobRecord, None
<1>5. UNCHANGED <<registry, ini, read, nextId>>
  BY DEF Deploys
<1> QED BY <1>4, <1>5 DEF Inv

LEMMA GoesOn ==
  ASSUME Inv, NEW j \in Jobs, NEW status \in {"install", "register", "error", "done"},
         Goes(j, status), UNCHANGED <<registry, ini, read, nextId>>
  PROVE  Inv'
<1>1. job \in [Jobs -> JobRecord] /\ job[j] \in JobRecord
  BY DEF Inv
<1>2. [job[j] EXCEPT !.status = status] \in JobRecord
  BY <1>1 DEF JobRecord
<1>3. job' = [job EXCEPT ![j] = [job[j] EXCEPT !.status = status]]
  BY DEF Goes
<1>4. job' \in [Jobs -> JobRecord]
  BY <1>1, <1>2, <1>3
<1> QED BY <1>4 DEF Inv

LEMMA RegistersInv ==
  ASSUME Inv, NEW j \in Jobs, Registers(j) PROVE Inv'
<1> DEFINE path == job[j].path
           p == job[j].ports
           id == Created(path, p, p).active
<1>1. job \in [Jobs -> JobRecord] /\ job[j] \in JobRecord /\ path \in Paths /\ p \in PortMap
  BY DEF Inv, JobRecord
<1>2. Creates(path, p, p)
  BY DEF Registers
<1>3. Fine(registry', nextId') /\ nextId' \in {nextId, nextId + 1} /\ id \in Int
  BY <1>1, <1>2, CreatesFine
<1>4. /\ ini' = [ini EXCEPT ![path] = p] /\ UNCHANGED read
      /\ job' = [job EXCEPT ![j] = [[job[j] EXCEPT !.status = "firewall"] EXCEPT !.id = id]]
  BY DEF Registers
<1> HIDE DEF path, p, id
<1>5. [[job[j] EXCEPT !.status = "firewall"] EXCEPT !.id = id] \in JobRecord
  BY <1>1, <1>3 DEF JobRecord
<1>6. job' \in [Jobs -> JobRecord] /\ ini' \in [Paths -> PortMap]
  BY <1>1, <1>4, <1>5 DEF Inv
<1> QED BY <1>3, <1>4, <1>6, ReadsStay, NextIdStays DEF Inv

LEMMA DeploymentInv ==
  ASSUME Inv, NEW j \in Jobs, Deployment(j) PROVE Inv'
<1>1. CASE InstallBegins(j)
  BY <1>1, GoesOn DEF InstallBegins
<1>2. CASE InstallEnds(j)
  BY <1>2, GoesOn DEF InstallEnds
<1>3. CASE InstallFails(j)
  BY <1>3, GoesOn DEF InstallFails
<1>4. CASE Registers(j)
  BY <1>4, RegistersInv
<1>5. CASE Finishes(j)
  BY <1>5, GoesOn DEF Finishes
<1> QED BY <1>1, <1>2, <1>3, <1>4, <1>5 DEF Deployment

LEMMA HandlerInv ==
  ASSUME Inv, Handler PROVE Inv'
<1>1. ASSUME NEW path \in Paths, Imports(path) PROVE Inv'
  BY <1>1, ImportsInv
<1>2. ASSUME NEW id \in Ids, SetsActive(id) \/ Removes(id) PROVE Inv'
  BY <1>2, SetsActiveInv, RemovesInv
<1>3. ASSUME NEW id \in Ids, NEW c \in Custom, SetsQueryPort(id, c) \/ SetsGamePort(id, c) PROVE Inv'
  BY <1>3, SetsQueryPortInv, SetsGamePortInv
<1>4. ASSUME NEW id \in Ids, NEW c \in Custom, NEW keys, SetsNetworkPorts(id, keys, c) PROVE Inv'
  BY <1>4, SetsNetworkPortsInv
<1> QED BY <1>1, <1>2, <1>3, <1>4 DEF Handler

LEMMA NextInv == Inv /\ [Next]_vars => Inv'
<1> SUFFICES ASSUME Inv, [Next]_vars PROVE Inv'
  OBVIOUS
<1>1. CASE Handler
  BY <1>1, HandlerInv
<1>2. ASSUME NEW t \in Threads, ThreadLoads(t) \/ ThreadDrops(t) \/ \E i \in Ids : ThreadSaves(t, i)
      PROVE  Inv'
  BY <1>2, ThreadLoadsInv, ThreadDropsInv, ThreadSavesInv
<1>3. ASSUME NEW j \in Jobs, NEW p \in Paths, NEW copy \in BOOLEAN, Deploys(j, p, copy) PROVE Inv'
  BY <1>3, DeploysInv
<1>4. ASSUME NEW j \in Jobs, Deployment(j) PROVE Inv'
  BY <1>4, DeploymentInv
<1>5. CASE UNCHANGED vars
  BY <1>5 DEF vars, Inv
<1> QED BY <1>1, <1>2, <1>3, <1>4, <1>5 DEF Next

-----------------------------------------------------------------------------
(* The theorems                                                             *)

\* Whatever handlers, deployments and threads overwrite of each other, and whatever
\* an earlier version has left: what the next operation reads has one entry for each
\* folder and identifier, no gamePort, rconPort or queryPort twice, and an active
\* server that exists (_dedupe_data).
THEOREM ReadsStayClean == Spec => []ReadsAreClean
<1>1. Inv => ReadsAreClean
  <2> SUFFICES ASSUME Inv PROVE ReadsAreClean
    OBVIOUS
  <2>1. Tidy(registry.list) /\ OwnIds(registry.list) /\ ActiveIsOne(registry)
    BY DEF Inv, Fine
  <2> QED BY <2>1 DEF Tidy, OwnIds, ActiveIsOne, ReadsAreClean
<1> QED BY <1>1, InitInv, NextInv, PTL DEF Spec

\* A second read repairs nothing: _dedupe_data leaves alone what it has repaired.
THEOREM SecondReadAgrees == Spec => []ReadsAgree
<1>1. Inv => ReadsAgree
  BY CleanTwice DEF Inv, Fine, ReadsAgree
<1> QED BY <1>1, InitInv, NextInv, PTL DEF Spec
=============================================================================
