------------------------------ MODULE ModsProofs ------------------------------
(***************************************************************************)
(* Proofs about Mods for any servers, mods, versions and faults: the game  *)
(* loads what users last asked for or a task has switched on since, the    *)
(* list says so of Workshop mods, and a scan lists every mod from Nexus.   *)
(* Then of the mods of a Conan server, module ConanMods: choices hold, and *)
(* the game is given the files of the mods that are enabled, in the order  *)
(* of the page.                                                            *)
(***************************************************************************)
EXTENDS Mods, ConanPromises, FiniteSetTheorems, TLAPS

\* The mods of a Conan server: module ConanMods, with what it assumes of its
\* constants.
CONSTANTS MaxVersion, Pages, MaxTasks, MaxAccidents
VARIABLES onSteam, task, page, tasks, accidents
Conan == INSTANCE ConanMods WITH steam <- onSteam, ops <- tasks, faults <- accidents,
                                 MaxOps <- MaxTasks, MaxFaults <- MaxAccidents

-----------------------------------------------------------------------------
(* Numbers and finite sets                                                  *)

Less == {p \in Nat \X Nat : p[1] < p[2]}

LEMMA LessWellFounded == IsWellFoundedOn(Less, Nat)
BY NatLessThanWellFounded DEF OpToRel, Less

\* A set of numbers that is not empty has a least one.
LEMMA Least ==
  ASSUME NEW T, T \subseteq Nat, T # {}
  PROVE  \E m \in T : \A n \in T : m <= n
<1>1. \E x \in T : \A y \in T : ~(<<y, x>> \in Less)
  BY LessWellFounded, WFMin
<1>2. ASSUME NEW x \in Nat, NEW y \in Nat, ~(<<y, x>> \in Less) PROVE x <= y
  BY <1>2 DEF Less
<1> QED BY <1>1, <1>2

\* Induction, for a set of numbers: the least number outside of it cannot be.
LEMMA Upwards ==
  ASSUME NEW S, 0 \in S, \A n \in Nat : n \in S => n + 1 \in S
  PROVE  Nat \subseteq S
<1> SUFFICES ASSUME ~(Nat \subseteq S) PROVE FALSE
  OBVIOUS
<1> DEFINE T == Nat \ S
<1>1. PICK m \in T : \A n \in T : m <= n
  BY Least
<1>2. m # 0 /\ m - 1 \in Nat
  OBVIOUS
<1>3. m - 1 \in S
  BY <1>1, <1>2
<1> QED BY <1>2, <1>3

\* The places of a list are as many as it is long.
LEMMA UpToFinite == ASSUME NEW n \in Nat PROVE IsFiniteSet(1..n) /\ Cardinality(1..n) = n
BY FS_Interval

\* The image of a finite set is finite.
LEMMA FiniteImage ==
  ASSUME NEW S, IsFiniteSet(S), NEW f, DOMAIN f = S, f = [x \in S |-> f[x]]
  PROVE  IsFiniteSet({f[x] : x \in S})
<1> DEFINE T == {f[x] : x \in S}
<1>1. f \in Surjection(S, T)
  BY DEF Surjection
<1> QED BY <1>1, FS_Surjection

\* A finite set as a list: each element once and nothing else.
LEMMA SetAsList ==
  ASSUME NEW S, IsFiniteSet(S)
  PROVE  /\ SetToSeq(S) \in Seq(S)
         /\ \A j, k \in DOMAIN SetToSeq(S) : SetToSeq(S)[j] = SetToSeq(S)[k] => j = k
         /\ \A x \in S : \E k \in DOMAIN SetToSeq(S) : SetToSeq(S)[k] = x
<1> DEFINE N == Cardinality(S)
<1>1. N \in Nat /\ ExistsBijection(1..N, S)
  BY FS_CardinalityType
<1>2. PICK b : b \in Bijection(1..N, S)
  BY <1>1 DEF ExistsBijection
<1>3. b \in [1..N -> S] /\ IsInjective(b)
  BY <1>2 DEF Bijection, Injection, IsInjective
<1>4. SetToSeq(S) \in [1..N -> S] /\ IsInjective(SetToSeq(S))
  BY <1>3 DEF SetToSeq
<1>5. SetToSeq(S) \in Injection(1..N, S)
  BY <1>4 DEF Injection
<1>6. IsFiniteSet(1..N) /\ Cardinality(1..N) = N
  BY <1>1, UpToFinite
<1>7. SetToSeq(S) \in Surjection(1..N, S)
  BY <1>5, <1>6, FS_Injection
<1>8. SetToSeq(S) \in Seq(S)
  BY <1>1, <1>4
<1> QED BY <1>4, <1>7, <1>8 DEF IsInjective, Surjection

-----------------------------------------------------------------------------
(* Only: the part of a list at some of its places                           *)

\* One turn of the loop: what is kept of the first k, from what is kept of one less.
Turn(g, list, places, k) ==
  IF k = 0 THEN <<>>
  ELSE IF k \in places THEN Append(g[k - 1], list[k]) ELSE g[k - 1]

\* g keeps, of every beginning of the list, what the loop keeps.
Filters(g, list, places, n) == \A k \in 0..n : g[k] = Turn(g, list, places, k)

LEMMA TurnType ==
  ASSUME NEW R, NEW list \in Seq(R), NEW places, NEW g, NEW k \in 1..Len(list),
         g[k - 1] \in Seq(R)
  PROVE  Turn(g, list, places, k) \in Seq(R)
BY DEF Turn

LEMMA TurnBase ==
  ASSUME NEW list, NEW places, NEW g PROVE Turn(g, list, places, 0) = <<>>
BY DEF Turn

LEMMA TurnAgrees ==
  ASSUME NEW list, NEW places, NEW g, NEW h, NEW k, k = 0 \/ g[k - 1] = h[k - 1]
  PROVE  Turn(g, list, places, k) = Turn(h, list, places, k)
BY DEF Turn

\* There is such a g: induction on the length of the list.
LEMMA LoopExists ==
  ASSUME NEW R, NEW list \in Seq(R), NEW places
  PROVE  \E g \in [0..Len(list) -> Seq(R)] : Filters(g, list, places, Len(list))
<1> DEFINE N == Len(list)
           S == {n \in Nat : n <= N => \E g \in [0..n -> Seq(R)] : Filters(g, list, places, n)}
<1>1. 0 \in S
  <2> DEFINE g == [k \in 0..0 |-> <<>>]
  <2>1. g \in [0..0 -> Seq(R)] /\ Filters(g, list, places, 0)
    BY DEF Filters, Turn
  <2> QED BY <2>1
<1>2. ASSUME NEW n \in Nat, n \in S PROVE n + 1 \in S
  <2> SUFFICES ASSUME n + 1 <= N
               PROVE  \E g \in [0..(n + 1) -> Seq(R)] : Filters(g, list, places, n + 1)
    OBVIOUS
  <2>1. PICK g \in [0..n -> Seq(R)] : Filters(g, list, places, n)
    BY <1>2
  <2> DEFINE h == [k \in 0..(n + 1) |-> IF k <= n THEN g[k] ELSE Turn(g, list, places, n + 1)]
  <2>2. Turn(g, list, places, n + 1) \in Seq(R)
    BY TurnType
  <2>3. h \in [0..(n + 1) -> Seq(R)]
    BY <2>2
  <2>4. \A k \in 0..n : h[k] = g[k]
    OBVIOUS
  <2>5. ASSUME NEW k \in 0..(n + 1) PROVE h[k] = Turn(h, list, places, k)
    <3>1. CASE k <= n
      <4>1. k = 0 \/ g[k - 1] = h[k - 1]
        BY <3>1, <2>4
      <4>2. h[k] = Turn(g, list, places, k)
        BY <3>1, <2>1, <2>4 DEF Filters
      <4> HIDE DEF h
      <4> QED BY <4>1, <4>2, TurnAgrees
    <3>2. CASE k = n + 1
      <4>1. h[k] = Turn(g, list, places, k) /\ g[k - 1] = h[k - 1]
        BY <3>2, <2>4
      <4> HIDE DEF h
      <4> QED BY <4>1, TurnAgrees
    <3> QED BY <3>1, <3>2
  <2> QED BY <2>3, <2>5 DEF Filters
<1>3. Nat \subseteq S
  BY <1>1, <1>2, Upwards
<1> QED BY <1>3

\* The recursive function of Only is such a g, and keeps lists of the same type.
LEMMA Unfolds ==
  ASSUME NEW R, NEW list \in Seq(R), NEW places
  PROVE  \E g \in [0..Len(list) -> Seq(R)] :
           Filters(g, list, places, Len(list)) /\ Only(list, places) = g[Len(list)]
<1> DEFINE N == Len(list)
           Is(h) == h = [k \in 0..N |-> Turn(h, list, places, k)]
<1>1. PICK g \in [0..N -> Seq(R)] : Filters(g, list, places, N)
  BY LoopExists
<1>2. Is(g)
  BY <1>1 DEF Filters
<1>3. PICK f : Is(f) /\ Only(list, places) = f[N]
  <2>1. Is(CHOOSE h : Is(h))
    <3> HIDE DEF Is
    <3> QED BY <1>2
  <2>2. Only(list, places) = (CHOOSE h : Is(h))[N]
    BY DEF Only, Turn
  <2> HIDE DEF Is
  <2> QED BY <2>1, <2>2
<1>4. N \in Nat
  OBVIOUS
<1> HIDE DEF N
<1>5. DOMAIN f = 0..N /\ Filters(f, list, places, N)
  BY <1>3 DEF Filters
<1> DEFINE V == {n \in Nat : n <= N => f[n] \in Seq(R)}
<1>6. 0 \in V
  <2>1. f[0] = <<>>
    BY <1>4, <1>5, TurnBase DEF Filters
  <2>2. <<>> \in Seq(R)
    OBVIOUS
  <2>3. f[0] \in Seq(R)
    BY <2>1, <2>2
  <2> QED BY <2>3
<1>7. ASSUME NEW n \in Nat, n \in V PROVE n + 1 \in V
  <2> SUFFICES ASSUME n + 1 <= N PROVE f[n + 1] \in Seq(R)
    OBVIOUS
  <2>1. f[n + 1] = Turn(f, list, places, n + 1)
    BY <1>4, <1>5 DEF Filters
  <2>2. f[(n + 1) - 1] \in Seq(R) /\ n + 1 \in 1..Len(list)
    BY <1>4, <1>7 DEF N
  <2> QED BY <2>1, <2>2, TurnType
<1>8. Nat \subseteq V
  BY <1>6, <1>7, Upwards
<1>9. f \in [0..N -> Seq(R)]
  BY <1>3, <1>4, <1>5, <1>8
<1> QED BY <1>3, <1>5, <1>9 DEF N

\* h says of each item of "part" which of the places of "list" it comes from.
Comes(h, part, list, places) ==
  /\ h \in [DOMAIN part -> places]
  /\ \A a, b \in DOMAIN part : h[a] = h[b] => a = b
  /\ \A k \in places : \E a \in DOMAIN part : h[a] = k
  /\ \A a \in DOMAIN part : part[a] = list[h[a]]

LEMMA OneMoreComes ==
  ASSUME NEW R, NEW list \in Seq(R), NEW n \in Nat, n + 1 <= Len(list), NEW places,
         NEW part \in Seq(R), NEW h, Comes(h, part, list, places \cap (1..n)), n + 1 \in places
  PROVE  \E i : Comes(i, Append(part, list[n + 1]), list, places \cap (1..(n + 1)))
<1> DEFINE more == Append(part, list[n + 1])
           i == [a \in DOMAIN more |-> IF a \in DOMAIN part THEN h[a] ELSE n + 1]
<1>1. /\ list[n + 1] \in R /\ DOMAIN part = 1..Len(part) /\ DOMAIN more = 1..(Len(part) + 1)
      /\ \A a \in DOMAIN part : more[a] = part[a]
      /\ more[Len(part) + 1] = list[n + 1] /\ Len(part) \in Nat
  OBVIOUS
<1> HIDE DEF more
<1>2. /\ DOMAIN i = DOMAIN more /\ i[Len(part) + 1] = n + 1
      /\ \A a \in DOMAIN part : i[a] = h[a] /\ h[a] \in places \cap (1..n)
  BY <1>1 DEF Comes
<1>3. i \in [DOMAIN more -> places \cap (1..(n + 1))]
  <2>1. \A a \in DOMAIN more : i[a] \in places \cap (1..(n + 1))
    <3> HIDE DEF i
    <3> QED BY <1>1, <1>2
  <2> QED BY <2>1
<1> HIDE DEF i
<1>4. \A a, b \in DOMAIN more : i[a] = i[b] => a = b
  BY <1>1, <1>2 DEF Comes
<1>5. \A k \in places \cap (1..(n + 1)) : \E a \in DOMAIN more : i[a] = k
  <2> SUFFICES ASSUME NEW k \in places \cap (1..(n + 1)) PROVE \E a \in DOMAIN more : i[a] = k
    OBVIOUS
  <2>1. CASE k = n + 1
    BY <1>1, <1>2, <2>1
  <2>2. CASE k # n + 1
    <3>1. k \in places \cap (1..n)
      BY <2>2
    <3>2. PICK a \in DOMAIN part : h[a] = k
      BY <3>1 DEF Comes
    <3> QED BY <3>2, <1>1, <1>2
  <2> QED BY <2>1, <2>2
<1>6. \A a \in DOMAIN more : more[a] = list[i[a]]
  BY <1>1, <1>2 DEF Comes
<1> QED BY <1>3, <1>4, <1>5, <1>6 DEF Comes, more

\* What Only keeps are the records at these places, each once.
LEMMA OnlyThese ==
  ASSUME NEW R, NEW list \in Seq(R), NEW places, places \subseteq DOMAIN list
  PROVE  /\ Only(list, places) \in Seq(R)
         /\ \E h : Comes(h, Only(list, places), list, places)
<1> DEFINE N == Len(list)
<1>1. PICK g \in [0..N -> Seq(R)] : Filters(g, list, places, N) /\ Only(list, places) = g[N]
  BY Unfolds
<1>2. N \in Nat /\ DOMAIN list = 1..N
  OBVIOUS
<1> DEFINE S == {n \in Nat : n <= N => \E h : Comes(h, g[n], list, places \cap (1..n))}
<1>3. 0 \in S
  <2>1. g[0] = <<>>
    BY <1>1, <1>2, TurnBase DEF Filters
  <2>2. Comes(<<>>, <<>>, list, places \cap (1..0))
    BY DEF Comes
  <2> QED BY <2>1, <2>2
<1>4. ASSUME NEW n \in Nat, n \in S PROVE n + 1 \in S
  <2> SUFFICES ASSUME n + 1 <= N
               PROVE  \E h : Comes(h, g[n + 1], list, places \cap (1..(n + 1)))
    OBVIOUS
  <2>1. PICK h : Comes(h, g[n], list, places \cap (1..n))
    BY <1>4
  <2>2. g[n + 1] = IF n + 1 \in places THEN Append(g[n], list[n + 1]) ELSE g[n]
    <3>1. n + 1 \in 0..N /\ (n + 1) - 1 = n /\ n + 1 # 0
      BY <1>2
    <3>2. g[n + 1] = Turn(g, list, places, n + 1)
      BY <1>1, <3>1 DEF Filters
    <3> QED BY <3>1, <3>2 DEF Turn
  <2>3. g[n] \in Seq(R) /\ n + 1 <= Len(list)
    BY <1>1, <1>2
  <2>4. CASE n + 1 \in places
    <3>1. \E i : Comes(i, Append(g[n], list[n + 1]), list, places \cap (1..(n + 1)))
      BY <2>1, <2>3, <2>4, OneMoreComes
    <3> QED BY <2>2, <2>4, <3>1
  <2>5. CASE n + 1 \notin places
    <3>1. places \cap (1..(n + 1)) = places \cap (1..n)
      BY <2>5
    <3> QED BY <2>1, <2>2, <2>5, <3>1
  <2> QED BY <2>4, <2>5
<1>5. \E h : Comes(h, g[N], list, places \cap (1..N))
  <2>1. Nat \subseteq S
    BY <1>3, <1>4, Upwards
  <2> QED BY <1>2, <2>1
<1>6. places \cap (1..N) = places
  BY <1>2
<1>7. g[N] \in Seq(R)
  BY <1>1, <1>2
<1> HIDE DEF N, S
<1> QED BY <1>1, <1>5, <1>6, <1>7

-----------------------------------------------------------------------------
(* Lists of records                                                         *)

LEMMA RecordsFinite == IsFiniteSet(Records)
<1> DEFINE Sources == {"steam", "nexus", "unknown", "manual"}
           Numbers == Versions \cup {0}
           Paths == SUBSET Spots
           P == ((Items \X Sources) \X (BOOLEAN \X Numbers)) \X (Paths \X Spots)
           f == [x \in P |-> [id |-> x[1][1][1], src |-> x[1][1][2], on |-> x[1][2][1],
                              ver |-> x[1][2][2], at |-> x[2][1], dir |-> x[2][2]]]
<1>1. IsFiniteSet(Sources) /\ IsFiniteSet(BOOLEAN)
  <2>1. IsFiniteSet({} \cup {"steam"})
    BY FS_EmptySet, FS_AddElement
  <2>2. IsFiniteSet(({} \cup {"steam"}) \cup {"nexus"})
    BY <2>1, FS_AddElement
  <2>3. IsFiniteSet((({} \cup {"steam"}) \cup {"nexus"}) \cup {"unknown"})
    BY <2>2, FS_AddElement
  <2>4. IsFiniteSet(((({} \cup {"steam"}) \cup {"nexus"}) \cup {"unknown"}) \cup {"manual"})
    BY <2>3, FS_AddElement
  <2>5. Sources = ((({} \cup {"steam"}) \cup {"nexus"}) \cup {"unknown"}) \cup {"manual"}
    OBVIOUS
  <2>6. IsFiniteSet({TRUE} \cup {FALSE})
    BY FS_Singleton, FS_AddElement
  <2>7. BOOLEAN = {TRUE} \cup {FALSE}
    OBVIOUS
  <2> QED BY <2>4, <2>5, <2>6, <2>7
<1>2. IsFiniteSet(Numbers)
  <2> DEFINE g == [i \in Items |-> 1..Newest[i]]
  <2>1. IsFiniteSet(Items)
    BY ModsAssumption
  <2>2. IsFiniteSet({g[i] : i \in Items})
    BY <2>1, FiniteImage
  <2>3. \A T \in {g[i] : i \in Items} : IsFiniteSet(T)
    BY ModsAssumption, FS_Interval
  <2>4. Versions = UNION {g[i] : i \in Items}
    BY DEF Versions
  <2>5. IsFiniteSet(Versions)
    BY <2>2, <2>3, <2>4, FS_UNION
  <2> QED BY <2>5, FS_AddElement
<1>3. IsFiniteSet(Items \X Sources)
  BY <1>1, ModsAssumption, FS_Product
<1>4. IsFiniteSet(BOOLEAN \X Numbers)
  BY <1>1, <1>2, FS_Product
<1>5. IsFiniteSet(P)
  <2>1. IsFiniteSet({Loose} \cup {InFolder}) /\ Spots = {Loose} \cup {InFolder}
    BY FS_Singleton, FS_AddElement DEF Spots
  <2>2. IsFiniteSet(Paths \X Spots)
    BY <2>1, FS_SUBSET, FS_Product
  <2>3. IsFiniteSet((Items \X Sources) \X (BOOLEAN \X Numbers))
    BY <1>3, <1>4, FS_Product
  <2> QED BY <2>2, <2>3, FS_Product
<1>6. IsFiniteSet({f[x] : x \in P})
  <2>1. DOMAIN f = P /\ f = [x \in P |-> f[x]]
    OBVIOUS
  <2> HIDE DEF f, P
  <2> QED BY <1>5, <2>1, FiniteImage
<1>7. ASSUME NEW r \in Records PROVE \E x \in P : r = f[x]
  <2> DEFINE x == <<<<<<r.id, r.src>>, <<r.on, r.ver>>>>, <<r.at, r.dir>>>>
  <2>1. x \in P /\ r = f[x]
    BY DEF Records
  <2> QED BY <2>1
<1>8. Records \subseteq {f[x] : x \in P}
  BY <1>7
<1> QED BY <1>6, <1>8, FS_Subset

\* The records of Workshop mods in a list, of which each mod has one.
Steam(list) == {list[k] : k \in {j \in DOMAIN list : IsSteam(list[j])}}
Once(list) ==
  \A j, k \in DOMAIN list : IsSteam(list[j]) /\ IsSteam(list[k]) /\ list[j].id = list[k].id => j = k

LEMMA SteamIdsOf == ASSUME NEW list PROVE SteamIds(list) = {r.id : r \in Steam(list)}
BY DEF SteamIds, Steam

LEMMA PartOf ==
  ASSUME NEW list \in Seq(Records), NEW places, places \subseteq DOMAIN list
  PROVE  /\ Only(list, places) \in Seq(Records)
         /\ Steam(Only(list, places)) \subseteq Steam(list)
         /\ Once(list) => Once(Only(list, places))
<1> DEFINE part == Only(list, places)
<1>1. PICK h : Comes(h, part, list, places)
  BY OnlyThese
<1>2. part \in Seq(Records)
  BY OnlyThese
<1> HIDE DEF part
<1>3. Steam(part) \subseteq Steam(list)
  BY <1>1 DEF Comes, Steam
<1>4. Once(list) => Once(part)
  BY <1>1 DEF Comes, Once
<1> QED BY <1>2, <1>3, <1>4 DEF part

\* New records at the end of a list.
LEMMA AddsAll ==
  ASSUME NEW list \in Seq(Records), NEW new, new \subseteq Records
  PROVE  LET sum == list \o SetToSeq(new) IN
         /\ sum \in Seq(Records)
         /\ \A k \in DOMAIN list : k \in DOMAIN sum /\ sum[k] = list[k]
         /\ \A k \in DOMAIN sum \ DOMAIN list : sum[k] \in new
         /\ \A j, k \in DOMAIN sum \ DOMAIN list : sum[j] = sum[k] => j = k
         /\ \A r \in new : \E k \in DOMAIN sum : sum[k] = r
<1> DEFINE tail == SetToSeq(new)
           sum == list \o tail
<1>1. IsFiniteSet(new)
  BY RecordsFinite, FS_Subset
<1>2. /\ tail \in Seq(new)
      /\ \A j, k \in DOMAIN tail : tail[j] = tail[k] => j = k
      /\ \A r \in new : \E k \in DOMAIN tail : tail[k] = r
  BY <1>1, SetAsList
<1> HIDE DEF tail
<1>3. tail \in Seq(Records)
  BY <1>2
<1>4. /\ sum \in Seq(Records) /\ Len(sum) = Len(list) + Len(tail)
      /\ DOMAIN sum = 1..Len(sum) /\ DOMAIN list = 1..Len(list) /\ DOMAIN tail = 1..Len(tail)
      /\ Len(list) \in Nat /\ Len(tail) \in Nat
      /\ \A k \in 1..Len(sum) : sum[k] = IF k <= Len(list) THEN list[k] ELSE tail[k - Len(list)]
  BY <1>3
<1> HIDE DEF sum
<1>5. \A k \in DOMAIN list : k \in DOMAIN sum /\ sum[k] = list[k]
  BY <1>4
<1>6. \A k \in DOMAIN sum \ DOMAIN list : k - Len(list) \in DOMAIN tail /\ sum[k] = tail[k - Len(list)]
  BY <1>4
<1>7. \A k \in DOMAIN sum \ DOMAIN list : sum[k] \in new
  BY <1>2, <1>6
<1>8. ASSUME NEW j \in DOMAIN sum \ DOMAIN list, NEW k \in DOMAIN sum \ DOMAIN list, sum[j] = sum[k]
      PROVE  j = k
  <2>1. j - Len(list) = k - Len(list)
    BY <1>2, <1>6, <1>8
  <2> QED BY <2>1, <1>4
<1>9. ASSUME NEW r \in new PROVE \E k \in DOMAIN sum : sum[k] = r
  <2>1. PICK k \in DOMAIN tail : tail[k] = r
    BY <1>2
  <2>2. k + Len(list) \in DOMAIN sum /\ sum[k + Len(list)] = tail[k]
    <3>1. k + Len(list) \in 1..Len(sum) /\ ~(k + Len(list) <= Len(list)) /\ (k + Len(list)) - Len(list) = k
      BY <1>4
    <3> QED BY <3>1, <1>4
  <2> QED BY <2>1, <2>2
<1> QED BY <1>4, <1>5, <1>7, <1>8, <1>9 DEF sum, tail

\* If the new ones are of Workshop mods that the list does not have, one of each,
\* the mods stay listed once.
LEMMA AddsOnce ==
  ASSUME NEW list \in Seq(Records), NEW new, new \subseteq Records,
         \A q, r \in new : IsSteam(q) /\ IsSteam(r) /\ q.id = r.id => q = r,
         \A r \in new : IsSteam(r) => r.id \notin SteamIds(list)
  PROVE  /\ list \o SetToSeq(new) \in Seq(Records)
         /\ Steam(list \o SetToSeq(new)) \subseteq Steam(list) \cup {r \in new : IsSteam(r)}
         /\ Once(list) => Once(list \o SetToSeq(new))
<1> DEFINE sum == list \o SetToSeq(new)
<1>1. /\ sum \in Seq(Records)
      /\ \A k \in DOMAIN list : k \in DOMAIN sum /\ sum[k] = list[k]
      /\ \A k \in DOMAIN sum \ DOMAIN list : sum[k] \in new
      /\ \A j, k \in DOMAIN sum \ DOMAIN list : sum[j] = sum[k] => j = k
  BY AddsAll
<1> HIDE DEF sum
<1>2. Steam(sum) \subseteq Steam(list) \cup {r \in new : IsSteam(r)}
  BY <1>1 DEF Steam
<1>3. ASSUME Once(list), NEW j \in DOMAIN sum, NEW k \in DOMAIN sum,
             IsSteam(sum[j]), IsSteam(sum[k]), sum[j].id = sum[k].id
      PROVE  j = k
  <2>1. CASE j \in DOMAIN list /\ k \in DOMAIN list
    BY <2>1, <1>1, <1>3 DEF Once
  <2>2. CASE j \notin DOMAIN list /\ k \notin DOMAIN list
    BY <2>2, <1>1, <1>3
  <2>3. CASE j \in DOMAIN list /\ k \notin DOMAIN list
    BY <2>3, <1>1, <1>3 DEF SteamIds
  <2>4. CASE j \notin DOMAIN list /\ k \in DOMAIN list
    BY <2>4, <1>1, <1>3 DEF SteamIds
  <2> QED BY <2>1, <2>2, <2>3, <2>4
<1> QED BY <1>1, <1>2, <1>3 DEF sum, Once

\* Records whose mod and source stay what they were.
LEMMA SameOnes ==
  ASSUME NEW list \in Seq(Records), NEW new, DOMAIN new = DOMAIN list,
         \A k \in DOMAIN list : new[k].id = list[k].id /\ (IsSteam(new[k]) <=> IsSteam(list[k]))
  PROVE  /\ Once(list) => Once(new)
         /\ SteamIds(new) = SteamIds(list)
BY DEF Once, SteamIds

-----------------------------------------------------------------------------
(* What the operations on lists keep                                        *)

LEMMA KindsApart ==
  /\ \A i \in Workshop : i \notin Packages /\ i \notin Paks /\ i \notin Ue4ss
  /\ \A i \in Packages : i \notin Paks /\ i \notin Ue4ss
  /\ \A i \in Paks : i \notin Ue4ss
  /\ Workshop \subseteq Items /\ Packages \subseteq Items
  /\ Paks \subseteq Items /\ Ue4ss \subseteq Items
BY ModsAssumption DEF Items

LEMMA VersionsArePositive == Versions \subseteq Nat /\ 0 \notin Versions
BY ModsAssumption DEF Versions

\* Of a list new that was made from list: it is a list of records, it has no
\* Workshop mod twice if list had none twice, and its records of Workshop mods
\* are among those of list and more.
Keeps(list, new, more) ==
  /\ new \in Seq(Records)
  /\ Once(list) => Once(new)
  /\ Steam(new) \subseteq Steam(list) \cup more

LEMMA FullRecordType ==
  ASSUME NEW i \in Items, NEW src \in {"steam", "nexus", "unknown", "manual"}, NEW on \in BOOLEAN,
         NEW v \in Versions \cup {0}, NEW at \in SUBSET Spots, NEW dir \in Spots,
         src = "steam" <=> i \in Workshop, i \in Packages => src = "nexus"
  PROVE  /\ FullRecord(i, src, on, v, at, dir) \in Records
         /\ FullRecord(i, src, on, v, at, dir).id = i /\ FullRecord(i, src, on, v, at, dir).src = src
         /\ FullRecord(i, src, on, v, at, dir).on = on
BY DEF FullRecord, Records, IsSteam

LEMMA RecordFields ==
  ASSUME NEW i, NEW src, NEW on, NEW v
  PROVE  /\ Record(i, src, on, v).id = i /\ Record(i, src, on, v).src = src
         /\ Record(i, src, on, v).on = on /\ Record(i, src, on, v).ver = v
BY DEF Record, FullRecord

LEMMA SteamRecord ==
  ASSUME NEW i \in Workshop, NEW on \in BOOLEAN, NEW v \in Versions \cup {0}
  PROVE  Record(i, "steam", on, v) \in Records /\ IsSteam(Record(i, "steam", on, v))
<1>1. i \in Items /\ i \notin Packages /\ InFolder \in Spots /\ {} \in SUBSET Spots
  BY KindsApart DEF Spots
<1>2. "steam" \in {"steam", "nexus", "unknown", "manual"}
  OBVIOUS
<1>3. /\ FullRecord(i, "steam", on, v, {}, InFolder) \in Records
      /\ FullRecord(i, "steam", on, v, {}, InFolder).src = "steam"
  BY <1>1, <1>2, FullRecordType
<1> QED BY <1>3 DEF Record, IsSteam

LEMMA NexusRecord ==
  ASSUME NEW i \in Items \ Workshop, NEW on \in BOOLEAN, NEW v \in Versions \cup {0},
         NEW src \in {"nexus", "manual"}, i \in Packages => src = "nexus"
  PROVE  /\ Record(i, src, on, v) \in Records /\ ~IsSteam(Record(i, src, on, v))
         /\ IsNexus(Record(i, src, on, v)) <=> src = "nexus"
<1>1. InFolder \in Spots /\ {} \in SUBSET Spots
  BY DEF Spots
<1>2. src \in {"steam", "nexus", "unknown", "manual"} /\ src # "steam" /\ src # "unknown"
  OBVIOUS
<1>3. /\ FullRecord(i, src, on, v, {}, InFolder) \in Records
      /\ FullRecord(i, src, on, v, {}, InFolder).src = src
  BY <1>1, <1>2, FullRecordType
<1> QED BY <1>2, <1>3 DEF Record, IsSteam, IsNexus

LEMMA FoundRecord ==
  ASSUME NEW i \in OnDisk, NEW x \in Spots
  PROVE  /\ FoundAt(i, x) \in Records /\ FoundAt(i, x).id = i
         /\ ~IsSteam(FoundAt(i, x)) /\ IsNexus(FoundAt(i, x))
<1>1. i \in Items /\ i \notin Workshop /\ i \notin Packages
  BY KindsApart DEF OnDisk
<1>2. TRUE \in BOOLEAN /\ 0 \in Versions \cup {0} /\ {x} \in SUBSET Spots
  OBVIOUS
<1>3. "unknown" \in {"steam", "nexus", "unknown", "manual"} /\ "unknown" # "steam"
  OBVIOUS
<1>4. FoundAt(i, x) = [id |-> i, src |-> "unknown", on |-> TRUE, ver |-> 0, at |-> {x}, dir |-> x]
  BY DEF FoundAt, FullRecord
<1> QED BY <1>1, <1>2, <1>3, <1>4 DEF Records, IsSteam, IsNexus

LEMMA ActiveIsBoolean == ASSUME NEW i, NEW s PROVE (i \in active[s]) \in BOOLEAN
OBVIOUS

\* What discover_installed makes of the folders.
Found(s) ==
  {Record(w, "steam", w \in active[s], 0) : w \in {v \in Workshop : files[s][v] # {}}}

LEMMA DiscoveredKeeps ==
  ASSUME NEW s \in Servers, NEW list \in Seq(Records)
  PROVE  Keeps(list, Discovered(s, list), Found(s))
<1> DEFINE places == {k \in DOMAIN list : IsSteam(list[k])}
           steam == Only(list, places)
           found == {w \in Workshop \ SteamIds(steam) : files[s][w] \ {Torn} # {}}
           new == {Record(w, "steam", w \in active[s], 0) : w \in found}
<1>1. Discovered(s, list) = IF root[s] THEN steam \o SetToSeq(new) ELSE list
  BY DEF Discovered, Where
<1>2. steam \in Seq(Records) /\ Steam(steam) \subseteq Steam(list) /\ (Once(list) => Once(steam))
  BY PartOf
<1>3. new \subseteq Records
  <2> SUFFICES ASSUME NEW w \in found PROVE Record(w, "steam", w \in active[s], 0) \in Records
    OBVIOUS
  <2> QED BY ActiveIsBoolean, SteamRecord
<1>4. new \subseteq Found(s)
  BY DEF Found
<1>5. ASSUME NEW q \in new, NEW r \in new, q.id = r.id PROVE q = r
  <2>1. PICK v \in found : q = Record(v, "steam", v \in active[s], 0)
    OBVIOUS
  <2>2. PICK w \in found : r = Record(w, "steam", w \in active[s], 0)
    OBVIOUS
  <2>3. v = w
    BY <1>5, <2>1, <2>2, RecordFields
  <2> QED BY <2>1, <2>2, <2>3
<1>6. ASSUME NEW r \in new PROVE r.id \notin SteamIds(steam)
  <2>1. PICK w \in found : r = Record(w, "steam", w \in active[s], 0)
    OBVIOUS
  <2> QED BY <2>1, RecordFields
<1> HIDE DEF steam, new
<1>7. /\ steam \o SetToSeq(new) \in Seq(Records)
      /\ Steam(steam \o SetToSeq(new)) \subseteq Steam(steam) \cup {r \in new : IsSteam(r)}
      /\ Once(steam) => Once(steam \o SetToSeq(new))
  BY <1>2, <1>3, <1>5, <1>6, AddsOnce
<1> QED BY <1>1, <1>2, <1>4, <1>7 DEF Keeps

\* Mods that are not of the Workshop are added.
LEMMA OthersAdded ==
  ASSUME NEW list \in Seq(Records), NEW new, new \subseteq Records, \A r \in new : ~IsSteam(r)
  PROVE  Keeps(list, list \o SetToSeq(new), {})
<1>1. /\ list \o SetToSeq(new) \in Seq(Records)
      /\ Steam(list \o SetToSeq(new)) \subseteq Steam(list) \cup {r \in new : IsSteam(r)}
      /\ Once(list) => Once(list \o SetToSeq(new))
  BY AddsOnce
<1> QED BY <1>1 DEF Keeps

\* Records that change, but neither their mod nor where it is from.
LEMMA SameKeeps ==
  ASSUME NEW list \in Seq(Records), NEW new, DOMAIN new = DOMAIN list,
         new = [k \in DOMAIN new |-> new[k]],
         \A k \in DOMAIN list : /\ new[k] \in Records /\ new[k].id = list[k].id
                                /\ IsSteam(new[k]) <=> IsSteam(list[k])
                                /\ IsSteam(list[k]) => new[k] = list[k]
  PROVE  Keeps(list, new, {})
<1>1. new \in Seq(Records)
  BY DEF Records
<1>2. Steam(new) \subseteq Steam(list)
  BY DEF Steam
<1>3. Once(list) => Once(new)
  BY DEF Once
<1> QED BY <1>1, <1>2, <1>3 DEF Keeps

LEMMA KeepsTwice ==
  ASSUME NEW a, NEW b, NEW c, Keeps(a, b, {}), Keeps(b, c, {})
  PROVE  Keeps(a, c, {})
BY DEF Keeps

LEMMA UnknownRecords ==
  ASSUME NEW ids, ids \subseteq OnDisk, NEW x \in Spots
  PROVE  Unknown(ids, x) \subseteq Records /\ \A r \in Unknown(ids, x) : ~IsSteam(r)
<1>1. \A i \in ids : FoundAt(i, x) \in Records /\ ~IsSteam(FoundAt(i, x))
  BY FoundRecord
<1> QED BY <1>1 DEF Unknown

\* The records that a scan makes of the packages it finds.
Tracked(list, n, v) == \E k \in DOMAIN list : list[k].id = n /\ list[k].ver = v
Untracked(s, list) ==
  {r \in [id: Packages, ver: Versions] :
     r.ver \in files[s][r.id] \cup rollback[s][r.id] /\ ~Tracked(list, r.id, r.ver)}
OfPackages(s, found) == {Record(r.id, "nexus", r.id \in active[s], r.ver) : r \in found}

LEMMA PackageRecords ==
  ASSUME NEW s \in Servers, NEW list
  PROVE  /\ WithPackages(s, list) = list \o SetToSeq(OfPackages(s, Untracked(s, list)))
         /\ OfPackages(s, Untracked(s, list)) \subseteq Records
         /\ \A r \in OfPackages(s, Untracked(s, list)) : ~IsSteam(r) /\ IsNexus(r)
<1>1. WithPackages(s, list) = list \o SetToSeq(OfPackages(s, Untracked(s, list)))
  BY DEF WithPackages, OfPackages, Untracked, Tracked
<1>2. ASSUME NEW r \in Untracked(s, list)
      PROVE  /\ Record(r.id, "nexus", r.id \in active[s], r.ver) \in Records
             /\ ~IsSteam(Record(r.id, "nexus", r.id \in active[s], r.ver))
             /\ IsNexus(Record(r.id, "nexus", r.id \in active[s], r.ver))
  <2>1. r.id \in Items \ Workshop /\ r.ver \in Versions \cup {0} /\ "nexus" \in {"nexus", "manual"}
    BY KindsApart DEF Untracked
  <2> QED BY <2>1, ActiveIsBoolean, NexusRecord
<1> QED BY <1>1, <1>2 DEF OfPackages

LEMMA PackagesKeep ==
  ASSUME NEW s \in Servers, NEW list \in Seq(Records)
  PROVE  Keeps(list, WithPackages(s, list), {})
<1> DEFINE new == OfPackages(s, Untracked(s, list))
<1>1. WithPackages(s, list) = list \o SetToSeq(new) /\ new \subseteq Records /\ \A r \in new : ~IsSteam(r)
  BY PackageRecords
<1> HIDE DEF new
<1> QED BY <1>1, OthersAdded

LEMMA FoldersKeep ==
  ASSUME NEW s \in Servers, NEW list \in Seq(Records)
  PROVE  Keeps(list, WithFolders(s, list), {})
<1>1. FoldersThere(s) \ NexusIds(list) \subseteq OnDisk /\ InFolder \in Spots
  BY DEF FoldersThere, OnDisk, Spots
<1>2. /\ Unknown(FoldersThere(s) \ NexusIds(list), InFolder) \subseteq Records
      /\ \A r \in Unknown(FoldersThere(s) \ NexusIds(list), InFolder) : ~IsSteam(r)
  BY <1>1, UnknownRecords
<1> QED BY <1>2, OthersAdded DEF WithFolders

\* A record whose file has been found.
SeenAt(r, x) == FullRecord(r.id, r.src, TRUE, r.ver, {x}, x)

LEMMA SeenRecord ==
  ASSUME NEW r \in Records, NEW x \in Spots, IsNexus(r)
  PROVE  /\ SeenAt(r, x) \in Records /\ SeenAt(r, x).id = r.id
         /\ IsNexus(SeenAt(r, x)) /\ ~IsSteam(SeenAt(r, x)) /\ ~IsSteam(r)
<1>1. SeenAt(r, x) = [id |-> r.id, src |-> r.src, on |-> TRUE, ver |-> r.ver, at |-> {x}, dir |-> x]
  BY DEF SeenAt, FullRecord
<1>2. {x} \in SUBSET Spots /\ r.src # "steam"
  BY DEF IsNexus
<1> QED BY <1>1, <1>2 DEF Records, IsSteam, IsNexus

\* What WithPlace makes of the records, and the ones that it adds.
PlaceSeen(s, list, x) ==
  [k \in DOMAIN list |-> IF list[k].id \in PaksThere(s, x) /\ Claimed(list, k, x)
                         THEN SeenAt(list[k], x) ELSE list[k]]
PlaceNew(s, list, x) ==
  PaksThere(s, x) \ {list[k].id : k \in {j \in DOMAIN list : Claims(list[j], x)}}

LEMMA PlaceParts ==
  ASSUME NEW s \in Servers, NEW list \in Seq(Records), NEW x \in Spots
  PROVE  /\ WithPlace(s, list, x) = PlaceSeen(s, list, x) \o SetToSeq(Unknown(PlaceNew(s, list, x), x))
         /\ PlaceNew(s, list, x) \subseteq OnDisk
         /\ Keeps(list, PlaceSeen(s, list, x), {})
         /\ NexusIds(PlaceSeen(s, list, x)) = NexusIds(list)
<1> DEFINE seen == PlaceSeen(s, list, x)
<1>1. WithPlace(s, list, x) = seen \o SetToSeq(Unknown(PlaceNew(s, list, x), x))
  BY DEF WithPlace, PlaceSeen, PlaceNew, SeenAt
<1>2. PlaceNew(s, list, x) \subseteq OnDisk
  BY DEF PlaceNew, PaksThere, OnDisk
<1>3. ASSUME NEW k \in DOMAIN list
      PROVE  /\ seen[k] \in Records /\ seen[k].id = list[k].id
             /\ IsSteam(seen[k]) <=> IsSteam(list[k])
             /\ IsNexus(seen[k]) <=> IsNexus(list[k])
             /\ IsSteam(list[k]) => seen[k] = list[k]
  <2>1. list[k] \in Records
    OBVIOUS
  <2>2. CASE list[k].id \in PaksThere(s, x) /\ Claimed(list, k, x)
    <3>1. IsNexus(list[k]) /\ seen[k] = SeenAt(list[k], x)
      BY <2>2 DEF Claimed, Claims, PlaceSeen
    <3> QED BY <2>1, <3>1, SeenRecord
  <2>3. CASE ~(list[k].id \in PaksThere(s, x) /\ Claimed(list, k, x))
    BY <2>1, <2>3 DEF PlaceSeen
  <2> QED BY <2>2, <2>3
<1>4. DOMAIN seen = DOMAIN list /\ seen = [k \in DOMAIN seen |-> seen[k]]
  BY DEF PlaceSeen
<1> HIDE DEF seen
<1>5. Keeps(list, seen, {})
  BY <1>3, <1>4, SameKeeps
<1>6. NexusIds(seen) = NexusIds(list)
  BY <1>3, <1>4 DEF NexusIds
<1> QED BY <1>1, <1>2, <1>5, <1>6 DEF seen

LEMMA PlaceKeeps ==
  ASSUME NEW s \in Servers, NEW list \in Seq(Records), NEW x \in Spots
  PROVE  Keeps(list, WithPlace(s, list, x), {}) /\ WithPlace(s, list, x) \in Seq(Records)
<1> DEFINE seen == PlaceSeen(s, list, x)
           new == Unknown(PlaceNew(s, list, x), x)
<1>1. WithPlace(s, list, x) = seen \o SetToSeq(new) /\ Keeps(list, seen, {})
  BY PlaceParts
<1>2. new \subseteq Records /\ \A r \in new : ~IsSteam(r)
  BY PlaceParts, UnknownRecords
<1> HIDE DEF seen, new
<1>3. Keeps(seen, seen \o SetToSeq(new), {})
  BY <1>1, <1>2, OthersAdded DEF Keeps
<1>4. Keeps(list, WithPlace(s, list, x), {})
  BY <1>1, <1>3, KeepsTwice
<1> QED BY <1>4 DEF Keeps

LEMMA PaksKeep ==
  ASSUME NEW s \in Servers, NEW list \in Seq(Records)
  PROVE  Keeps(list, WithPaks(s, list), {})
<1>1. Loose \in Spots /\ InFolder \in Spots
  BY DEF Spots
<1>2. Keeps(list, WithPlace(s, list, Loose), {}) /\ WithPlace(s, list, Loose) \in Seq(Records)
  BY <1>1, PlaceKeeps
<1>3. Keeps(WithPlace(s, list, Loose), WithPlace(s, WithPlace(s, list, Loose), InFolder), {})
  BY <1>1, <1>2, PlaceKeeps
<1> QED BY <1>2, <1>3, KeepsTwice DEF WithPaks

\* The greatest of some places of a list.
LEMMA Greatest ==
  ASSUME NEW n \in Nat, NEW T, T \subseteq 1..n, T # {}
  PROVE  \E m \in T : \A k \in T : m >= k
<1> DEFINE U == {n - k : k \in T}
<1>1. U \subseteq Nat /\ U # {}
  <2>1. \A k \in T : k \in 1..n /\ n - k \in Nat
    OBVIOUS
  <2> QED BY <2>1
<1>2. PICK u \in U : \A v \in U : u <= v
  BY <1>1, Least
<1>3. PICK m \in T : u = n - m
  OBVIOUS
<1>4. ASSUME NEW k \in T PROVE m >= k
  <2>1. u <= n - k
    BY <1>2
  <2>2. m \in 1..n /\ k \in 1..n
    OBVIOUS
  <2> QED BY <1>3, <2>1, <2>2
<1> QED BY <1>4

LEMMA MinMax ==
  ASSUME NEW n \in Nat, NEW T, T \subseteq 1..n, T # {}
  PROVE  Min(T) \in T /\ Max(T) \in T
<1>1. T \subseteq Nat
  OBVIOUS
<1>2. \E m \in T : \A k \in T : m <= k
  BY <1>1, Least
<1>3. \E m \in T : \A k \in T : m >= k
  BY Greatest
<1> QED BY <1>2, <1>3 DEF Min, Max

\* A record that is merged is one of the same mod and kind, with other paths; one
\* that is not from Nexus stays.
LEMMA MergedIs ==
  ASSUME NEW list \in Seq(Records), NEW k \in DOMAIN list
  PROVE  /\ Merged(list, k) \in Records /\ Merged(list, k).id = list[k].id
         /\ IsSteam(Merged(list, k)) <=> IsSteam(list[k])
         /\ IsNexus(Merged(list, k)) <=> IsNexus(list[k])
         /\ IsSteam(list[k]) => Merged(list, k) = list[k]
<1> DEFINE same == {k} \cup {j \in DOMAIN list : Same(list[k], list[j])}
           numbered == {j \in same : list[j].src = "nexus"}
           best == IF numbered # {} THEN Min(numbered) ELSE Max(same)
           at == UNION {list[j].at : j \in same}
<1>1. Merged(list, k) = [list[best] EXCEPT !.at = at]
  BY DEF Merged
<1>2. DOMAIN list = 1..Len(list) /\ Len(list) \in Nat
  OBVIOUS
<1>3. \A j \in same : j \in DOMAIN list /\ (j = k \/ Same(list[k], list[j]))
  OBVIOUS
<1>4. best \in same
  <2>1. same \subseteq 1..Len(list) /\ same # {} /\ numbered \subseteq same
    BY <1>2
  <2> HIDE DEF same
  <2>2. numbered # {} => Min(numbered) \in numbered
    BY <1>2, <2>1, MinMax
  <2>3. Max(same) \in same
    BY <1>2, <2>1, MinMax
  <2> QED BY <2>1, <2>2, <2>3
<1>5. \A j \in DOMAIN list : list[j] \in Records /\ list[j].at \in SUBSET Spots
  <2>1. \A j \in DOMAIN list : list[j] \in Records
    OBVIOUS
  <2> QED BY <2>1 DEF Records
<1>6. at \in SUBSET Spots
  BY <1>3, <1>5
<1>7. IsSteam(list[k]) => same = {k}
  BY DEF Same, IsSteam, IsNexus
<1>8. ASSUME IsSteam(list[k]) PROVE at = list[k].at /\ best = k
  <2>1. same = {k}
    BY <1>7, <1>8
  <2>2. best = k
    BY <1>4, <2>1
  <2> QED BY <2>1, <2>2
<1> HIDE DEF same, best, at
<1>9. /\ list[best] \in Records /\ list[best].id = list[k].id
      /\ IsSteam(list[best]) <=> IsSteam(list[k])
      /\ IsNexus(list[best]) <=> IsNexus(list[k])
  <2>1. CASE best = k
    BY <2>1, <1>5
  <2>2. CASE Same(list[k], list[best])
    BY <2>2, <1>3, <1>4, <1>5 DEF Same, IsSteam, IsNexus
  <2> QED BY <1>3, <1>4, <2>1, <2>2
<1>10. ASSUME NEW r \in Records
       PROVE  /\ [r EXCEPT !.at = at] \in Records
              /\ [r EXCEPT !.at = at].id = r.id /\ [r EXCEPT !.at = at].src = r.src
              /\ [r EXCEPT !.at = r.at] = r
  BY <1>6 DEF Records, IsSteam
<1>11. /\ Merged(list, k) \in Records /\ Merged(list, k).id = list[best].id
       /\ Merged(list, k).src = list[best].src
  BY <1>1, <1>9, <1>10
<1>12. IsSteam(list[k]) => Merged(list, k) = list[k]
  BY <1>1, <1>8, <1>5, <1>10
<1> QED BY <1>9, <1>11, <1>12 DEF IsSteam, IsNexus

\* What a scan makes of the records before it drops the doubles.
Rich(s, list) == [k \in DOMAIN list |-> Enriched(s, list[k])]
MergedAll(list) == [k \in DOMAIN list |-> Merged(list, k)]
FirstPlaces(list) == {k \in DOMAIN list : ~\E j \in 1..(k - 1) : Same(list[j], list[k])}

LEMMA DeduplicatedIs ==
  ASSUME NEW s \in Servers, NEW list
  PROVE  Deduplicated(s, list) = Only(MergedAll(Rich(s, list)), FirstPlaces(Rich(s, list)))
BY DEF Deduplicated, MergedAll, FirstPlaces, Rich

LEMMA RichKeeps ==
  ASSUME NEW s \in Servers, NEW list \in Seq(Records)
  PROVE  /\ Keeps(list, Rich(s, list), {}) /\ DOMAIN Rich(s, list) = DOMAIN list
         /\ \A k \in DOMAIN list : /\ Rich(s, list)[k].id = list[k].id
                                   /\ IsNexus(Rich(s, list)[k]) <=> IsNexus(list[k])
<1> DEFINE rich == Rich(s, list)
<1>1. ASSUME NEW r \in Records
      PROVE  /\ Enriched(s, r) \in Records /\ Enriched(s, r).id = r.id
             /\ IsSteam(Enriched(s, r)) <=> IsSteam(r)
             /\ IsNexus(Enriched(s, r)) <=> IsNexus(r)
             /\ IsSteam(r) => Enriched(s, r) = r
  BY DEF Enriched, Records, IsSteam, IsNexus
<1>2. DOMAIN rich = DOMAIN list /\ rich = [k \in DOMAIN rich |-> rich[k]]
  BY DEF Rich
<1>3. \A k \in DOMAIN list : rich[k] = Enriched(s, list[k]) /\ list[k] \in Records
  BY DEF Rich
<1> HIDE DEF rich
<1>4. Keeps(list, rich, {})
  BY <1>1, <1>2, <1>3, SameKeeps
<1>5. \A k \in DOMAIN list : rich[k].id = list[k].id /\ (IsNexus(rich[k]) <=> IsNexus(list[k]))
  BY <1>1, <1>3
<1> QED BY <1>2, <1>4, <1>5 DEF rich

LEMMA MergedKeeps ==
  ASSUME NEW list \in Seq(Records)
  PROVE  /\ Keeps(list, MergedAll(list), {}) /\ DOMAIN MergedAll(list) = DOMAIN list
         /\ \A k \in DOMAIN list : /\ MergedAll(list)[k].id = list[k].id
                                   /\ IsNexus(MergedAll(list)[k]) <=> IsNexus(list[k])
<1> DEFINE all == MergedAll(list)
<1>1. DOMAIN all = DOMAIN list /\ all = [k \in DOMAIN all |-> all[k]]
  BY DEF MergedAll
<1>2. \A k \in DOMAIN list : all[k] = Merged(list, k)
  BY DEF MergedAll
<1> HIDE DEF all
<1>3. Keeps(list, all, {})
  BY <1>1, <1>2, MergedIs, SameKeeps
<1>4. \A k \in DOMAIN list : all[k].id = list[k].id /\ (IsNexus(all[k]) <=> IsNexus(list[k]))
  BY <1>2, MergedIs
<1> QED BY <1>1, <1>3, <1>4 DEF all

LEMMA DeduplicatedKeeps ==
  ASSUME NEW s \in Servers, NEW list \in Seq(Records)
  PROVE  Keeps(list, Deduplicated(s, list), {})
<1> DEFINE rich == Rich(s, list)
           all == MergedAll(rich)
           places == FirstPlaces(rich)
<1>1. Keeps(list, rich, {}) /\ rich \in Seq(Records)
  BY RichKeeps DEF Keeps
<1> HIDE DEF rich
<1>2. Keeps(rich, all, {}) /\ all \in Seq(Records) /\ DOMAIN all = DOMAIN rich
  BY <1>1, MergedKeeps DEF Keeps
<1>3. places \subseteq DOMAIN all
  BY <1>2 DEF FirstPlaces
<1> HIDE DEF all, places
<1>4. Keeps(all, Only(all, places), {})
  BY <1>2, <1>3, PartOf DEF Keeps
<1>5. Deduplicated(s, list) = Only(all, places)
  BY DeduplicatedIs DEF rich, all, places
<1> QED BY <1>1, <1>2, <1>4, <1>5, KeepsTwice

LEMMA RescanKeeps ==
  ASSUME NEW s \in Servers, NEW list \in Seq(Records)
  PROVE  Keeps(list, Deduplicated(s, WithPaks(s, WithFolders(s, WithPackages(s, list)))), {})
<1> DEFINE a == WithPackages(s, list)
           b == WithFolders(s, a)
           c == WithPaks(s, b)
<1>1. Keeps(list, a, {}) /\ a \in Seq(Records)
  BY PackagesKeep DEF Keeps
<1> HIDE DEF a
<1>2. Keeps(a, b, {}) /\ b \in Seq(Records)
  BY <1>1, FoldersKeep DEF Keeps
<1> HIDE DEF b
<1>3. Keeps(b, c, {}) /\ c \in Seq(Records)
  BY <1>2, PaksKeep DEF Keeps
<1> HIDE DEF c
<1>4. Keeps(c, Deduplicated(s, c), {})
  BY <1>3, DeduplicatedKeeps
<1>5. Keeps(list, Deduplicated(s, c), {})
  BY <1>1, <1>2, <1>3, <1>4, KeepsTwice
<1> QED BY <1>5 DEF a, b, c

LEMMA MissingKeeps ==
  ASSUME NEW s \in Servers, NEW list \in Seq(Records)
  PROVE  Keeps(list, WithFolders(s, WithPaks(s, list)), {})
<1>1. Keeps(list, WithPaks(s, list), {}) /\ WithPaks(s, list) \in Seq(Records)
  BY PaksKeep DEF Keeps
<1>2. Keeps(WithPaks(s, list), WithFolders(s, WithPaks(s, list)), {})
  BY <1>1, FoldersKeep
<1> QED BY <1>1, <1>2, KeepsTwice

\* The same, with no record of the mods "gone" that is not new.
Changes(list, new, gone, more) ==
  /\ new \in Seq(Records)
  /\ Once(new)
  /\ Steam(new) \subseteq {r \in Steam(list) : r.id \notin gone} \cup more

LEMMA PutChanges ==
  ASSUME NEW list \in Seq(Records), Once(list), NEW new \in Records
  PROVE  Changes(list, Put(list, new), {new.id} \cap Workshop, IF IsSteam(new) THEN {new} ELSE {})
<1> DEFINE Old(k) == list[k].id = new.id /\ list[k].src = new.src
           seen == [k \in DOMAIN list |-> IF Old(k) THEN new ELSE list[k]]
<1>1. CASE \E k \in DOMAIN list : Old(k)
  <2>1. Put(list, new) = seen
    BY <1>1 DEF Put
  <2>2. seen \in Seq(Records)
    OBVIOUS
  <2>3. Once(seen)
    BY DEF Once, IsSteam
  <2>4. \A k \in DOMAIN seen : IsSteam(seen[k]) =>
          \/ seen[k] = new /\ IsSteam(new)
          \/ seen[k] = list[k] /\ (list[k].id # new.id \/ new.id \notin Workshop)
    BY DEF Records, IsSteam
  <2>5. Steam(seen) \subseteq {r \in Steam(list) : r.id \notin {new.id} \cap Workshop}
                               \cup (IF IsSteam(new) THEN {new} ELSE {})
    <3> HIDE DEF Old
    <3>1. DOMAIN seen = DOMAIN list
      OBVIOUS
    <3> HIDE DEF seen
    <3> QED BY <2>4, <3>1 DEF Steam
  <2> QED BY <2>1, <2>2, <2>3, <2>5 DEF Changes
<1>2. CASE ~\E k \in DOMAIN list : Old(k)
  <2> DEFINE more == Append(list, new)
  <2>1. Put(list, new) = more
    BY <1>2 DEF Put
  <2>2. /\ more \in Seq(Records) /\ DOMAIN more = DOMAIN list \cup {Len(list) + 1}
        /\ more[Len(list) + 1] = new /\ \A k \in DOMAIN list : more[k] = list[k]
    OBVIOUS
  <2> HIDE DEF more
  <2>3. \A k \in DOMAIN list : IsSteam(list[k]) /\ IsSteam(new) => list[k].id # new.id
    BY <1>2 DEF IsSteam
  <2>4. Once(more)
    BY <2>2, <2>3 DEF Once
  <2>5. new.id \in Workshop => IsSteam(new)
    BY DEF Records
  <2>6. Steam(more) \subseteq {r \in Steam(list) : r.id \notin {new.id} \cap Workshop}
                               \cup (IF IsSteam(new) THEN {new} ELSE {})
    BY <2>2, <2>3, <2>5 DEF Steam
  <2> QED BY <2>1, <2>2, <2>4, <2>6 DEF Changes
<1> QED BY <1>1, <1>2

LEMMA AppendChanges ==
  ASSUME NEW list \in Seq(Records), Once(list), NEW new \in Records, ~IsSteam(new)
  PROVE  Changes(list, Append(list, new), {}, {})
<1> DEFINE more == Append(list, new)
<1>1. /\ more \in Seq(Records) /\ DOMAIN more = DOMAIN list \cup {Len(list) + 1}
      /\ more[Len(list) + 1] = new /\ \A k \in DOMAIN list : more[k] = list[k]
  OBVIOUS
<1> HIDE DEF more
<1>2. Once(more)
  BY <1>1 DEF Once
<1>3. Steam(more) \subseteq Steam(list)
  BY <1>1 DEF Steam
<1> QED BY <1>1, <1>2, <1>3 DEF Changes, more

LEMMA StatusChanges ==
  ASSUME NEW list \in Seq(Records), Once(list), NEW k \in DOMAIN list, NEW on \in BOOLEAN
  PROVE  Changes(list, [list EXCEPT ![k].on = on], {list[k].id}, {[list[k] EXCEPT !.on = on]})
<1> DEFINE new == [list[k] EXCEPT !.on = on]
           all == [list EXCEPT ![k] = new]
<1>1. [list EXCEPT ![k].on = on] = all
  OBVIOUS
<1>2. list[k] \in Records
  OBVIOUS
<1>3. new \in Records /\ new.id = list[k].id /\ new.src = list[k].src
  BY <1>2 DEF Records, IsSteam, IsNexus
<1> HIDE DEF new
<1>4. all \in Seq(Records)
  BY <1>3
<1>5. DOMAIN all = DOMAIN list /\ all[k] = new /\ \A j \in DOMAIN list \ {k} : all[j] = list[j]
  OBVIOUS
<1> HIDE DEF all
<1>6. Once(all)
  BY <1>3, <1>5 DEF Once, IsSteam
<1>7. \A j \in DOMAIN list \ {k} : IsSteam(list[j]) => list[j].id # list[k].id
  BY DEF Once, Records
<1>8. Steam(all) \subseteq {r \in Steam(list) : r.id \notin {list[k].id}} \cup {new}
  BY <1>5, <1>7 DEF Steam
<1> QED BY <1>1, <1>4, <1>6, <1>8 DEF Changes, new

LEMMA WithoutChanges ==
  ASSUME NEW list \in Seq(Records), Once(list), NEW k \in DOMAIN list
  PROVE  Changes(list, Without(list, k), {list[k].id}, {})
<1> DEFINE part == Only(list, DOMAIN list \ {k})
<1>1. PICK h : Comes(h, part, list, DOMAIN list \ {k})
  BY OnlyThese
<1>2. part \in Seq(Records) /\ Once(part)
  BY PartOf
<1> HIDE DEF part
<1>3. \A j \in DOMAIN list \ {k} : IsSteam(list[j]) => list[j].id # list[k].id
  BY DEF Once, Records
<1>4. Steam(part) \subseteq {r \in Steam(list) : r.id \notin {list[k].id}}
  BY <1>1, <1>3 DEF Comes, Steam
<1> QED BY <1>2, <1>4 DEF Changes, part, Without

\* What the check for updates saves says of the mods what it has read.
LEMMA CheckedKeeps ==
  ASSUME latest \in [Items -> Versions], NEW read \in Seq(Records), Once(read)
  PROVE  LET saved == [k \in DOMAIN read |-> Checked(read[k])] IN
         /\ saved \in Seq(Records) /\ Once(saved)
         /\ \A r \in Steam(saved) : \E q \in Steam(read) : r.id = q.id /\ r.on = q.on
<1> DEFINE saved == [k \in DOMAIN read |-> Checked(read[k])]
<1>1. ASSUME NEW r \in Records
      PROVE  /\ Checked(r) \in Records /\ Checked(r).id = r.id /\ Checked(r).on = r.on
             /\ IsSteam(Checked(r)) <=> IsSteam(r)
  BY DEF Records, IsSteam, IsNexus, Checked
<1>2. saved \in Seq(Records)
  BY <1>1
<1>3. DOMAIN saved = DOMAIN read /\ \A k \in DOMAIN read : saved[k] = Checked(read[k]) /\ read[k] \in Records
  OBVIOUS
<1> HIDE DEF saved
<1>4. Once(saved)
  BY <1>1, <1>3 DEF Once
<1>5. \A r \in Steam(saved) : \E q \in Steam(read) : r.id = q.id /\ r.on = q.on
  BY <1>1, <1>3 DEF Steam
<1> QED BY <1>2, <1>4, <1>5 DEF saved

\* What update_all has downloaded is listed as enabled.
OnAgain(ids) == {r \in Records : r.id \in ids /\ r.on}

NewOf(got, w) == Record(w, "steam", TRUE, (CHOOSE g \in got : g.id = w).ver)
SeenOf(got, r) == IF IsSteam(r) /\ r.id \in {g.id : g \in got} THEN NewOf(got, r.id) ELSE r

LEMMA UpdatedChanges ==
  ASSUME NEW list \in Seq(Records), Once(list),
         NEW got, got \subseteq [id: Workshop, ver: Versions \cup {0}]
  PROVE  Changes(list, Updated(list, got), {g.id : g \in got}, OnAgain({g.id : g \in got}))
<1> DEFINE ids == {g.id : g \in got}
           seen == [k \in DOMAIN list |-> SeenOf(got, list[k])]
           new == {NewOf(got, w) : w \in ids \ SteamIds(list)}
<1>1. Updated(list, got) = seen \o SetToSeq(new)
  BY DEF Updated, NewOf, SeenOf
<1>2. ASSUME NEW w \in ids
      PROVE  NewOf(got, w) \in Records /\ IsSteam(NewOf(got, w)) /\ NewOf(got, w).id = w /\ NewOf(got, w).on
  <2>1. \E g \in got : g.id = w
    OBVIOUS
  <2>2. (CHOOSE g \in got : g.id = w) \in got
    BY <2>1
  <2>3. (CHOOSE g \in got : g.id = w).ver \in Versions \cup {0} /\ w \in Workshop
    BY <2>2
  <2> DEFINE v == (CHOOSE g \in got : g.id = w).ver
  <2>4. NewOf(got, w) = Record(w, "steam", TRUE, v)
    BY DEF NewOf
  <2> HIDE DEF v
  <2>5. v \in Versions \cup {0} /\ w \in Workshop /\ TRUE \in BOOLEAN
    BY <2>3 DEF v
  <2>6. Record(w, "steam", TRUE, v) \in Records /\ IsSteam(Record(w, "steam", TRUE, v))
    BY <2>5, SteamRecord
  <2>7. Record(w, "steam", TRUE, v).id = w /\ Record(w, "steam", TRUE, v).on
    BY DEF Record, FullRecord
  <2> QED BY <2>4, <2>6, <2>7
<1>3. ASSUME NEW r \in Records
      PROVE  /\ SeenOf(got, r) \in Records /\ SeenOf(got, r).id = r.id /\ (IsSteam(SeenOf(got, r)) <=> IsSteam(r))
             /\ IsSteam(r) /\ r.id \in ids => SeenOf(got, r).on
             /\ r.id \notin ids => SeenOf(got, r) = r
  BY <1>2 DEF SeenOf
<1> HIDE DEF ids
<1>4. seen \in Seq(Records)
  <2>1. \A k \in DOMAIN list : SeenOf(got, list[k]) \in Records
    BY <1>3
  <2> QED BY <2>1
<1>5. DOMAIN seen = DOMAIN list /\ \A k \in DOMAIN list : seen[k] = SeenOf(got, list[k]) /\ list[k] \in Records
  OBVIOUS
<1> HIDE DEF seen
<1>6. Once(seen) /\ SteamIds(seen) = SteamIds(list)
  BY <1>3, <1>5, SameOnes
<1>7. new \subseteq Records /\ \A r \in new : r.id \in ids \ SteamIds(list) /\ r.on
  BY <1>2
<1>8. ASSUME NEW q \in new, NEW r \in new, q.id = r.id PROVE q = r
  <2>1. PICK v \in ids : q = NewOf(got, v)
    OBVIOUS
  <2>2. PICK w \in ids : r = NewOf(got, w)
    OBVIOUS
  <2> QED BY <1>2, <1>8, <2>1, <2>2
<1> HIDE DEF new
<1>9. /\ seen \o SetToSeq(new) \in Seq(Records)
      /\ Steam(seen \o SetToSeq(new)) \subseteq Steam(seen) \cup {r \in new : IsSteam(r)}
      /\ Once(seen \o SetToSeq(new))
  BY <1>4, <1>6, <1>7, <1>8, AddsOnce
<1>10. Steam(seen) \subseteq {r \in Steam(list) : r.id \notin ids} \cup OnAgain(ids)
  BY <1>3, <1>5 DEF Steam, OnAgain
<1>11. new \subseteq OnAgain(ids)
  BY <1>7 DEF OnAgain
<1>12. Steam(seen \o SetToSeq(new)) \subseteq {r \in Steam(list) : r.id \notin ids} \cup OnAgain(ids)
  BY <1>9, <1>10, <1>11
<1> QED BY <1>1, <1>9, <1>12 DEF Changes, ids

-----------------------------------------------------------------------------
(* Types                                                                    *)

Wishes == {"out", "on", "off", "asked", "overruled"}
FilesType(f) ==
  /\ f \in [Servers -> [Items -> SUBSET (Versions \cup {Torn} \cup Spots)]]
  /\ \A s \in Servers : \A i \in Items : f[s][i] \subseteq Copies(i)
Inventories == SUBSET [id: Items, at: SUBSET Spots]

LEMMA IdleWork == Idle \in Works
<1>1. <<>> \in Seq(Records)
  OBVIOUS
<1> QED BY <1>1 DEF Idle, Works

LEMMA SavesType ==
  ASSUME TypeOK, NEW s \in Servers, NEW list \in Seq(Records), Saves(s, list)
  PROVE  mods' \in [Servers -> Seq(Records)] /\ mods'[s] = list
BY DEF TypeOK, Saves

LEMMA GoesType ==
  ASSUME TypeOK, NEW s \in Servers, NEW p \in Jobs, NEW new \in Works, Goes(s, p, new)
  PROVE  job' \in [Servers -> [Jobs -> Works]]
BY DEF TypeOK, Goes

LEMMA CopiesAre ==
  /\ \A i \in OnDisk : Copies(i) = Spots
  /\ \A i \in Items \ OnDisk : Copies(i) = Versions \cup {Torn}
  /\ \A i \in Items : Copies(i) \subseteq Versions \cup {Torn} \cup Spots
  /\ OnDisk \subseteq Items /\ OnDisk \cap (Workshop \cup Packages) = {}
  /\ Items \ OnDisk = Workshop \cup Packages
<1>1. OnDisk \subseteq Items /\ OnDisk \cap (Workshop \cup Packages) = {}
  BY KindsApart DEF OnDisk
<1>2. Items \ OnDisk = Workshop \cup Packages
  BY KindsApart DEF OnDisk, Items
<1> QED BY <1>1, <1>2 DEF Copies

LEMMA PlacesType ==
  ASSUME TypeOK, NEW s \in Servers, NEW i \in Items, NEW versions \in SUBSET Copies(i),
         Places(s, i, versions)
  PROVE  FilesType(files')
<1>1. versions \in SUBSET (Versions \cup {Torn} \cup Spots)
  BY CopiesAre
<1>2. FilesType(files)
  BY DEF TypeOK, FilesType
<1>3. files' = [files EXCEPT ![s][i] = versions]
  BY DEF Places
<1> QED BY <1>1, <1>2, <1>3 DEF FilesType

\* What lies on a server of one mod, and what an installation adds to it.
LEMMA FilesOf ==
  ASSUME TypeOK, NEW s \in Servers, NEW i \in Items
  PROVE  /\ files[s][i] \in SUBSET Copies(i) /\ {} \in SUBSET Copies(i)
         /\ i \in OnDisk => \A x \in Spots : HalfCopied(s, i, x) \subseteq SUBSET Copies(i)
         /\ Spot(i) \in Spots /\ Loose \in Spots /\ InFolder \in Spots
<1>1. files[s][i] \in SUBSET Copies(i)
  BY DEF TypeOK
<1>2. Spot(i) \in Spots /\ Loose \in Spots /\ InFolder \in Spots
  BY DEF Spot, Spots
<1>3. i \in OnDisk => Copies(i) = Spots
  BY CopiesAre
<1>4. ASSUME i \in OnDisk, NEW x \in Spots PROVE HalfCopied(s, i, x) \subseteq SUBSET Copies(i)
  BY <1>1, <1>3, <1>4 DEF HalfCopied
<1> QED BY <1>1, <1>2, <1>4

LEMMA ActivatesType ==
  ASSUME TypeOK, NEW s \in Servers, NEW i \in Items, NEW on \in BOOLEAN, Activates(s, i, on)
  PROVE  active' \in [Servers -> SUBSET Items] /\ root' \in [Servers -> BOOLEAN]
BY DEF TypeOK, Activates

LEMMA WantsType ==
  ASSUME TypeOK, NEW s \in Servers, NEW i \in Items, NEW what \in Wishes,
         Wants(s, i, what) \/ \E done, robbed : Answers(s, i, what, done, robbed)
  PROVE  /\ wanted' \in [Servers -> [Items -> Wishes]]
         /\ unsure' \in [Servers -> SUBSET Items] /\ stale' \in [Servers -> SUBSET Workshop]
<1>1. CASE Wants(s, i, what)
  BY <1>1 DEF TypeOK, Wants, Wishes
<1>2. ASSUME NEW done, NEW robbed, Answers(s, i, what, done, robbed)
      PROVE  /\ wanted' \in [Servers -> [Items -> Wishes]]
             /\ unsure' \in [Servers -> SUBSET Items] /\ stale' \in [Servers -> SUBSET Workshop]
  <2>1. wanted' \in [Servers -> [Items -> Wishes]] /\ stale' \in [Servers -> SUBSET Workshop]
    BY <1>2 DEF TypeOK, Answers, Wishes
  <2>2. unsure' \in [Servers -> SUBSET Items]
    BY <1>2 DEF TypeOK, Answers
  <2> QED BY <2>1, <2>2
<1> QED BY <1>1, <1>2

LEMMA SwitchedOnType == ASSUME NEW s, NEW i PROVE SwitchedOn(s, i) \in {"on", "overruled"}
BY DEF SwitchedOn

LEMMA UnsureType ==
  ASSUME TypeOK, NEW s \in Servers, NEW lost, lost \subseteq Items, Unsure(s, lost)
  PROVE  /\ wanted' \in [Servers -> [Items -> Wishes]]
         /\ unsure' \in [Servers -> SUBSET Items] /\ stale' \in [Servers -> SUBSET Workshop]
BY DEF TypeOK, Unsure, Wishes

\* The inventory holds what it is told.
LEMMA ToldType ==
  ASSUME TypeOK, NEW s \in Servers, NEW list \in Seq(Records)
  PROVE  Told(s, list) \in Inventories
<1> DEFINE numbered == {list[k] : k \in {j \in DOMAIN list : list[j].src = "nexus"}}
           Paths(r) == IF r.at # {} THEN r.at ELSE UNION {e.at : e \in {f \in inventory[s] : f.id = r.id}}
<1>1. Told(s, list) = {e \in inventory[s] : \A r \in numbered : e.id # r.id}
                        \cup {[id |-> r.id, at |-> Paths(r)] : r \in numbered}
  BY DEF Told
<1>2. inventory[s] \in Inventories
  BY DEF TypeOK, Inventories
<1>3. \A r \in numbered : r.id \in Items /\ r.at \in SUBSET Spots
  <2>1. \A k \in DOMAIN list : list[k] \in Records
    OBVIOUS
  <2> QED BY <2>1 DEF Records
<1>4. \A e \in inventory[s] : e.at \in SUBSET Spots
  BY <1>2 DEF Inventories
<1>5. ASSUME NEW r \in numbered PROVE [id |-> r.id, at |-> Paths(r)] \in [id: Items, at: SUBSET Spots]
  <2> DEFINE more == UNION {e.at : e \in {f \in inventory[s] : f.id = r.id}}
  <2>1. more \in SUBSET Spots
    BY <1>4
  <2> HIDE DEF more
  <2>2. Paths(r) = IF r.at # {} THEN r.at ELSE more
    BY DEF more
  <2>3. Paths(r) \in SUBSET Spots
    BY <1>3, <2>1, <2>2
  <2> QED BY <1>3, <2>3
<1> HIDE DEF numbered, Paths
<1> QED BY <1>1, <1>2, <1>5 DEF Inventories

\* The record that a user points at.
LEMMA PointsAt ==
  ASSUME TypeOK, NEW s \in Servers, NEW k \in DOMAIN mods[s]
  PROVE  /\ mods[s] \in Seq(Records) /\ mods[s][k] \in Records /\ mods[s][k].id \in Items
         /\ mods[s][k].ver \in Versions \cup {0}
<1>1. mods[s] \in Seq(Records)
  BY DEF TypeOK
<1>2. mods[s][k] \in Records
  BY <1>1
<1> QED BY <1>1, <1>2 DEF Records

LEMMA FetchedType ==
  ASSUME TypeOK, NEW s \in Servers, NEW p \in Jobs, NEW w \in Workshop
  PROVE  Fetched(s, p, w) \subseteq Versions
<1>1. cache[s][w] \in Versions \cup {0} /\ latest[w] \in Versions
  BY KindsApart DEF TypeOK
<1> QED BY <1>1, VersionsArePositive DEF Fetched

LEMMA InstallBeginsType ==
  ASSUME TypeOK, NEW s \in Servers, NEW p \in Jobs, NEW i \in Items, NEW force \in BOOLEAN,
         InstallBegins(s, p, i, force)
  PROVE  TypeOK'
<1>1. [Idle EXCEPT !.at = "details", !.kind = "install", !.id = {i}, !.force = force] \in Works
  BY IdleWork DEF Works
<1>2. job' \in [Servers -> [Jobs -> Works]]
  BY <1>1, GoesType DEF InstallBegins
<1> DEFINE what == IF force THEN wanted[s][i] ELSE
                   IF wanted[s][i] \in {"on", "overruled"} THEN "on" ELSE "asked"
<1>3. what \in Wishes /\ wanted' = [wanted EXCEPT ![s][i] = what]
  BY DEF TypeOK, InstallBegins, Wishes
<1> HIDE DEF what
<1>4. wanted' \in [Servers -> [Items -> Wishes]]
  BY <1>3 DEF TypeOK, Wishes
<1> QED BY <1>2, <1>4 DEF TypeOK, InstallBegins, Starts, NotScanned, Kept, Outside, Wishes

LEMMA GetsDetailsType ==
  ASSUME TypeOK, NEW s \in Servers, NEW p \in Jobs, NEW i \in Items, GetsDetails(s, p, i)
  PROVE  TypeOK'
<1>1. latest[i] \in Versions /\ latest[i] <= Newest[i] /\ Newest[i] \in Nat \ {0}
  BY ModsAssumption DEF TypeOK
<1>2. \A v \in 1..latest[i] : v \in Versions
  <2>1. latest[i] \in Nat
    BY <1>1, VersionsArePositive
  <2> QED BY <1>1, <2>1 DEF Versions
<1>3. PICK v \in Versions :
        Goes(s, p, [job[s][p] EXCEPT !.at = IF job[s][p].kind = "all" THEN "download" ELSE "place",
                                     !.ver = v])
  BY <1>1, <1>2 DEF GetsDetails
<1>4. job[s][p] \in Works
  BY DEF TypeOK
<1>5. [job[s][p] EXCEPT !.at = IF job[s][p].kind = "all" THEN "download" ELSE "place", !.ver = v]
        \in Works
  BY <1>4 DEF Works
<1>6. job' \in [Servers -> [Jobs -> Works]]
  BY <1>3, <1>5, GoesType
<1> QED BY <1>6 DEF TypeOK, GetsDetails, NotScanned, Kept, Outside, History

LEMMA DownloadsType ==
  ASSUME TypeOK, NEW s \in Servers, NEW w \in Workshop, Downloads(s, w)
  PROVE  TypeOK'
<1> DEFINE new == [job[s]["task"] EXCEPT !.at = "next",
                       !.got = @ \cup {[id |-> w, ver |-> job[s]["task"].ver]}]
<1>1. "task" \in Jobs
  BY DEF Jobs
<1>2. job[s]["task"] \in Works
  BY <1>1 DEF TypeOK
<1>3. new \in Works
  <2> DEFINE got == job[s]["task"].got \cup {[id |-> w, ver |-> job[s]["task"].ver]}
  <2>1. got \in SUBSET [id: Workshop, ver: Versions \cup {0}]
    BY <1>2 DEF Works
  <2>2. new = [job[s]["task"] EXCEPT !.at = "next", !.got = got]
    BY <1>2 DEF Works
  <2> HIDE DEF got, new
  <2> QED BY <1>2, <2>1, <2>2 DEF Works
<1>4. Goes(s, "task", new)
  BY DEF Downloads
<1> HIDE DEF new
<1>5. job' \in [Servers -> [Jobs -> Works]]
  BY <1>1, <1>3, <1>4, GoesType
<1>6. Fetched(s, "task", w) \subseteq Versions
  BY <1>1, FetchedType
<1>7. cache' \in [Servers -> [Workshop -> Versions \cup {0}]]
  BY <1>6 DEF TypeOK, Downloads
<1> QED BY <1>5, <1>7 DEF TypeOK, Downloads, NotScanned, Kept, Outside, History

LEMMA JobFailsType ==
  ASSUME TypeOK, NEW s \in Servers, NEW p \in Jobs, JobFails(s, p)
  PROVE  TypeOK'
<1>1. job' \in [Servers -> [Jobs -> Works]]
  BY IdleWork, GoesType DEF JobFails
<1> QED BY <1>1 DEF TypeOK, JobFails, Fault, NotScanned, Kept, Outside, History

\* The record of a mod that was installed.
LEMMA InstalledRecord ==
  ASSUME NEW i \in Items, NEW v \in Versions \cup {0}
  PROVE  /\ Installed(i, v) \in Records /\ Installed(i, v).id = i /\ Installed(i, v).on = TRUE
         /\ IsSteam(Installed(i, v)) <=> i \in Workshop
<1>1. CASE i \in Workshop
  <2>1. Installed(i, v) = [id |-> i, src |-> "steam", on |-> TRUE, ver |-> v, at |-> {}, dir |-> InFolder]
    BY <1>1 DEF Installed, Record, FullRecord
  <2>2. i \notin Packages
    BY <1>1, KindsApart
  <2> QED BY <1>1, <2>1, <2>2 DEF Records, IsSteam, Spots
<1>2. CASE i \notin Workshop
  <2> DEFINE at == IF i \in OnDisk THEN {Spot(i)} ELSE {}
  <2>1. Installed(i, v) = FullRecord(i, "nexus", TRUE, v, at, Spot(i))
    BY <1>2 DEF Installed
  <2>2. at \in SUBSET Spots /\ Spot(i) \in Spots
    BY DEF Spot, Spots
  <2> HIDE DEF at
  <2>3. Installed(i, v) = [id |-> i, src |-> "nexus", on |-> TRUE, ver |-> v, at |-> at, dir |-> Spot(i)]
    BY <2>1 DEF FullRecord
  <2> QED BY <1>2, <2>2, <2>3 DEF Records, IsSteam
<1> QED BY <1>1, <1>2

LEMMA PlacedType ==
  ASSUME TypeOK, NEW s \in Servers, NEW i \in Items, NEW v \in Versions \cup {0}
  PROVE  Placed(s, i, v) \in SUBSET Copies(i)
<1>1. CASE i \in Workshop
  <2>1. Copies(i) = Versions \cup {Torn}
    BY <1>1, CopiesAre
  <2> QED BY <1>1, <2>1 DEF Placed, Torn
<1>2. CASE i \in Packages
  <2>1. Copies(i) = Versions \cup {Torn} /\ i \notin Workshop
    BY <1>2, CopiesAre, KindsApart
  <2> QED BY <1>2, <2>1, FilesOf DEF Placed, WithFolder, Torn
<1>3. CASE i \in OnDisk
  <2>1. Copies(i) = Spots /\ i \notin Workshop /\ i \notin Packages
    BY <1>3, CopiesAre
  <2> QED BY <2>1, FilesOf DEF Placed, WithFolder
<1> QED BY <1>1, <1>2, <1>3, CopiesAre

LEMMA PlacesModType ==
  ASSUME TypeOK, NEW s \in Servers, NEW p \in Jobs, NEW i \in Items, PlacesMod(s, p, i)
  PROVE  TypeOK'
<1> DEFINE new == Installed(i, job[s][p].ver)
<1>1. job[s][p].ver \in Versions \cup {0}
  BY DEF TypeOK, Works
<1>2. new \in Records
  BY <1>1, InstalledRecord
<1>3. /\ Saves(s, Put(mods[s], new))
      /\ inventory' = [inventory EXCEPT ![s] = IF i \in Workshop THEN @ ELSE Told(s, <<new>>)]
  BY DEF PlacesMod
<1> HIDE DEF new
<1>4. Put(mods[s], new) \in Seq(Records)
  <2>1. mods[s] \in Seq(Records)
    BY DEF TypeOK
  <2> QED BY <1>2, <2>1 DEF Put
<1>5. mods' \in [Servers -> Seq(Records)]
  BY <1>3, <1>4, SavesType
<1>6. job' \in [Servers -> [Jobs -> Works]]
  BY IdleWork, GoesType DEF PlacesMod
<1>7. PICK v \in (IF i \in Workshop THEN Fetched(s, p, i) ELSE {job[s][p].ver}) :
        /\ Places(s, i, Placed(s, i, v))
        /\ cache' = IF i \in Workshop THEN [cache EXCEPT ![s][i] = v] ELSE cache
  BY DEF PlacesMod
<1>8. v \in Versions \cup {0}
  BY <1>1, FetchedType
<1>9. Placed(s, i, v) \in SUBSET Copies(i)
  BY <1>8, PlacedType
<1>10. FilesType(files')
  BY <1>7, <1>9, PlacesType
<1>11. cache' \in [Servers -> [Workshop -> Versions \cup {0}]]
  BY <1>7, <1>8 DEF TypeOK
<1>12. rollback' \in [Servers -> [Items -> SUBSET (Versions \cup {Torn})]]
  BY DEF TypeOK, PlacesMod
<1>13. active' \in [Servers -> SUBSET Items] /\ root' \in [Servers -> BOOLEAN]
  BY ActivatesType DEF TypeOK, PlacesMod
<1>14. inventory' \in [Servers -> Inventories]
  <2>1. <<new>> \in Seq(Records)
    BY <1>2
  <2>2. Told(s, <<new>>) \in Inventories
    BY <2>1, ToldType
  <2>3. inventory \in [Servers -> Inventories]
    BY DEF TypeOK, Inventories
  <2> QED BY <1>3, <2>2, <2>3
<1>15. /\ wanted' \in [Servers -> [Items -> Wishes]]
       /\ unsure' \in [Servers -> SUBSET Items] /\ stale' \in [Servers -> SUBSET Workshop]
  BY SwitchedOnType, WantsType DEF PlacesMod, Wishes
<1> QED BY <1>5, <1>6, <1>10, <1>11, <1>12, <1>13, <1>14, <1>15
        DEF TypeOK, PlacesMod, NotScanned, Wishes, FilesType, Inventories

LEMMA PlaceFailsType ==
  ASSUME TypeOK, NEW s \in Servers, NEW p \in Jobs, NEW i \in Items, PlaceFails(s, p, i)
  PROVE  TypeOK'
<1>1. job' \in [Servers -> [Jobs -> Works]]
  BY IdleWork, GoesType DEF PlaceFails
<1>2. FilesType(files')
  <2>1. CASE UNCHANGED files
    BY <2>1 DEF TypeOK, FilesType
  <2>2. ASSUME i \in OnDisk, NEW left \in HalfCopied(s, i, Spot(i)), Places(s, i, left)
        PROVE  FilesType(files')
    BY <2>2, FilesOf, PlacesType
  <2> QED BY <2>1, <2>2 DEF PlaceFails
<1>3. active' \in [Servers -> SUBSET Items] /\ root' \in [Servers -> BOOLEAN]
  BY ActivatesType DEF TypeOK, PlaceFails
<1>4. PICK v \in (IF i \in Workshop THEN Fetched(s, p, i) ELSE {0}) :
        cache' = IF i \in Workshop THEN [cache EXCEPT ![s][i] = v] ELSE cache
  BY DEF PlaceFails
<1>5. v \in Versions \cup {0}
  BY FetchedType
<1>6. cache' \in [Servers -> [Workshop -> Versions \cup {0}]]
  BY <1>4, <1>5 DEF TypeOK
<1>7. rollback' \in [Servers -> [Items -> SUBSET (Versions \cup {Torn})]]
  BY DEF TypeOK, PlaceFails
<1>8. /\ wanted' \in [Servers -> [Items -> Wishes]]
      /\ unsure' \in [Servers -> SUBSET Items] /\ stale' \in [Servers -> SUBSET Workshop]
  BY UnsureType DEF PlaceFails
<1> QED BY <1>1, <1>2, <1>3, <1>6, <1>7, <1>8
        DEF TypeOK, PlaceFails, Fault, NotScanned, Wishes, FilesType

LEMMA CheckBeginsType ==
  ASSUME TypeOK, NEW s \in Servers, NEW p \in Jobs, NEW all \in BOOLEAN, CheckBegins(s, p, all)
  PROVE  TypeOK'
<1> DEFINE list == Discovered(s, mods[s])
           work == [Idle EXCEPT !.at = "check", !.read = list, !.kind = IF all THEN "all" ELSE "check"]
<1>1. list \in Seq(Records)
  BY DiscoveredKeeps DEF TypeOK, Keeps
<1>2. /\ Saves(s, list)
      /\ Goes(s, p, IF SteamIds(list) = {} THEN Idle ELSE work)
  BY DEF CheckBegins
<1> HIDE DEF list
<1>3. work \in Works
  BY <1>1, IdleWork DEF Works
<1>4. mods' \in [Servers -> Seq(Records)]
  BY <1>1, <1>2, SavesType
<1>5. job' \in [Servers -> [Jobs -> Works]]
  BY <1>2, <1>3, IdleWork, GoesType
<1> QED BY <1>4, <1>5 DEF TypeOK, CheckBegins, Starts, NotScanned, Kept, Outside, History

\* What a check has read is a list of records, and the mods to update are of the
\* Workshop.
LEMMA ReadType ==
  ASSUME TypeOK, NEW s \in Servers, NEW p \in Jobs
  PROVE  /\ job[s][p] \in Works /\ job[s][p].read \in Seq(Records)
         /\ SteamIds(job[s][p].read) \subseteq Workshop
         /\ Outdated(job[s][p].read) \subseteq Workshop
<1>1. job[s][p] \in Works /\ job[s][p].read \in Seq(Records)
  BY DEF TypeOK, Works
<1>2. \A k \in DOMAIN job[s][p].read : job[s][p].read[k] \in Records
  BY <1>1
<1> QED BY <1>1, <1>2 DEF SteamIds, Outdated, Records

LEMMA CheckEndsType ==
  ASSUME TypeOK, NEW s \in Servers, NEW p \in Jobs, Once(job[s][p].read), CheckEnds(s, p)
  PROVE  TypeOK'
<1> DEFINE read == job[s][p].read
           saved == [k \in DOMAIN read |-> Checked(read[k])]
           todo == IF job[s][p].kind = "all" THEN Outdated(read) ELSE {}
           list == IF job[s][p].kind = "all" /\ todo = {} THEN Discovered(s, saved) ELSE saved
           work == [job[s][p] EXCEPT !.at = "next", !.read = <<>>, !.todo = todo, !.force = TRUE]
<1>1. /\ Saves(s, list)
      /\ Goes(s, p, IF todo = {} THEN Idle ELSE work)
      /\ stale' = [stale EXCEPT ![s] = @ \cup
             {w \in SteamIds(read) : w \in SteamIds(mods[s]) => OnIn(read, w) # OnIn(mods[s], w)}]
  BY DEF CheckEnds
<1>2. job[s][p] \in Works /\ read \in Seq(Records) /\ SteamIds(read) \subseteq Workshop /\ todo \subseteq Workshop
  BY ReadType
<1>3. saved \in Seq(Records)
  BY <1>2, CheckedKeeps DEF TypeOK
<1> HIDE DEF saved
<1>4. Discovered(s, saved) \in Seq(Records)
  BY <1>3, DiscoveredKeeps DEF Keeps
<1> HIDE DEF todo, read
<1>5. work \in Works
  <2>1. <<>> \in Seq(Records)
    OBVIOUS
  <2> QED BY <1>2, <2>1 DEF Works
<1>6. list \in Seq(Records)
  BY <1>3, <1>4
<1> HIDE DEF list, work
<1>7. mods' \in [Servers -> Seq(Records)]
  BY <1>1, <1>6, SavesType
<1>8. job' \in [Servers -> [Jobs -> Works]]
  BY <1>1, <1>5, IdleWork, GoesType
<1>9. stale' \in [Servers -> SUBSET Workshop]
  BY <1>1, <1>2 DEF TypeOK
<1> QED BY <1>7, <1>8, <1>9 DEF TypeOK, CheckEnds, NotScanned, Kept, Outside

LEMMA NextUpdateType ==
  ASSUME TypeOK, NEW s \in Servers, NextUpdate(s)
  PROVE  TypeOK'
<1>1. "task" \in Jobs
  BY DEF Jobs
<1>2. job[s]["task"] \in Works
  BY <1>1 DEF TypeOK
<1>3. ASSUME NEW w \in job[s]["task"].todo
      PROVE  [job[s]["task"] EXCEPT !.at = "details", !.id = {w}, !.todo = @ \ {w}] \in Works
  BY <1>2, KindsApart DEF Works
<1>4. [job[s]["task"] EXCEPT !.at = "backup", !.id = {}] \in Works
  BY <1>2 DEF Works
<1>5. job' \in [Servers -> [Jobs -> Works]]
  BY <1>1, <1>3, <1>4, GoesType DEF NextUpdate
<1> QED BY <1>5 DEF TypeOK, NextUpdate, NotScanned, Kept, Outside, History

\* The files of several mods of the Workshop.
LEMMA ManyPlacedType ==
  ASSUME TypeOK, NEW s \in Servers, NEW f,
         \A i \in Items : (i \in Workshop /\ f[i] \in SUBSET (Versions \cup {Torn})) \/ f[i] = files[s][i],
         files' = [files EXCEPT ![s] = [i \in Items |-> f[i]]]
  PROVE  FilesType(files')
<1>1. FilesType(files)
  BY DEF TypeOK, FilesType
<1>2. \A i \in Items : f[i] \in SUBSET (Versions \cup {Torn} \cup Spots) /\ f[i] \subseteq Copies(i)
  BY <1>1, CopiesAre DEF FilesType
<1> QED BY <1>1, <1>2 DEF FilesType

LEMMA UpdatesPlacedType ==
  ASSUME TypeOK, NEW s \in Servers, NEW done, done \subseteq Workshop, UpdatesPlaced(s, done)
  PROVE  /\ FilesType(files')
         /\ rollback' \in [Servers -> [Items -> SUBSET (Versions \cup {Torn})]]
         /\ active' \in [Servers -> SUBSET Items] /\ root' \in [Servers -> BOOLEAN]
<1>1. \A i \in done : {cache[s][i]} \in SUBSET (Versions \cup {Torn})
  BY DEF TypeOK, Torn
<1> DEFINE f == [i \in Items |-> IF i \in done THEN {cache[s][i]} ELSE files[s][i]]
<1>2. \A i \in Items : (i \in Workshop /\ f[i] \in SUBSET (Versions \cup {Torn})) \/ f[i] = files[s][i]
  BY <1>1
<1>3. files' = [files EXCEPT ![s] = [i \in Items |-> f[i]]]
  BY DEF TypeOK, UpdatesPlaced
<1> HIDE DEF f
<1>4. FilesType(files')
  BY <1>2, <1>3, ManyPlacedType
<1>5. [i \in Items |-> IF i \in done THEN {} ELSE rollback[s][i]]
        \in [Items -> SUBSET (Versions \cup {Torn})]
  BY DEF TypeOK
<1>6. rollback' \in [Servers -> [Items -> SUBSET (Versions \cup {Torn})]]
  BY <1>5 DEF TypeOK, UpdatesPlaced
<1>7. active' \in [Servers -> SUBSET Items] /\ root' \in [Servers -> BOOLEAN]
  BY KindsApart DEF TypeOK, UpdatesPlaced
<1> QED BY <1>4, <1>6, <1>7

\* What update_all has downloaded.
LEMMA GotType ==
  ASSUME TypeOK, NEW s \in Servers
  PROVE  /\ job[s]["task"].got \subseteq [id: Workshop, ver: Versions \cup {0}]
         /\ {g.id : g \in job[s]["task"].got} \subseteq Workshop
<1>1. "task" \in Jobs
  BY DEF Jobs
<1>2. job[s]["task"].got \subseteq [id: Workshop, ver: Versions \cup {0}]
  BY <1>1 DEF TypeOK, Works
<1> QED BY <1>2

LEMMA PlacesUpdatesType ==
  ASSUME TypeOK, NEW s \in Servers, Once(mods[s]), PlacesUpdates(s)
  PROVE  TypeOK'
<1> DEFINE got == job[s]["task"].got
           ids == {g.id : g \in got}
<1>1. "task" \in Jobs
  BY DEF Jobs
<1>2. got \subseteq [id: Workshop, ver: Versions \cup {0}] /\ ids \subseteq Workshop /\ ids \subseteq Items
  BY GotType, KindsApart
<1>3. job' \in [Servers -> [Jobs -> Works]]
  BY <1>1, IdleWork, GoesType DEF PlacesUpdates
<1>4. Updated(mods[s], got) \in Seq(Records)
  BY <1>2, UpdatedChanges DEF TypeOK, Changes
<1>5. \/ /\ UpdatesPlaced(s, ids)
         /\ Saves(s, Updated(mods[s], got))
         /\ wanted' = [wanted EXCEPT ![s] = [i \in Items |-> IF i \in ids THEN SwitchedOn(s, i) ELSE @[i]]]
         /\ unsure' = [unsure EXCEPT ![s] = @ \ ids]
         /\ stale' = [stale EXCEPT ![s] = @ \ ids]
         /\ faults' = faults
      \/ \E done \in SUBSET ids : /\ UpdatesPlaced(s, done) /\ Unsure(s, ids) /\ UNCHANGED mods
                                  /\ faults' = faults \/ Fault
  BY DEF PlacesUpdates
<1> HIDE DEF got, ids
<1>6. CASE /\ UpdatesPlaced(s, ids)
           /\ Saves(s, Updated(mods[s], got))
           /\ wanted' = [wanted EXCEPT ![s] = [i \in Items |-> IF i \in ids THEN SwitchedOn(s, i) ELSE @[i]]]
           /\ unsure' = [unsure EXCEPT ![s] = @ \ ids]
           /\ stale' = [stale EXCEPT ![s] = @ \ ids]
           /\ faults' = faults
  <2>1. mods' \in [Servers -> Seq(Records)]
    BY <1>4, <1>6, SavesType
  <2>2. [i \in Items |-> IF i \in ids THEN SwitchedOn(s, i) ELSE wanted[s][i]] \in [Items -> Wishes]
    BY SwitchedOnType DEF TypeOK, Wishes
  <2>3. /\ wanted' \in [Servers -> [Items -> Wishes]]
        /\ unsure' \in [Servers -> SUBSET Items] /\ stale' \in [Servers -> SUBSET Workshop]
    BY <1>6, <2>2 DEF TypeOK, Wishes
  <2>4. /\ FilesType(files')
        /\ rollback' \in [Servers -> [Items -> SUBSET (Versions \cup {Torn})]]
        /\ active' \in [Servers -> SUBSET Items] /\ root' \in [Servers -> BOOLEAN]
    BY <1>2, <1>6, UpdatesPlacedType
  <2> QED BY <1>3, <1>6, <2>1, <2>3, <2>4
          DEF TypeOK, PlacesUpdates, NotScanned, Outside, Wishes, FilesType
<1>7. ASSUME NEW done \in SUBSET ids, UpdatesPlaced(s, done), Unsure(s, ids), UNCHANGED mods,
             faults' = faults \/ Fault
      PROVE  TypeOK'
  <2>1. /\ wanted' \in [Servers -> [Items -> Wishes]]
        /\ unsure' \in [Servers -> SUBSET Items] /\ stale' \in [Servers -> SUBSET Workshop]
    BY <1>2, <1>7, UnsureType
  <2>2. /\ FilesType(files')
        /\ rollback' \in [Servers -> [Items -> SUBSET (Versions \cup {Torn})]]
        /\ active' \in [Servers -> SUBSET Items] /\ root' \in [Servers -> BOOLEAN]
    BY <1>2, <1>7, UpdatesPlacedType
  <2> QED BY <1>3, <1>7, <2>1, <2>2
          DEF TypeOK, PlacesUpdates, NotScanned, Outside, Fault, Wishes, FilesType
<1> QED BY <1>5, <1>6, <1>7

LEMMA OpenPageKeeps ==
  ASSUME NEW s \in Servers, NEW list \in Seq(Records)
  PROVE  LET Shown(r) == r.src # "manual"
         IN  Keeps(list, Discovered(s, Where(list, Shown)), Found(s))
<1> DEFINE part == Only(list, {k \in DOMAIN list : list[k].src # "manual"})
<1>1. part \in Seq(Records) /\ Steam(part) \subseteq Steam(list) /\ (Once(list) => Once(part))
  BY PartOf
<1> HIDE DEF part
<1>2. Keeps(part, Discovered(s, part), Found(s))
  BY <1>1, DiscoveredKeeps
<1>3. Keeps(list, Discovered(s, part), Found(s))
  BY <1>1, <1>2 DEF Keeps
<1> QED BY <1>3 DEF part, Where

LEMMA OpenPageType ==
  ASSUME TypeOK, NEW s \in Servers, OpenPage(s)
  PROVE  TypeOK'
<1>1. mods[s] \in Seq(Records)
  BY DEF TypeOK
<1>2. mods' \in [Servers -> Seq(Records)]
  BY <1>1, OpenPageKeeps, SavesType DEF OpenPage, Keeps
<1> QED BY <1>2 DEF TypeOK, OpenPage, NotScanned, Kept, Outside, History

LEMMA StatusType ==
  ASSUME TypeOK, NEW s \in Servers, Once(mods[s]), NEW k \in DOMAIN mods[s], NEW on \in BOOLEAN,
         Status(s, k, on)
  PROVE  mods' \in [Servers -> Seq(Records)] /\ mods'[s] = [mods[s] EXCEPT ![k].on = on]
<1>1. [mods[s] EXCEPT ![k].on = on] \in Seq(Records)
  BY StatusChanges DEF TypeOK, Changes
<1> QED BY <1>1, SavesType DEF Status

\* What lies in disabled_mods, with or without one more.
LEMMA UnstagedType ==
  ASSUME TypeOK, NEW i \in Items, NEW s \in Servers
  PROVE  /\ Unstaged(i) \subseteq [id: OnDisk, of: Servers]
         /\ i \in OnDisk => Unstaged(i) \cup {[id |-> i, of |-> s]} \subseteq [id: OnDisk, of: Servers]
BY DEF TypeOK, Unstaged

LEMMA EnableType ==
  ASSUME TypeOK, NEW s \in Servers, Once(mods[s]), NEW k \in DOMAIN mods[s], Enable(s, k)
  PROVE  TypeOK'
<1>0. PICK r : r = mods[s][k]
  OBVIOUS
<1>1. r.id \in Items
  BY <1>0, PointsAt
<1>2. mods' \in [Servers -> Seq(Records)]
  BY StatusType DEF Enable
<1>3. \/ /\ Activates(s, r.id, TRUE) /\ Answers(s, r.id, "on", files[s][r.id] # {}, {})
         /\ UNCHANGED <<files, staged>>
      \/ /\ Moved(r)
         /\ Places(s, r.id, files[s][r.id] \cup {InFolder}) /\ staged' = Unstaged(r.id)
         /\ Answers(s, r.id, "on", TRUE, Owner(s, r.id))
         /\ UNCHANGED <<active, root>>
      \/ /\ Answers(s, r.id, "on", Loads(s, r.id), {})
         /\ UNCHANGED <<active, root, files, staged>>
  BY <1>0 DEF Enable
<1>4. FilesType(files') /\ staged' \subseteq [id: OnDisk, of: Servers]
  <2>1. CASE UNCHANGED <<files, staged>>
    BY <2>1 DEF TypeOK, FilesType
  <2>2. CASE /\ Moved(r) /\ Places(s, r.id, files[s][r.id] \cup {InFolder})
             /\ staged' = Unstaged(r.id)
    <3>1. files[s][r.id] \cup {InFolder} \in SUBSET Copies(r.id)
      BY <1>1, <2>2, FilesOf, CopiesAre DEF Moved
    <3> QED BY <1>1, <2>2, <3>1, PlacesType, UnstagedType
  <2> QED BY <1>3, <2>1, <2>2
<1>5. active' \in [Servers -> SUBSET Items] /\ root' \in [Servers -> BOOLEAN]
  BY <1>1, <1>3, ActivatesType DEF TypeOK
<1>6. /\ wanted' \in [Servers -> [Items -> Wishes]]
      /\ unsure' \in [Servers -> SUBSET Items] /\ stale' \in [Servers -> SUBSET Workshop]
  BY <1>1, <1>3, WantsType DEF Wishes
<1> QED BY <1>2, <1>4, <1>5, <1>6
        DEF TypeOK, Enable, Asked, NotScanned, Outside, Wishes, FilesType

LEMMA DisableType ==
  ASSUME TypeOK, NEW s \in Servers, Once(mods[s]), NEW k \in DOMAIN mods[s], Disable(s, k)
  PROVE  TypeOK'
<1>0. PICK r : r = mods[s][k]
  OBVIOUS
<1>1. r.id \in Items
  BY <1>0, PointsAt
<1>2. mods' \in [Servers -> Seq(Records)]
  BY StatusType DEF Disable
<1>3. \/ /\ Activates(s, r.id, FALSE) /\ Answers(s, r.id, "off", TRUE, {})
         /\ UNCHANGED <<files, staged>>
      \/ /\ Moved(r)
         /\ Places(s, r.id, files[s][r.id] \ {InFolder})
         /\ staged' = Unstaged(r.id) \cup {[id |-> r.id, of |-> s]}
         /\ Answers(s, r.id, "off", files[s][r.id] = {InFolder}, Owner(s, r.id))
         /\ UNCHANGED <<active, root>>
      \/ /\ Answers(s, r.id, "off", ~Loads(s, r.id), {})
         /\ UNCHANGED <<active, root, files, staged>>
  BY <1>0 DEF Disable
<1>4. FilesType(files') /\ staged' \subseteq [id: OnDisk, of: Servers]
  <2>1. CASE UNCHANGED <<files, staged>>
    BY <2>1 DEF TypeOK, FilesType
  <2>2. CASE /\ Moved(r) /\ Places(s, r.id, files[s][r.id] \ {InFolder})
             /\ staged' = Unstaged(r.id) \cup {[id |-> r.id, of |-> s]}
    <3>1. files[s][r.id] \ {InFolder} \in SUBSET Copies(r.id)
      BY <1>1, FilesOf
    <3> QED BY <1>1, <2>2, <3>1, PlacesType, UnstagedType DEF Moved
  <2> QED BY <1>3, <2>1, <2>2
<1>5. active' \in [Servers -> SUBSET Items] /\ root' \in [Servers -> BOOLEAN]
  BY <1>1, <1>3, ActivatesType DEF TypeOK
<1>6. /\ wanted' \in [Servers -> [Items -> Wishes]]
      /\ unsure' \in [Servers -> SUBSET Items] /\ stale' \in [Servers -> SUBSET Workshop]
  BY <1>1, <1>3, WantsType DEF Wishes
<1> QED BY <1>2, <1>4, <1>5, <1>6
        DEF TypeOK, Disable, Asked, NotScanned, Outside, Wishes, FilesType

\* What SteamCMD has downloaded of a mod is removed, or stays.
LEMMA CacheType ==
  ASSUME TypeOK, NEW s \in Servers, NEW i,
         cache' = cache \/ \E v \in {cache[s][i], 0} : cache' = [cache EXCEPT ![s][i] = v]
  PROVE  cache' \in [Servers -> [Workshop -> Versions \cup {0}]]
<1>1. cache \in [Servers -> [Workshop -> Versions \cup {0}]]
  BY DEF TypeOK
<1>2. ASSUME NEW v \in {cache[s][i], 0}, cache' = [cache EXCEPT ![s][i] = v]
      PROVE  cache' \in [Servers -> [Workshop -> Versions \cup {0}]]
  <2>1. [cache[s] EXCEPT ![i] = v] \in [Workshop -> Versions \cup {0}]
    <3>1. CASE i \in Workshop
      BY <1>1, <3>1
    <3>2. CASE i \notin Workshop
      BY <1>1, <3>2
    <3> QED BY <3>1, <3>2
  <2> QED BY <1>1, <1>2, <2>1
<1> QED BY <1>1, <1>2

LEMMA RemoveModType ==
  ASSUME TypeOK, NEW s \in Servers, Once(mods[s]), NEW k \in DOMAIN mods[s], RemoveMod(s, k)
  PROVE  TypeOK'
<1>0. PICK r : r = mods[s][k]
  OBVIOUS
<1>1. r.id \in Items
  BY <1>0, PointsAt
<1>2. mods' \in [Servers -> Seq(Records)]
  <2>1. Without(mods[s], k) \in Seq(Records)
    BY WithoutChanges DEF TypeOK, Changes
  <2> QED BY <2>1, SavesType DEF RemoveMod
<1>3. \/ /\ Activates(s, r.id, FALSE) /\ Answers(s, r.id, "out", TRUE, {})
         /\ Places(s, r.id, {})
         /\ cache' = [cache EXCEPT ![s][r.id] = 0]
         /\ UNCHANGED staged
      \/ /\ Moved(r)
         /\ Places(s, r.id, files[s][r.id] \ {InFolder}) /\ staged' = Unstaged(r.id)
         /\ Answers(s, r.id, "out", files[s][r.id] \subseteq {InFolder}, Owner(s, r.id))
         /\ UNCHANGED <<active, root, cache>>
      \/ /\ Answers(s, r.id, "out", ~Loads(s, r.id), {})
         /\ UNCHANGED <<active, root, files, staged, cache>>
  BY <1>0 DEF RemoveMod
<1>4. FilesType(files') /\ staged' \subseteq [id: OnDisk, of: Servers]
  <2>1. CASE UNCHANGED <<files, staged>>
    BY <2>1 DEF TypeOK, FilesType
  <2>2. CASE Places(s, r.id, {}) /\ UNCHANGED staged
    <3>1. {} \in SUBSET Copies(r.id)
      OBVIOUS
    <3> QED BY <1>1, <2>2, <3>1, PlacesType DEF TypeOK
  <2>3. CASE Places(s, r.id, files[s][r.id] \ {InFolder}) /\ staged' = Unstaged(r.id)
    <3>1. files[s][r.id] \ {InFolder} \in SUBSET Copies(r.id)
      BY <1>1, FilesOf
    <3> QED BY <1>1, <2>3, <3>1, PlacesType, UnstagedType
  <2> QED BY <1>3, <2>1, <2>2, <2>3
<1>5. active' \in [Servers -> SUBSET Items] /\ root' \in [Servers -> BOOLEAN]
  BY <1>1, <1>3, ActivatesType DEF TypeOK
<1>6. /\ wanted' \in [Servers -> [Items -> Wishes]]
      /\ unsure' \in [Servers -> SUBSET Items] /\ stale' \in [Servers -> SUBSET Workshop]
  BY <1>1, <1>3, WantsType DEF Wishes
<1>7. cache' \in [Servers -> [Workshop -> Versions \cup {0}]]
  BY <1>3, CacheType
<1> QED BY <1>2, <1>4, <1>5, <1>6, <1>7
        DEF TypeOK, RemoveMod, Asked, NotScanned, Wishes, FilesType

LEMMA RequestFailsType ==
  ASSUME TypeOK, NEW s \in Servers, NEW k \in DOMAIN mods[s], RequestFails(s, k)
  PROVE  TypeOK'
<1>0. PICK r : r = mods[s][k]
  OBVIOUS
<1>1. r.id \in Items
  BY <1>0, PointsAt
<1>2. \/ /\ r.id \in Workshop /\ Activates(s, r.id, FALSE)
         /\ \E left \in {files[s][r.id], {Torn}, {}} : Places(s, r.id, left)
         /\ \E v \in {cache[s][r.id], 0} : cache' = [cache EXCEPT ![s][r.id] = v]
         /\ Unsure(s, {r.id})
         /\ UNCHANGED staged
      \/ /\ Moved(r)
         /\ \E left \in HalfCopied(s, r.id, InFolder) : Places(s, r.id, left)
         /\ staged' \in {staged, Unstaged(r.id), Unstaged(r.id) \cup {[id |-> r.id, of |-> s]}}
         /\ Answers(s, r.id, wanted[s][r.id], FALSE, Owner(s, r.id))
         /\ UNCHANGED <<active, root, cache>>
  BY <1>0 DEF RequestFails
<1>3. CASE /\ r.id \in Workshop /\ Activates(s, r.id, FALSE)
           /\ \E left \in {files[s][r.id], {Torn}, {}} : Places(s, r.id, left)
           /\ \E v \in {cache[s][r.id], 0} : cache' = [cache EXCEPT ![s][r.id] = v]
           /\ Unsure(s, {r.id})
           /\ UNCHANGED staged
  <2>1. FilesType(files')
    <3>1. \A left \in {files[s][r.id], {Torn}, {}} : left \in SUBSET Copies(r.id)
      BY <1>1, <1>3, FilesOf, CopiesAre
    <3> QED BY <1>1, <1>3, <3>1, PlacesType
  <2>2. active' \in [Servers -> SUBSET Items] /\ root' \in [Servers -> BOOLEAN]
    BY <1>1, <1>3, ActivatesType
  <2>3. /\ wanted' \in [Servers -> [Items -> Wishes]]
        /\ unsure' \in [Servers -> SUBSET Items] /\ stale' \in [Servers -> SUBSET Workshop]
    BY <1>1, <1>3, UnsureType
  <2>4. cache' \in [Servers -> [Workshop -> Versions \cup {0}]]
    BY <1>3, CacheType
  <2> QED BY <1>3, <2>1, <2>2, <2>3, <2>4
          DEF TypeOK, RequestFails, Asked, Fault, NotScanned, Wishes, FilesType
<1>4. CASE /\ Moved(r)
           /\ \E left \in HalfCopied(s, r.id, InFolder) : Places(s, r.id, left)
           /\ staged' \in {staged, Unstaged(r.id), Unstaged(r.id) \cup {[id |-> r.id, of |-> s]}}
           /\ Answers(s, r.id, wanted[s][r.id], FALSE, Owner(s, r.id))
           /\ UNCHANGED <<active, root, cache>>
  <2>1. FilesType(files')
    <3>1. \A left \in HalfCopied(s, r.id, InFolder) : left \in SUBSET Copies(r.id)
      BY <1>1, <1>4, FilesOf DEF Moved
    <3> QED BY <1>1, <1>4, <3>1, PlacesType
  <2>2. staged' \subseteq [id: OnDisk, of: Servers]
    <3>1. staged \subseteq [id: OnDisk, of: Servers] /\ r.id \in OnDisk
      BY <1>4 DEF TypeOK, Moved
    <3> QED BY <1>1, <1>4, <3>1, UnstagedType
  <2>3. wanted[s][r.id] \in Wishes
    BY <1>1 DEF TypeOK, Wishes
  <2>4. /\ wanted' \in [Servers -> [Items -> Wishes]]
        /\ unsure' \in [Servers -> SUBSET Items] /\ stale' \in [Servers -> SUBSET Workshop]
    BY <1>1, <1>4, <2>3, WantsType
  <2> QED BY <1>4, <2>1, <2>2, <2>4
          DEF TypeOK, RequestFails, Asked, Fault, NotScanned, Wishes, FilesType
<1> QED BY <1>2, <1>3, <1>4

\* The record of an uploaded file.
LEMMA UploadRecord ==
  ASSUME TypeOK, NEW i \in OnDisk, NEW known \in BOOLEAN
  PROVE  LET new == Record(i, IF known THEN "nexus" ELSE "manual", TRUE, latest[i])
         IN  new \in Records /\ ~IsSteam(new) /\ new.id = i
<1>1. i \in Items \ Workshop /\ i \notin Packages /\ latest[i] \in Versions \cup {0}
  BY CopiesAre DEF TypeOK
<1>2. TRUE \in BOOLEAN /\ "nexus" \in {"nexus", "manual"} /\ "manual" \in {"nexus", "manual"}
  OBVIOUS
<1>3. Record(i, "nexus", TRUE, latest[i]) \in Records /\ ~IsSteam(Record(i, "nexus", TRUE, latest[i]))
  BY <1>1, <1>2, NexusRecord
<1>4. Record(i, "manual", TRUE, latest[i]) \in Records /\ ~IsSteam(Record(i, "manual", TRUE, latest[i]))
  BY <1>1, <1>2, NexusRecord
<1>5. \A src : Record(i, src, TRUE, latest[i]).id = i
  BY DEF Record, FullRecord
<1> QED BY <1>3, <1>4, <1>5

LEMMA ConfirmUploadType ==
  ASSUME TypeOK, NEW s \in Servers, Once(mods[s]), NEW i \in Items, NEW known \in BOOLEAN,
         ConfirmUpload(s, i, known)
  PROVE  TypeOK'
<1> DEFINE new == Record(i, IF known THEN "nexus" ELSE "manual", TRUE, latest[i])
           list == IF known THEN Put(mods[s], new) ELSE Append(mods[s], new)
<1>1. i \in OnDisk /\ new \in Records /\ ~IsSteam(new)
  BY UploadRecord DEF ConfirmUpload
<1>2. \/ /\ Places(s, i, WithFolder(s, i, InFolder)) /\ Saves(s, list)
         /\ Wants(s, i, "on") /\ faults' = faults
      \/ /\ Fault /\ \E left \in HalfCopied(s, i, InFolder) : Places(s, i, left)
         /\ Unsure(s, {i}) /\ UNCHANGED mods
  BY DEF ConfirmUpload
<1> HIDE DEF new
<1>3. list \in Seq(Records)
  <2>1. Put(mods[s], new) \in Seq(Records) /\ Append(mods[s], new) \in Seq(Records)
    BY <1>1, PutChanges, AppendChanges DEF TypeOK, Changes
  <2> QED BY <2>1
<1> HIDE DEF list
<1>4. mods' \in [Servers -> Seq(Records)]
  BY <1>2, <1>3, SavesType DEF TypeOK
<1>5. FilesType(files')
  <2>1. WithFolder(s, i, InFolder) \in SUBSET Copies(i)
    BY <1>1, FilesOf, CopiesAre DEF WithFolder
  <2>2. \A left \in HalfCopied(s, i, InFolder) : left \in SUBSET Copies(i)
    BY <1>1, FilesOf
  <2> QED BY <1>2, <2>1, <2>2, PlacesType
<1>6. /\ wanted' \in [Servers -> [Items -> Wishes]]
      /\ unsure' \in [Servers -> SUBSET Items] /\ stale' \in [Servers -> SUBSET Workshop]
  BY <1>2, WantsType, UnsureType DEF Wishes
<1>7. faults' \in Nat
  BY <1>2 DEF Fault, TypeOK
<1> QED BY <1>4, <1>5, <1>6, <1>7
        DEF TypeOK, ConfirmUpload, Asked, NotScanned, Outside, Wishes, FilesType

LEMMA RescanType ==
  ASSUME TypeOK, NEW s \in Servers, Rescan(s)
  PROVE  TypeOK'
<1> DEFINE list == Deduplicated(s, WithPaks(s, WithFolders(s, WithPackages(s, mods[s]))))
<1>1. list \in Seq(Records)
  BY RescanKeeps DEF TypeOK, Keeps
<1>2. /\ Saves(s, list)
      /\ inventory' = [inventory EXCEPT ![s] = Told(s, list)]
  BY DEF Rescan
<1> HIDE DEF list
<1>3. mods' \in [Servers -> Seq(Records)]
  BY <1>1, <1>2, SavesType
<1>4. inventory' \in [Servers -> Inventories]
  <2>1. Told(s, list) \in Inventories
    BY <1>1, ToldType
  <2>2. inventory \in [Servers -> Inventories]
    BY DEF TypeOK, Inventories
  <2> QED BY <1>2, <2>1, <2>2
<1> QED BY <1>3, <1>4 DEF TypeOK, Rescan, Asked, Kept, Outside, History, Inventories

LEMMA UninstallType ==
  ASSUME TypeOK, NEW s \in Servers, Once(mods[s]), NEW k \in DOMAIN mods[s], Uninstall(s, k)
  PROVE  TypeOK'
<1> DEFINE i == mods[s][k].id
           left == Leaves(s, mods[s][k])
<1>1. i \in Items
  BY PointsAt
<1>2. Without(mods[s], k) \in Seq(Records)
  BY WithoutChanges DEF TypeOK, Changes
<1>3. left \subseteq files[s][i]
  BY DEF Leaves
<1>4. active' \in [Servers -> SUBSET Items] /\ root' \in [Servers -> BOOLEAN]
  BY <1>1, ActivatesType DEF Uninstall, Deactivates, TypeOK
<1>5. \/ /\ Places(s, i, left) /\ Saves(s, Without(mods[s], k))
         /\ inventory' = [inventory EXCEPT ![s] = {e \in @ : e.id # i}]
         /\ Answers(s, i, "out", i \in Packages \/ left = {}, {}) /\ faults' = faults
      \/ /\ Fault
         /\ \E some \in SUBSET (files[s][i] \ left), half \in {{}, {Torn}} :
              (half = {} \/ i \in Packages) /\ Places(s, i, left \cup some \cup half)
         /\ Unsure(s, {i}) /\ UNCHANGED <<mods, inventory>>
  BY DEF Uninstall
<1> HIDE DEF left, i
<1>6. mods' \in [Servers -> Seq(Records)]
  BY <1>2, <1>5, SavesType DEF TypeOK
<1>7. FilesType(files')
  <2>1. files[s][i] \in SUBSET Copies(i) /\ left \in SUBSET Copies(i)
    BY <1>1, <1>3, FilesOf
  <2>2. i \in Packages => Torn \in Copies(i)
    BY CopiesAre
  <2>3. \A some \in SUBSET (files[s][i] \ left), half \in {{}, {Torn}} :
          half = {} \/ i \in Packages => left \cup some \cup half \in SUBSET Copies(i)
    BY <2>1, <2>2
  <2> QED BY <1>1, <1>5, <2>1, <2>3, PlacesType
<1>8. /\ wanted' \in [Servers -> [Items -> Wishes]]
      /\ unsure' \in [Servers -> SUBSET Items] /\ stale' \in [Servers -> SUBSET Workshop]
  BY <1>1, <1>5, WantsType, UnsureType DEF Wishes
<1>9. inventory' \in [Servers -> Inventories]
  <2>1. inventory' = [inventory EXCEPT ![s] = {e \in @ : e.id # i}] \/ inventory' = inventory
    BY <1>5
  <2>2. inventory \in [Servers -> Inventories]
    BY DEF TypeOK, Inventories
  <2> QED BY <2>1, <2>2 DEF Inventories
<1>10. faults' \in Nat
  BY <1>5 DEF Fault, TypeOK
<1> QED BY <1>4, <1>6, <1>7, <1>8, <1>9, <1>10
        DEF TypeOK, Uninstall, Asked, NotScanned, Outside, Wishes, FilesType, Inventories

LEMMA UninstallMissingType ==
  ASSUME TypeOK, NEW s \in Servers, UninstallMissing(s)
  PROVE  TypeOK'
<1>1. WithFolders(s, WithPaks(s, mods[s])) \in Seq(Records)
  BY MissingKeeps DEF TypeOK, Keeps
<1>2. mods' \in [Servers -> Seq(Records)]
  BY <1>1, SavesType DEF UninstallMissing
<1> QED BY <1>2 DEF TypeOK, UninstallMissing, Asked, NotScanned, Kept, Outside, History

LEMMA CutOffType ==
  ASSUME TypeOK, NEW s \in Servers, NEW p \in Jobs, NEW i \in Items, CutOff(s, p, i)
  PROVE  /\ FilesType(files')
         /\ rollback' \in [Servers -> [Items -> SUBSET (Versions \cup {Torn})]]
         /\ active' \in [Servers -> SUBSET Items] /\ root' \in [Servers -> BOOLEAN]
         /\ wanted' \in [Servers -> [Items -> Wishes]]
         /\ unsure' \in [Servers -> SUBSET Items] /\ stale' \in [Servers -> SUBSET Workshop]
<1>1. job[s][p].ver \in Versions \cup {Torn}
  BY DEF TypeOK, Works, Torn
<1>2. /\ wanted' \in [Servers -> [Items -> Wishes]]
      /\ unsure' \in [Servers -> SUBSET Items] /\ stale' \in [Servers -> SUBSET Workshop]
  BY UnsureType DEF CutOff
<1>3. active' \in [Servers -> SUBSET Items] /\ root' \in [Servers -> BOOLEAN]
  BY ActivatesType DEF CutOff, TypeOK
<1>4. CASE /\ i \in OnDisk
           /\ \E left \in HalfCopied(s, i, Spot(i)) : Places(s, i, left)
           /\ UNCHANGED rollback
  <2>1. \A left \in HalfCopied(s, i, Spot(i)) : left \in SUBSET Copies(i)
    BY <1>4, FilesOf
  <2>2. FilesType(files')
    BY <1>4, <2>1, PlacesType
  <2> QED BY <1>2, <1>3, <1>4, <2>2 DEF TypeOK
<1>5. ASSUME i \notin OnDisk,
             NEW old, old = IF i \in Packages THEN files[s][i] \cap {job[s][p].ver} ELSE files[s][i],
             NEW aside \in {old, {}}, NEW half \in {{}, {Torn}, {job[s][p].ver}},
             rollback' = [rollback EXCEPT ![s][i] = aside],
             Places(s, i, (files[s][i] \ old) \cup half)
      PROVE  FilesType(files') /\ rollback' \in [Servers -> [Items -> SUBSET (Versions \cup {Torn})]]
  <2>1. Copies(i) = Versions \cup {Torn} /\ files[s][i] \in SUBSET Copies(i)
    BY <1>5, CopiesAre, FilesOf
  <2>2. aside \in SUBSET (Versions \cup {Torn}) /\ (files[s][i] \ old) \cup half \in SUBSET Copies(i)
    BY <1>1, <1>5, <2>1
  <2>3. FilesType(files')
    BY <1>5, <2>2, PlacesType
  <2> QED BY <1>5, <2>2, <2>3 DEF TypeOK
<1> QED BY <1>2, <1>3, <1>4, <1>5 DEF CutOff

\* Of the updates ids, some are done and some are cut.
LeftHalfWay(s, ids, done, cut, half) ==
  /\ files' = [files EXCEPT ![s] = [i \in Items |-> IF i \in done THEN {cache[s][i]} ELSE
                                                   IF i \in cut THEN half ELSE @[i]]]
  /\ rollback' = [rollback EXCEPT ![s] = [i \in Items |-> IF i \in done THEN {} ELSE
                                                         IF i \in cut THEN files[s][i] ELSE @[i]]]
  /\ active' = [active EXCEPT ![s] = @ \cup done]
  /\ root' = [root EXCEPT ![s] = TRUE]
  /\ Unsure(s, ids)

LEMMA UpdatesLeft ==
  ASSUME NEW s \in Servers, UpdatesCutOff(s)
  PROVE  LET ids == {g.id : g \in job[s]["task"].got} IN
         \E done \in SUBSET ids, cut \in SUBSET ids, half \in {{}, {Torn}} :
           LeftHalfWay(s, ids, done, cut, half)
<1> DEFINE ids == {g.id : g \in job[s]["task"].got}
<1>1. \E done \in SUBSET {i \in ids : cache[s][i] # 0} :
      \E cut \in SUBSET (ids \ done), half \in {{}, {Torn}} :
        Cardinality(cut) <= 1 /\ LeftHalfWay(s, ids, done, cut, half)
  BY DEF UpdatesCutOff, LeftHalfWay
<1> HIDE DEF ids
<1>2. PICK done \in SUBSET {i \in ids : cache[s][i] # 0} :
      \E cut \in SUBSET (ids \ done), half \in {{}, {Torn}} :
        LeftHalfWay(s, ids, done, cut, half)
  BY <1>1
<1>3. PICK cut \in SUBSET (ids \ done), half \in {{}, {Torn}} : LeftHalfWay(s, ids, done, cut, half)
  BY <1>2
<1>4. done \in SUBSET ids /\ cut \in SUBSET ids
  OBVIOUS
<1>5. \E d \in SUBSET ids, t \in SUBSET ids, h \in {{}, {Torn}} : LeftHalfWay(s, ids, d, t, h)
  BY <1>3, <1>4
<1> QED BY <1>5 DEF ids

LEMMA UpdatesCutOffType ==
  ASSUME TypeOK, NEW s \in Servers, UpdatesCutOff(s)
  PROVE  /\ FilesType(files')
         /\ rollback' \in [Servers -> [Items -> SUBSET (Versions \cup {Torn})]]
         /\ active' \in [Servers -> SUBSET Items] /\ root' \in [Servers -> BOOLEAN]
         /\ wanted' \in [Servers -> [Items -> Wishes]]
         /\ unsure' \in [Servers -> SUBSET Items] /\ stale' \in [Servers -> SUBSET Workshop]
<1> DEFINE ids == {g.id : g \in job[s]["task"].got}
<1>1. ids \subseteq Workshop /\ ids \subseteq Items
  BY GotType, KindsApart
<1>2. PICK done \in SUBSET ids, cut \in SUBSET ids, half \in {{}, {Torn}} : LeftHalfWay(s, ids, done, cut, half)
  BY UpdatesLeft
<1> HIDE DEF ids
<1> DEFINE f == [i \in Items |-> IF i \in done THEN {cache[s][i]} ELSE
                                IF i \in cut THEN half ELSE files[s][i]]
           aside == [i \in Items |-> IF i \in done THEN {} ELSE
                                    IF i \in cut THEN files[s][i] ELSE rollback[s][i]]
<1>3. \A i \in ids : {cache[s][i]} \in SUBSET (Versions \cup {Torn})
  BY <1>1 DEF TypeOK, Torn
<1>4. \A i \in ids : files[s][i] \in SUBSET (Versions \cup {Torn})
  BY <1>1, CopiesAre DEF TypeOK
<1>5. \A i \in Items : (i \in Workshop /\ f[i] \in SUBSET (Versions \cup {Torn})) \/ f[i] = files[s][i]
  BY <1>1, <1>3
<1>6. files' = [files EXCEPT ![s] = [i \in Items |-> f[i]]]
  BY <1>2 DEF TypeOK, LeftHalfWay
<1>7. aside \in [Items -> SUBSET (Versions \cup {Torn})]
  BY <1>4 DEF TypeOK
<1>8. rollback' = [rollback EXCEPT ![s] = aside]
  BY <1>2 DEF TypeOK, LeftHalfWay
<1> HIDE DEF f, aside
<1>9. FilesType(files')
  BY <1>5, <1>6, ManyPlacedType
<1>10. rollback' \in [Servers -> [Items -> SUBSET (Versions \cup {Torn})]]
  BY <1>7, <1>8 DEF TypeOK
<1>11. active' \in [Servers -> SUBSET Items] /\ root' \in [Servers -> BOOLEAN]
  BY <1>1, <1>2 DEF TypeOK, LeftHalfWay
<1>12. /\ wanted' \in [Servers -> [Items -> Wishes]]
       /\ unsure' \in [Servers -> SUBSET Items] /\ stale' \in [Servers -> SUBSET Workshop]
  BY <1>1, <1>2, UnsureType DEF LeftHalfWay
<1> QED BY <1>9, <1>10, <1>11, <1>12

LEMMA RestartType ==
  ASSUME TypeOK, Restart
  PROVE  TypeOK'
<1>1. job' \in [Servers -> [Jobs -> Works]]
  BY IdleWork DEF Restart
<1>2. /\ FilesType(files')
      /\ rollback' \in [Servers -> [Items -> SUBSET (Versions \cup {Torn})]]
      /\ active' \in [Servers -> SUBSET Items] /\ root' \in [Servers -> BOOLEAN]
      /\ wanted' \in [Servers -> [Items -> Wishes]]
      /\ unsure' \in [Servers -> SUBSET Items] /\ stale' \in [Servers -> SUBSET Workshop]
  <2>1. CASE UNCHANGED <<active, root, files, rollback, History>>
    BY <2>1 DEF TypeOK, History, FilesType, Wishes
  <2> QED BY <2>1, CutOffType, UpdatesCutOffType DEF Restart
<1> QED BY <1>1, <1>2 DEF TypeOK, Restart, Fault, NotScanned, Outside, FilesType, Wishes

LEMMA NewVersionType ==
  ASSUME TypeOK, NEW i \in Items, NewVersion(i)
  PROVE  TypeOK'
<1>1. latest[i] \in Nat /\ latest[i] < Newest[i] /\ Newest[i] \in Nat
  BY VersionsArePositive, ModsAssumption DEF TypeOK, NewVersion
<1>2. latest[i] + 1 \in Versions /\ latest[i] + 1 <= Newest[i]
  BY <1>1 DEF Versions
<1>3. latest' \in [Items -> Versions] /\ \A j \in Items : latest'[j] <= Newest[j]
  BY <1>2 DEF TypeOK, NewVersion
<1> QED BY <1>3 DEF TypeOK, NewVersion, NotScanned, Kept, History

LEMMA InitType == Init => TypeOK
<1> SUFFICES ASSUME Init PROVE TypeOK
  OBVIOUS
<1>1. <<>> \in Seq(Records)
  OBVIOUS
<1>2. \A i \in Items : Newest[i] \in Nat \ {0} /\ Newest[i] \in Versions /\ 1 \in 1..Newest[i] /\ 1 <= Newest[i]
  BY ModsAssumption DEF Versions
<1>3. latest \in [Items -> Versions] /\ \A i \in Items : latest[i] <= Newest[i]
  BY <1>2 DEF Init, Versions
<1>4. mods \in [Servers -> Seq(Records)]
  BY <1>1 DEF Init
<1> QED BY <1>3, <1>4, IdleWork DEF Init, TypeOK

-----------------------------------------------------------------------------
(* The inductive invariant                                                  *)

\* No list has a Workshop mod twice: neither mods.json nor what a check has read.
Listed == \A s \in Servers : Once(mods[s]) /\ \A p \in Jobs : Once(job[s][p].read)

Inv == TypeOK /\ LoadsAsWanted /\ Listed /\ StatusIsTrue

\* StatusIsTrue of one record.
Right(s, r) == r.id \in unsure[s] \cup stale[s] \/ (r.on <=> Loads(s, r.id))

LEMMA StatusBySteam == StatusIsTrue <=> \A s \in Servers : \A r \in Steam(mods[s]) : Right(s, r)
BY DEF StatusIsTrue, Steam, Right

LEMMA StatusBySteamNext ==
  ASSUME \A s \in Servers : \A r \in Steam(mods'[s]) : Right(s, r)'
  PROVE  StatusIsTrue'
BY DEF StatusIsTrue, Steam, Right

LEMMA SteamIsWorkshop ==
  ASSUME NEW list \in Seq(Records), NEW r \in Steam(list)
  PROVE  r \in Records /\ r.id \in Workshop /\ r.id \in Items /\ IsSteam(r)
<1>1. r \in Records /\ IsSteam(r)
  BY DEF Steam
<1> QED BY <1>1, KindsApart DEF Records

\* Reads that are kept, dropped or have each Workshop mod once.
ReadsOnce == \A t \in Servers, p \in Jobs : job'[t][p].read = job[t][p].read \/ Once(job'[t][p].read)

LEMMA EmptyIsOnce == Once(<<>>) /\ Once(Idle.read)
BY DEF Once, Idle

\* A step of a job whose record changes.
LEMMA GoesOnce ==
  ASSUME TypeOK, NEW s \in Servers, NEW p \in Jobs, NEW new, Goes(s, p, new),
         new.read = job[s][p].read \/ Once(new.read)
  PROVE  ReadsOnce
BY DEF TypeOK, Goes, ReadsOnce

LEMMA StaysListed ==
  ASSUME Listed, NEW s \in Servers, Once(mods'[s]), \A t \in Servers \ {s} : mods'[t] = mods[t],
         ReadsOnce
  PROVE  Listed'
<1>1. \A t \in Servers, p \in Jobs : Once(job'[t][p].read)
  BY DEF Listed, ReadsOnce
<1>2. \A t \in Servers : Once(mods'[t])
  BY DEF Listed
<1> QED BY <1>1, <1>2 DEF Listed

\* That a mod shall be loaded.
IsOn(s, i) == wanted[s][i] \in {"on", "overruled"}
SameWishes == \A t \in Servers, i \in Items : IsOn(t, i)' <=> IsOn(t, i)

LEMMA WishesStay == ASSUME wanted' = wanted PROVE SameWishes
BY DEF SameWishes, IsOn

\* A step that touches neither what the game loads nor what users want of it, and
\* puts nothing wrong on the list.
LEMMA ListStep ==
  ASSUME Inv, TypeOK', UNCHANGED <<files, active, unsure, stale>>, SameWishes, ReadsOnce,
         NEW s \in Servers, \A t \in Servers \ {s} : mods'[t] = mods[t],
         Keeps(mods[s], mods'[s], Found(s))
  PROVE  Inv'
<1>1. \A t, i : Loads(t, i)' <=> Loads(t, i)
  BY DEF Loads
<1>2. LoadsAsWanted'
  <2>1. \A t \in Servers : \A i \in Items \ unsure[t] : Loads(t, i) <=> IsOn(t, i)
    BY DEF Inv, LoadsAsWanted, IsOn
  <2>2. \A t \in Servers : \A i \in Items \ unsure'[t] : Loads(t, i)' <=> IsOn(t, i)'
    BY <1>1, <2>1 DEF SameWishes
  <2> QED BY <2>2 DEF LoadsAsWanted, IsOn, Loads
<1>3. Listed'
  BY StaysListed DEF Inv, Keeps, Listed
<1>4. \A t, r : Right(t, r)' <=> Right(t, r)
  BY <1>1 DEF Right
<1>5. ASSUME NEW r \in Found(s) PROVE Right(s, r)
  <2>1. PICK w \in Workshop : files[s][w] # {} /\ r = Record(w, "steam", w \in active[s], 0)
    BY DEF Found
  <2>2. r.id = w /\ (r.on <=> w \in active[s])
    BY <2>1 DEF Record, FullRecord
  <2> QED BY <2>1, <2>2 DEF Right, Loads
<1>6. \A t \in Servers : \A r \in Steam(mods[t]) : Right(t, r)
  BY StatusBySteam DEF Inv
<1>7. \A t \in Servers : \A r \in Steam(mods'[t]) : Right(t, r)'
  BY <1>4, <1>5, <1>6 DEF Keeps
<1>8. StatusIsTrue'
  BY <1>7, StatusBySteamNext
<1> QED BY <1>2, <1>3, <1>8 DEF Inv

LEMMA QuietStep ==
  ASSUME Inv, TypeOK', UNCHANGED <<files, active, unsure, stale, mods>>, SameWishes, ReadsOnce
  PROVE  Inv'
<1>1. ASSUME NEW s \in Servers PROVE Inv'
  <2>1. Keeps(mods[s], mods'[s], Found(s))
    BY DEF Keeps, Inv, TypeOK
  <2> QED BY <2>1, ListStep
<1>2. CASE Servers = {}
  BY <1>2 DEF Inv, LoadsAsWanted, Listed, StatusIsTrue
<1> QED BY <1>1, <1>2

\* A step about one mod of one server.
Elsewhere(s, i) ==
  \A t \in Servers, j \in Items : t # s \/ j # i =>
    /\ Loads(t, j)' <=> Loads(t, j)
    /\ wanted'[t][j] = wanted[t][j]
    /\ j \in unsure[t] => j \in unsure'[t]
    /\ j \in stale[t] => j \in stale'[t]

LEMMA OneModStep ==
  ASSUME Inv, TypeOK', ReadsOnce, NEW s \in Servers, NEW i \in Items, Elsewhere(s, i),
         i \in unsure'[s] \/ (Loads(s, i)' <=> IsOn(s, i)'),
         \A t \in Servers \ {s} : mods'[t] = mods[t],
         NEW more, Changes(mods[s], mods'[s], {i} \cap Workshop, more),
         \A r \in more : r.id = i /\ Right(s, r)'
  PROVE  Inv'
<1>1. LoadsAsWanted'
  <2> SUFFICES ASSUME NEW t \in Servers, NEW j \in Items \ unsure'[t]
               PROVE  Loads(t, j)' <=> IsOn(t, j)'
    BY DEF LoadsAsWanted, Loads, IsOn
  <2>1. CASE t = s /\ j = i
    BY <2>1
  <2>2. CASE t # s \/ j # i
    BY <2>2 DEF Inv, LoadsAsWanted, Elsewhere, IsOn
  <2> QED BY <2>1, <2>2
<1>2. Listed'
  BY StaysListed DEF Inv, Changes
<1>3. \A t \in Servers : \A r \in Steam(mods[t]) : Right(t, r) /\ r.id \in Workshop /\ r.id \in Items
  <2>1. \A t \in Servers : mods[t] \in Seq(Records)
    BY DEF Inv, TypeOK
  <2> QED BY <2>1, StatusBySteam, SteamIsWorkshop DEF Inv
<1>4. ASSUME NEW t \in Servers, NEW r, Right(t, r), r.id \in Items, t # s \/ r.id # i PROVE Right(t, r)'
  BY <1>4 DEF Elsewhere, Right
<1>5. ASSUME NEW t \in Servers, NEW r \in Steam(mods'[t]) PROVE Right(t, r)'
  <2>1. CASE t # s
    BY <1>3, <1>4, <2>1
  <2>2. CASE t = s /\ r \in more
    BY <2>2
  <2>3. CASE t = s /\ r \notin more
    <3>1. r \in Steam(mods[s]) /\ r.id \notin {i} \cap Workshop
      BY <2>3 DEF Changes
    <3> QED BY <3>1, <2>3, <1>3, <1>4
  <2> QED BY <2>1, <2>2, <2>3
<1>6. StatusIsTrue'
  BY <1>5, StatusBySteamNext
<1> QED BY <1>1, <1>2, <1>6 DEF Inv

\* The same if the list gets no record of a Workshop mod.
LEMMA NothingNewStep ==
  ASSUME Inv, TypeOK', ReadsOnce, NEW s \in Servers, NEW i \in Items, Elsewhere(s, i),
         i \in unsure'[s] \/ (Loads(s, i)' <=> IsOn(s, i)'),
         \A t \in Servers \ {s} : mods'[t] = mods[t],
         Changes(mods[s], mods'[s], {i} \cap Workshop, {})
  PROVE  Inv'
<1>1. PICK more : more = {}
  OBVIOUS
<1>2. Changes(mods[s], mods'[s], {i} \cap Workshop, more)
  BY <1>1
<1>3. \A r \in more : r.id = i /\ Right(s, r)'
  BY <1>1
<1> QED BY <1>2, <1>3, OneModStep

\* The same for a mod of another kind than the Workshop's, or a list that stays.
LEMMA NoSteamStep ==
  ASSUME Inv, TypeOK', ReadsOnce, NEW s \in Servers, NEW i \in Items, Elsewhere(s, i),
         i \in unsure'[s] \/ (Loads(s, i)' <=> IsOn(s, i)'),
         UNCHANGED mods, i \in Workshop => i \in unsure'[s] \cup stale'[s]
  PROVE  Inv'
<1>1. mods[s] \in Seq(Records) /\ Once(mods[s])
  BY DEF Inv, TypeOK, Listed
<1> DEFINE more == {r \in Steam(mods[s]) : r.id = i}
<1>2. Changes(mods[s], mods'[s], {i} \cap Workshop, more)
  BY <1>1 DEF Changes
<1>3. \A r \in more : r.id = i /\ Right(s, r)'
  BY <1>1, SteamIsWorkshop DEF Right
<1> HIDE DEF more
<1> QED BY <1>2, <1>3, OneModStep

LEMMA PlacesElsewhere ==
  ASSUME TypeOK, NEW s \in Servers, NEW i \in Items,
         files' = files \/ \E v : Places(s, i, v),
         active' = active \/ \E on : Activates(s, i, on)
  PROVE  \A t \in Servers, j \in Items : t # s \/ j # i => (Loads(t, j)' <=> Loads(t, j))
<1>1. \A t \in Servers, j \in Items : t # s \/ j # i => files'[t][j] = files[t][j]
  BY DEF TypeOK, Places
<1>2. \A t \in Servers, j \in Items : t # s \/ j # i => (j \in active'[t] <=> j \in active[t])
  BY DEF TypeOK, Activates
<1> QED BY <1>1, <1>2 DEF Loads

LEMMA WantsElsewhere ==
  ASSUME TypeOK, NEW s \in Servers, NEW i \in Items,
         \/ \E what : Wants(s, i, what)
         \/ \E what, done, robbed : Answers(s, i, what, done, robbed)
         \/ Unsure(s, {i})
  PROVE  \A t \in Servers, j \in Items : t # s \/ j # i =>
           /\ wanted'[t][j] = wanted[t][j]
           /\ j \in unsure[t] => j \in unsure'[t]
           /\ j \in stale[t] => j \in stale'[t]
<1>1. CASE \E what : Wants(s, i, what)
  BY <1>1 DEF TypeOK, Wants
<1>2. CASE \E what, done, robbed : Answers(s, i, what, done, robbed)
  BY <1>2 DEF TypeOK, Answers
<1>3. CASE Unsure(s, {i})
  BY <1>3 DEF TypeOK, Unsure
<1> QED BY <1>1, <1>2, <1>3

LEMMA Wanted ==
  ASSUME TypeOK, NEW s \in Servers, NEW i \in Items, NEW what, Wants(s, i, what)
  PROVE  wanted'[s][i] = what
BY DEF TypeOK, Wants

\* Of a request that was answered, the mod is unsure or what was asked was done.
LEMMA Answered ==
  ASSUME TypeOK, NEW s \in Servers, NEW i \in Items, NEW what, NEW done \in BOOLEAN, NEW robbed,
         Answers(s, i, what, done, robbed)
  PROVE  wanted'[s][i] = what /\ (done \/ i \in unsure'[s])
BY DEF TypeOK, Answers

LEMMA NowUnsure ==
  ASSUME TypeOK, NEW s \in Servers, NEW i, Unsure(s, {i})
  PROVE  i \in unsure'[s]
BY DEF TypeOK, Unsure

LEMMA NowPlaced ==
  ASSUME TypeOK, NEW s \in Servers, NEW i \in Items, NEW v, Places(s, i, v)
  PROVE  files'[s][i] = v
BY DEF TypeOK, Places

LEMMA NowActive ==
  ASSUME TypeOK, NEW s \in Servers, NEW i \in Items, NEW on \in BOOLEAN, Activates(s, i, on)
  PROVE  i \in active'[s] <=> on
BY DEF TypeOK, Activates

LEMMA SavesElsewhere ==
  ASSUME TypeOK, NEW s \in Servers, NEW list, Saves(s, list)
  PROVE  mods'[s] = list /\ \A t \in Servers \ {s} : mods'[t] = mods[t]
BY DEF TypeOK, Saves

-----------------------------------------------------------------------------
(* One lemma for each action                                                *)

LEMMA InstallBeginsStep ==
  ASSUME Inv, NEW s \in Servers, NEW p \in Jobs, NEW i \in Items, NEW force \in BOOLEAN,
         InstallBegins(s, p, i, force)
  PROVE  Inv'
<1>1. TypeOK'
  BY InstallBeginsType DEF Inv
<1>2. ReadsOnce
  <2> DEFINE new == [Idle EXCEPT !.at = "details", !.kind = "install", !.id = {i}, !.force = force]
  <2>1. new.read = Idle.read /\ Goes(s, p, new)
    BY DEF InstallBegins, Idle
  <2> HIDE DEF new
  <2> QED BY <2>1, EmptyIsOnce, GoesOnce DEF Inv
<1>3. SameWishes
  <2> DEFINE what == IF force THEN wanted[s][i] ELSE
                     IF wanted[s][i] \in {"on", "overruled"} THEN "on" ELSE "asked"
  <2>1. wanted' = [wanted EXCEPT ![s][i] = what]
    BY DEF InstallBegins
  <2>2. what \in {"on", "overruled"} <=> wanted[s][i] \in {"on", "overruled"}
    OBVIOUS
  <2> HIDE DEF what
  <2> QED BY <2>1, <2>2 DEF SameWishes, IsOn, Inv, TypeOK
<1> QED BY <1>1, <1>2, <1>3, QuietStep DEF InstallBegins, Kept

LEMMA GetsDetailsStep ==
  ASSUME Inv, NEW s \in Servers, NEW p \in Jobs, NEW i \in Items, GetsDetails(s, p, i)
  PROVE  Inv'
<1>1. TypeOK'
  BY GetsDetailsType DEF Inv
<1>2. job[s][p] \in Works
  BY DEF Inv, TypeOK
<1>3. ReadsOnce
  <2>1. PICK v : Goes(s, p, [job[s][p] EXCEPT !.at = IF job[s][p].kind = "all" THEN "download" ELSE "place",
                                              !.ver = v])
    BY DEF GetsDetails
  <2> DEFINE new == [job[s][p] EXCEPT !.at = IF job[s][p].kind = "all" THEN "download" ELSE "place",
                                     !.ver = v]
  <2>2. new.read = job[s][p].read /\ Goes(s, p, new)
    BY <1>2, <2>1 DEF Works
  <2> HIDE DEF new
  <2> QED BY <2>2, GoesOnce DEF Inv
<1> QED BY <1>1, <1>3, QuietStep, WishesStay DEF GetsDetails, Kept, History

LEMMA DownloadsStep ==
  ASSUME Inv, NEW s \in Servers, NEW w \in Workshop, Downloads(s, w)
  PROVE  Inv'
<1>1. TypeOK'
  BY DownloadsType DEF Inv
<1>2. "task" \in Jobs
  BY DEF Jobs
<1>3. ReadsOnce
  <2> DEFINE new == [job[s]["task"] EXCEPT !.at = "next",
                       !.got = @ \cup {[id |-> w, ver |-> job[s]["task"].ver]}]
  <2>1. job[s]["task"] \in Works
    BY <1>2 DEF Inv, TypeOK
  <2>2. new.read = job[s]["task"].read /\ Goes(s, "task", new)
    BY <2>1 DEF Downloads, Works
  <2> HIDE DEF new
  <2> QED BY <1>2, <2>2, GoesOnce DEF Inv
<1> QED BY <1>1, <1>3, QuietStep, WishesStay DEF Downloads, Kept, History

LEMMA JobFailsStep ==
  ASSUME Inv, NEW s \in Servers, NEW p \in Jobs, JobFails(s, p)
  PROVE  Inv'
<1>1. TypeOK'
  BY JobFailsType DEF Inv
<1>2. ReadsOnce
  BY EmptyIsOnce, GoesOnce DEF Inv, JobFails
<1> QED BY <1>1, <1>2, QuietStep, WishesStay DEF JobFails, Kept, History

LEMMA NextUpdateStep ==
  ASSUME Inv, NEW s \in Servers, NextUpdate(s)
  PROVE  Inv'
<1>1. TypeOK'
  BY NextUpdateType DEF Inv
<1>2. "task" \in Jobs
  BY DEF Jobs
<1>3. job[s]["task"] \in Works
  BY <1>2 DEF Inv, TypeOK
<1>4. ReadsOnce
  <2> DEFINE last == [job[s]["task"] EXCEPT !.at = "backup", !.id = {}]
  <2>1. ASSUME NEW w,
               Goes(s, "task", [job[s]["task"] EXCEPT !.at = "details", !.id = {w}, !.todo = @ \ {w}])
        PROVE  ReadsOnce
    <3> DEFINE new == [job[s]["task"] EXCEPT !.at = "details", !.id = {w}, !.todo = @ \ {w}]
    <3>1. new.read = job[s]["task"].read /\ Goes(s, "task", new)
      BY <1>3, <2>1 DEF Works
    <3> HIDE DEF new
    <3> QED BY <1>2, <3>1, GoesOnce DEF Inv
  <2>2. last.read = job[s]["task"].read
    BY <1>3 DEF Works
  <2>3. (\E w : Goes(s, "task", [job[s]["task"] EXCEPT !.at = "details", !.id = {w}, !.todo = @ \ {w}]))
        \/ Goes(s, "task", last)
    BY DEF NextUpdate
  <2> HIDE DEF last
  <2> QED BY <1>2, <2>1, <2>2, <2>3, GoesOnce DEF Inv
<1> QED BY <1>1, <1>4, QuietStep, WishesStay DEF NextUpdate, Kept, History

LEMMA NewVersionStep ==
  ASSUME Inv, NEW i \in Items, NewVersion(i)
  PROVE  Inv'
<1>1. TypeOK'
  BY NewVersionType DEF Inv
<1>2. ReadsOnce
  BY DEF NewVersion, ReadsOnce
<1> QED BY <1>1, <1>2, QuietStep, WishesStay DEF NewVersion, Kept, History

LEMMA SameReads == ASSUME job' = job PROVE ReadsOnce
BY DEF ReadsOnce

LEMMA OpenPageStep ==
  ASSUME Inv, NEW s \in Servers, OpenPage(s)
  PROVE  Inv'
<1>1. TypeOK' /\ mods[s] \in Seq(Records)
  BY OpenPageType DEF Inv, TypeOK
<1>2. Keeps(mods[s], mods'[s], Found(s)) /\ \A t \in Servers \ {s} : mods'[t] = mods[t]
  BY <1>1, OpenPageKeeps, SavesElsewhere DEF OpenPage, Inv
<1> QED BY <1>1, <1>2, SameReads, ListStep, WishesStay DEF OpenPage, Kept, History

LEMMA MoreKeeps ==
  ASSUME NEW list, NEW new, Keeps(list, new, {}), NEW more
  PROVE  Keeps(list, new, more)
BY DEF Keeps

LEMMA RescanStep ==
  ASSUME Inv, NEW s \in Servers, Rescan(s)
  PROVE  Inv'
<1> DEFINE list == Deduplicated(s, WithPaks(s, WithFolders(s, WithPackages(s, mods[s]))))
<1>1. TypeOK' /\ mods[s] \in Seq(Records)
  BY RescanType DEF Inv, TypeOK
<1>2. Keeps(mods[s], list, Found(s))
  BY <1>1, RescanKeeps, MoreKeeps
<1>3. Saves(s, list)
  BY DEF Rescan
<1> HIDE DEF list
<1>4. Keeps(mods[s], mods'[s], Found(s)) /\ \A t \in Servers \ {s} : mods'[t] = mods[t]
  BY <1>2, <1>3, SavesElsewhere DEF Inv
<1> QED BY <1>1, <1>4, SameReads, ListStep, WishesStay DEF Rescan, Kept, History

LEMMA UninstallMissingStep ==
  ASSUME Inv, NEW s \in Servers, UninstallMissing(s)
  PROVE  Inv'
<1> DEFINE list == WithFolders(s, WithPaks(s, mods[s]))
<1>1. TypeOK' /\ mods[s] \in Seq(Records)
  BY UninstallMissingType DEF Inv, TypeOK
<1>2. Keeps(mods[s], list, Found(s))
  BY <1>1, MissingKeeps, MoreKeeps
<1>3. Saves(s, list)
  BY DEF UninstallMissing
<1> HIDE DEF list
<1>4. Keeps(mods[s], mods'[s], Found(s)) /\ \A t \in Servers \ {s} : mods'[t] = mods[t]
  BY <1>2, <1>3, SavesElsewhere DEF Inv
<1> QED BY <1>1, <1>4, SameReads, ListStep, WishesStay DEF UninstallMissing, Kept, History

LEMMA CheckBeginsStep ==
  ASSUME Inv, NEW s \in Servers, NEW p \in Jobs, NEW all \in BOOLEAN, CheckBegins(s, p, all)
  PROVE  Inv'
<1> DEFINE list == Discovered(s, mods[s])
           work == [Idle EXCEPT !.at = "check", !.read = list, !.kind = IF all THEN "all" ELSE "check"]
<1>1. TypeOK' /\ mods[s] \in Seq(Records) /\ Once(mods[s])
  BY CheckBeginsType DEF Inv, TypeOK, Listed
<1>2. Keeps(mods[s], list, Found(s))
  BY <1>1, DiscoveredKeeps
<1>3. Saves(s, list) /\ Goes(s, p, IF SteamIds(list) = {} THEN Idle ELSE work)
  BY DEF CheckBegins
<1>4. work.read = list
  BY DEF Idle
<1> HIDE DEF list, work
<1>5. Keeps(mods[s], mods'[s], Found(s)) /\ \A t \in Servers \ {s} : mods'[t] = mods[t]
  BY <1>2, <1>3, SavesElsewhere DEF Inv
<1>6. Once(list)
  BY <1>1, <1>2 DEF Keeps
<1>7. ReadsOnce
  <2>1. Goes(s, p, Idle) \/ Goes(s, p, work)
    BY <1>3
  <2> QED BY <1>4, <1>6, <2>1, EmptyIsOnce, GoesOnce DEF Inv
<1> QED BY <1>1, <1>5, <1>7, ListStep, WishesStay DEF CheckBegins, Kept, History

LEMMA OnInOnce ==
  ASSUME NEW list, Once(list), NEW r \in Steam(list)
  PROVE  OnIn(list, r.id) <=> r.on
BY DEF OnIn, Once, Steam

\* What a check has read may be old: then the mods it got wrong are stale, and the
\* others are as in the list that it overwrites.
LEMMA CheckEndsStep ==
  ASSUME Inv, NEW s \in Servers, NEW p \in Jobs, CheckEnds(s, p)
  PROVE  Inv'
<1> DEFINE read == job[s][p].read
           saved == [k \in DOMAIN read |-> Checked(read[k])]
           todo == IF job[s][p].kind = "all" THEN Outdated(read) ELSE {}
           list == IF job[s][p].kind = "all" /\ todo = {} THEN Discovered(s, saved) ELSE saved
           work == [job[s][p] EXCEPT !.at = "next", !.read = <<>>, !.todo = todo, !.force = TRUE]
           wrong == {w \in SteamIds(read) : w \in SteamIds(mods[s]) => OnIn(read, w) # OnIn(mods[s], w)}
<1>1. /\ Saves(s, list)
      /\ Goes(s, p, IF todo = {} THEN Idle ELSE work)
      /\ stale' = [stale EXCEPT ![s] = @ \cup wrong]
      /\ UNCHANGED <<files, active, wanted, unsure>>
  BY DEF CheckEnds, Kept
<1>2. Once(read)
  BY DEF Inv, Listed
<1>3. TypeOK'
  BY <1>2, CheckEndsType DEF Inv
<1>4. job[s][p] \in Works /\ read \in Seq(Records)
  BY ReadType DEF Inv
<1>5. /\ saved \in Seq(Records) /\ Once(saved)
      /\ \A r \in Steam(saved) : \E q \in Steam(read) : r.id = q.id /\ r.on = q.on
  BY <1>2, <1>4, CheckedKeeps DEF Inv, TypeOK
<1>6. ReadsOnce
  <2>1. Goes(s, p, Idle) \/ Goes(s, p, work)
    BY <1>1
  <2>2. work.read = <<>>
    BY <1>4 DEF Works
  <2> HIDE DEF work
  <2> QED BY <2>1, <2>2, EmptyIsOnce, GoesOnce DEF Inv
<1> HIDE DEF saved, todo, work
<1>7. Keeps(saved, Discovered(s, saved), Found(s))
  BY <1>5, DiscoveredKeeps
<1>8. Keeps(saved, list, Found(s))
  BY <1>5, <1>7 DEF Keeps
<1> HIDE DEF list, wrong, read
<1>9. mods'[s] = list /\ \A t \in Servers \ {s} : mods'[t] = mods[t]
  BY <1>1, SavesElsewhere DEF Inv
<1>10. /\ stale'[s] = stale[s] \cup wrong
       /\ \A t \in Servers : stale[t] \subseteq stale'[t]
  BY <1>1 DEF Inv, TypeOK
<1>11. \A t, i : Loads(t, i)' <=> Loads(t, i)
  BY <1>1 DEF Loads
<1>12. LoadsAsWanted'
  BY <1>1, <1>11 DEF Inv, LoadsAsWanted
<1>13. Listed'
  BY <1>5, <1>6, <1>8, <1>9, StaysListed DEF Inv, Keeps
<1>14. ASSUME NEW t \in Servers, NEW r, Right(t, r) PROVE Right(t, r)'
  BY <1>1, <1>10, <1>11, <1>14 DEF Right
<1>15. \A t \in Servers : \A r \in Steam(mods[t]) : Right(t, r)
  BY StatusBySteam DEF Inv
<1>16. ASSUME NEW r \in Found(s) PROVE Right(s, r)
  <2>1. PICK w \in Workshop : files[s][w] # {} /\ r = Record(w, "steam", w \in active[s], 0)
    BY DEF Found
  <2>2. r.id = w /\ (r.on <=> w \in active[s])
    BY <2>1 DEF Record, FullRecord
  <2> QED BY <2>1, <2>2 DEF Right, Loads
<1>17. ASSUME NEW r \in Steam(saved) PROVE Right(s, r)'
  <2>1. PICK q \in Steam(read) : r.id = q.id /\ r.on = q.on
    BY <1>5
  <2>2. q.id \in SteamIds(read)
    BY SteamIdsOf
  <2>3. CASE q.id \in wrong
    BY <2>1, <2>3, <1>10 DEF Right
  <2>4. CASE q.id \notin wrong
    <3>1. q.id \in SteamIds(mods[s]) /\ OnIn(read, q.id) = OnIn(mods[s], q.id)
      BY <2>2, <2>4 DEF wrong
    <3>2. PICK m \in Steam(mods[s]) : m.id = q.id
      BY <3>1, SteamIdsOf
    <3>3. OnIn(read, q.id) <=> q.on
      BY <1>2, OnInOnce
    <3>4. OnIn(mods[s], m.id) <=> m.on
      BY OnInOnce DEF Inv, Listed
    <3>5. r.on <=> m.on
      BY <2>1, <3>1, <3>2, <3>3, <3>4
    <3>6. Right(s, m)
      BY <1>15
    <3>7. Right(s, r)
      BY <2>1, <3>2, <3>5, <3>6 DEF Right
    <3> QED BY <3>7, <1>14
  <2> QED BY <2>3, <2>4
<1>18. ASSUME NEW t \in Servers, NEW r \in Steam(mods'[t]) PROVE Right(t, r)'
  <2>1. CASE t # s
    BY <2>1, <1>9, <1>14, <1>15
  <2>2. CASE t = s
    <3>1. r \in Steam(saved) \/ r \in Found(s)
      BY <2>2, <1>8, <1>9 DEF Keeps
    <3> QED BY <2>2, <3>1, <1>14, <1>16, <1>17
  <2> QED BY <2>1, <2>2
<1>19. StatusIsTrue'
  BY <1>18, StatusBySteamNext
<1> QED BY <1>3, <1>12, <1>13, <1>19 DEF Inv

\* A step after which it is not sure of some mods what the game loads of them.
LEMMA DoubtStep ==
  ASSUME Inv, TypeOK', ReadsOnce, UNCHANGED mods,
         NEW s \in Servers, NEW ids, ids \subseteq Items, Unsure(s, ids),
         \A t \in Servers, j \in Items : t # s \/ j \notin ids => (Loads(t, j)' <=> Loads(t, j))
  PROVE  Inv'
<1>1. /\ wanted' = wanted /\ stale' = stale /\ \A t \in Servers : unsure[t] \subseteq unsure'[t]
      /\ ids \subseteq unsure'[s]
  BY DEF Unsure, Inv, TypeOK
<1>2. LoadsAsWanted'
  <2> SUFFICES ASSUME NEW t \in Servers, NEW j \in Items \ unsure'[t]
               PROVE  Loads(t, j)' <=> IsOn(t, j)'
    BY DEF LoadsAsWanted, Loads, IsOn
  <2>1. t # s \/ j \notin ids
    BY <1>1
  <2> QED BY <2>1, <1>1 DEF Inv, LoadsAsWanted, IsOn
<1>3. Listed'
  BY StaysListed DEF Inv, Listed
<1>4. ASSUME NEW t \in Servers, NEW r \in Steam(mods'[t]) PROVE Right(t, r)'
  <2>1. mods[t] \in Seq(Records) /\ r \in Steam(mods[t])
    BY DEF Inv, TypeOK
  <2>2. Right(t, r) /\ r.id \in Items
    BY <2>1, StatusBySteam, SteamIsWorkshop DEF Inv
  <2> QED BY <2>2, <1>1 DEF Right
<1>5. StatusIsTrue'
  BY <1>4, StatusBySteamNext
<1> QED BY <1>2, <1>3, <1>5 DEF Inv

LEMMA PlacesUpdatesStep ==
  ASSUME Inv, NEW s \in Servers, PlacesUpdates(s)
  PROVE  Inv'
<1> DEFINE got == job[s]["task"].got
           ids == {g.id : g \in got}
           AllPlaced == /\ UpdatesPlaced(s, ids)
                        /\ Saves(s, Updated(mods[s], got))
                        /\ wanted' = [wanted EXCEPT ![s] = [i \in Items |-> IF i \in ids THEN SwitchedOn(s, i) ELSE @[i]]]
                        /\ unsure' = [unsure EXCEPT ![s] = @ \ ids]
                        /\ stale' = [stale EXCEPT ![s] = @ \ ids]
           SomePlaced == \E done \in SUBSET ids :
                           UpdatesPlaced(s, done) /\ Unsure(s, ids) /\ UNCHANGED mods
<1>1. TypeOK' /\ Once(mods[s]) /\ mods[s] \in Seq(Records)
  BY PlacesUpdatesType DEF Inv, Listed, TypeOK
<1>2. got \subseteq [id: Workshop, ver: Versions \cup {0}] /\ ids \subseteq Workshop /\ ids \subseteq Items
  BY GotType, KindsApart DEF Inv
<1>3. AllPlaced \/ SomePlaced
  BY DEF PlacesUpdates
<1>4. ReadsOnce
  <2>1. "task" \in Jobs /\ Goes(s, "task", Idle)
    BY DEF Jobs, PlacesUpdates
  <2> QED BY <2>1, EmptyIsOnce, GoesOnce DEF Inv
<1>5. Changes(mods[s], Updated(mods[s], got), ids, OnAgain(ids))
  BY <1>1, <1>2, UpdatedChanges
<1> HIDE DEF got, ids
<1>6. \A t \in Servers : \A r \in Steam(mods[t]) : Right(t, r) /\ r.id \in Workshop /\ r.id \in Items
  <2>1. \A t \in Servers : mods[t] \in Seq(Records)
    BY DEF Inv, TypeOK
  <2> QED BY <2>1, StatusBySteam, SteamIsWorkshop DEF Inv
<1>7. ASSUME NEW done \in SUBSET ids, UpdatesPlaced(s, done)
      PROVE  /\ \A t \in Servers, j \in Items : t # s \/ j \notin done => (Loads(t, j)' <=> Loads(t, j))
             /\ \A j \in done : Loads(s, j)'
  <2>1. \A t \in Servers, j \in Items : t # s \/ j \notin done =>
          files'[t][j] = files[t][j] /\ (j \in active'[t] <=> j \in active[t])
    BY <1>7 DEF UpdatesPlaced, Inv, TypeOK
  <2>2. \A j \in done : files'[s][j] = {cache[s][j]} /\ j \in active'[s]
    BY <1>2, <1>7 DEF UpdatesPlaced, Inv, TypeOK
  <2> QED BY <2>1, <2>2 DEF Loads
<1>8. CASE AllPlaced
  <2>1. /\ \A t \in Servers, j \in Items : t # s \/ j \notin ids => (Loads(t, j)' <=> Loads(t, j))
        /\ \A j \in ids : Loads(s, j)'
    BY <1>7, <1>8
  <2>2. /\ \A t \in Servers, j \in Items : t # s \/ j \notin ids =>
             /\ wanted'[t][j] = wanted[t][j] /\ (j \in unsure[t] => j \in unsure'[t])
             /\ j \in stale[t] => j \in stale'[t]
        /\ \A j \in ids : IsOn(s, j)'
    BY <1>2, <1>8, SwitchedOnType DEF Inv, TypeOK, IsOn
  <2>3. mods'[s] = Updated(mods[s], got) /\ \A t \in Servers \ {s} : mods'[t] = mods[t]
    BY <1>8, SavesElsewhere DEF Inv
  <2>4. LoadsAsWanted'
    <3> SUFFICES ASSUME NEW t \in Servers, NEW j \in Items \ unsure'[t]
                 PROVE  Loads(t, j)' <=> IsOn(t, j)'
      BY DEF LoadsAsWanted, Loads, IsOn
    <3>1. CASE t = s /\ j \in ids
      BY <3>1, <2>1, <2>2
    <3>2. CASE t # s \/ j \notin ids
      BY <3>2, <2>1, <2>2 DEF Inv, LoadsAsWanted, IsOn
    <3> QED BY <3>1, <3>2
  <2>5. Listed'
    BY <1>4, <1>5, <2>3, StaysListed DEF Inv, Changes
  <2>6. ASSUME NEW t \in Servers, NEW r \in Steam(mods'[t]) PROVE Right(t, r)'
    <3>1. CASE t # s
      BY <3>1, <2>1, <2>2, <2>3, <1>6 DEF Right
    <3>2. CASE t = s /\ r \in OnAgain(ids)
      BY <3>2, <2>1 DEF OnAgain, Right
    <3>3. CASE t = s /\ r \notin OnAgain(ids)
      <4>1. r \in Steam(mods[s]) /\ r.id \notin ids
        BY <3>3, <2>3, <1>5 DEF Changes
      <4> QED BY <4>1, <3>3, <2>1, <2>2, <1>6 DEF Right
    <3> QED BY <3>1, <3>2, <3>3
  <2>7. StatusIsTrue'
    BY <2>6, StatusBySteamNext
  <2> QED BY <1>1, <2>4, <2>5, <2>7 DEF Inv
<1>9. CASE SomePlaced
  <2>1. PICK done \in SUBSET ids : UpdatesPlaced(s, done) /\ Unsure(s, ids) /\ UNCHANGED mods
    BY <1>9
  <2>2. \A t \in Servers, j \in Items : t # s \/ j \notin ids => (Loads(t, j)' <=> Loads(t, j))
    BY <1>7, <2>1
  <2> QED BY <1>1, <1>2, <1>4, <2>1, <2>2, DoubtStep
<1> QED BY <1>3, <1>8, <1>9

\* What an action about one mod says of the others.
LEMMA OthersStay ==
  ASSUME Inv, NEW s \in Servers, NEW i \in Items,
         files' = files \/ \E v : Places(s, i, v),
         active' = active \/ \E on : Activates(s, i, on),
         \/ \E what : Wants(s, i, what)
         \/ \E what, done, robbed : Answers(s, i, what, done, robbed)
         \/ Unsure(s, {i})
  PROVE  Elsewhere(s, i)
<1>1. \A t \in Servers, j \in Items : t # s \/ j # i => (Loads(t, j)' <=> Loads(t, j))
  BY PlacesElsewhere DEF Inv
<1>2. \A t \in Servers, j \in Items : t # s \/ j # i =>
           /\ wanted'[t][j] = wanted[t][j]
           /\ j \in unsure[t] => j \in unsure'[t]
           /\ j \in stale[t] => j \in stale'[t]
  BY WantsElsewhere DEF Inv
<1> QED BY <1>1, <1>2 DEF Elsewhere

LEMMA PlacesModStep ==
  ASSUME Inv, NEW s \in Servers, NEW p \in Jobs, NEW i \in Items, PlacesMod(s, p, i)
  PROVE  Inv'
<1> DEFINE new == Installed(i, job[s][p].ver)
           more == IF IsSteam(new) THEN {new} ELSE {}
<1>1. TypeOK' /\ Once(mods[s]) /\ mods[s] \in Seq(Records)
  BY PlacesModType DEF Inv, Listed, TypeOK
<1>2. new \in Records /\ new.id = i /\ new.on = TRUE
  <2>1. job[s][p].ver \in Versions \cup {0}
    BY DEF Inv, TypeOK, Works
  <2> QED BY <2>1, InstalledRecord
<1>3. new.id = i /\ new.on
  BY <1>2
<1>4. Saves(s, Put(mods[s], new))
  BY DEF PlacesMod
<1> HIDE DEF new
<1>5. Changes(mods[s], Put(mods[s], new), {i} \cap Workshop, more)
  BY <1>1, <1>2, <1>3, PutChanges
<1>6. mods'[s] = Put(mods[s], new) /\ \A t \in Servers \ {s} : mods'[t] = mods[t]
  BY <1>4, SavesElsewhere DEF Inv
<1>7. PICK v : Places(s, i, Placed(s, i, v))
  BY DEF PlacesMod
<1>8. Loads(s, i)'
  <2>1. files'[s][i] # {}
    BY <1>7, NowPlaced DEF Inv, Placed, WithFolder
  <2>2. i \in Workshop \cup Packages => i \in active'[s]
    BY NowActive DEF PlacesMod, Inv
  <2> QED BY <2>1, <2>2 DEF Loads
<1>9. Wants(s, i, SwitchedOn(s, i)) /\ IsOn(s, i)'
  <2>1. wanted'[s][i] = SwitchedOn(s, i)
    BY Wanted DEF PlacesMod, Inv
  <2> QED BY <2>1, SwitchedOnType DEF PlacesMod, IsOn
<1>10. active' = active \/ \E on : Activates(s, i, on)
  BY DEF PlacesMod
<1>11. Elsewhere(s, i)
  BY <1>7, <1>9, <1>10, OthersStay
<1>12. ReadsOnce
  BY EmptyIsOnce, GoesOnce DEF Inv, PlacesMod
<1>13. \A r \in more : r.id = i /\ Right(s, r)'
  BY <1>3, <1>8 DEF Right
<1> HIDE DEF more
<1> QED BY <1>1, <1>5, <1>6, <1>8, <1>9, <1>11, <1>12, <1>13, OneModStep

LEMMA PlaceFailsStep ==
  ASSUME Inv, NEW s \in Servers, NEW p \in Jobs, NEW i \in Items, PlaceFails(s, p, i)
  PROVE  Inv'
<1>1. TypeOK'
  BY PlaceFailsType DEF Inv
<1>2. files' = files \/ \E v : Places(s, i, v)
  BY DEF PlaceFails
<1>3. active' = active \/ \E on : Activates(s, i, on)
  BY DEF PlaceFails
<1>4. Unsure(s, {i}) /\ i \in unsure'[s] /\ UNCHANGED mods
  BY NowUnsure DEF PlaceFails, Inv
<1>5. Elsewhere(s, i)
  BY <1>2, <1>3, <1>4, OthersStay
<1>6. ReadsOnce
  BY EmptyIsOnce, GoesOnce DEF Inv, PlaceFails
<1> QED BY <1>1, <1>4, <1>5, <1>6, NoSteamStep

\* The record that a user points at, its mod and the list after it was changed.
LEMMA StatusSaved ==
  ASSUME Inv, NEW s \in Servers, NEW k \in DOMAIN mods[s], NEW on \in BOOLEAN, Status(s, k, on)
  PROVE  /\ \A t \in Servers \ {s} : mods'[t] = mods[t]
         /\ Changes(mods[s], mods'[s], {mods[s][k].id} \cap Workshop, {[mods[s][k] EXCEPT !.on = on]})
         /\ [mods[s][k] EXCEPT !.on = on].id = mods[s][k].id
         /\ [mods[s][k] EXCEPT !.on = on].on = on
<1>1. mods[s] \in Seq(Records) /\ Once(mods[s]) /\ mods[s][k] \in Records
  BY PointsAt DEF Inv, Listed
<1>2. Changes(mods[s], [mods[s] EXCEPT ![k].on = on], {mods[s][k].id}, {[mods[s][k] EXCEPT !.on = on]})
  BY <1>1, StatusChanges
<1>3. mods'[s] = [mods[s] EXCEPT ![k].on = on] /\ \A t \in Servers \ {s} : mods'[t] = mods[t]
  BY SavesElsewhere DEF Inv, Status
<1>4. /\ [mods[s][k] EXCEPT !.on = on].id = mods[s][k].id
      /\ [mods[s][k] EXCEPT !.on = on].on = on
  BY <1>1 DEF Records
<1> QED BY <1>2, <1>3, <1>4 DEF Changes

\* Then the status is right if the mod is unsure or loaded as it says, or is no
\* mod of the Workshop.
LEMMA StatusStep ==
  ASSUME Inv, TypeOK', job' = job, NEW s \in Servers, NEW k \in DOMAIN mods[s],
         NEW on \in BOOLEAN, Status(s, k, on), NEW i, i = mods[s][k].id, Elsewhere(s, i),
         i \in unsure'[s] \/ (Loads(s, i)' <=> IsOn(s, i)'),
         i \in Workshop => i \in unsure'[s] \/ (on <=> Loads(s, i)')
  PROVE  Inv'
<1>0. PICK new : new = [mods[s][k] EXCEPT !.on = on]
  OBVIOUS
<1>1. i \in Items
  BY PointsAt DEF Inv
<1>2. /\ \A t \in Servers \ {s} : mods'[t] = mods[t]
      /\ Changes(mods[s], mods'[s], {i} \cap Workshop, {new})
      /\ new.id = i /\ new.on = on
  <2> DEFINE was == mods[s][k]
             saved == [was EXCEPT !.on = on]
  <2>1. /\ \A t \in Servers \ {s} : mods'[t] = mods[t]
        /\ Changes(mods[s], mods'[s], {was.id} \cap Workshop, {saved})
        /\ saved.id = was.id /\ saved.on = on
    BY StatusSaved
  <2>2. new = saved /\ i = was.id
    BY <1>0
  <2> HIDE DEF was, saved
  <2> QED BY <2>1, <2>2
<1>3. mods'[s] \in Seq(Records)
  BY <1>2 DEF Changes
<1> DEFINE more == {r \in {new} : i \in Workshop}
<1>4. Changes(mods[s], mods'[s], {i} \cap Workshop, more)
  <2>1. \A r \in Steam(mods'[s]) : r.id \in Workshop
    BY <1>3, SteamIsWorkshop
  <2> QED BY <1>2, <2>1 DEF Changes
<1>5. \A r \in more : r.id = i /\ Right(s, r)'
  BY <1>2 DEF Right
<1> HIDE DEF more
<1>6. ReadsOnce
  BY SameReads
<1> QED BY <1>1, <1>2, <1>4, <1>5, <1>6, OneModStep

LEMMA EnableStep ==
  ASSUME Inv, NEW s \in Servers, NEW k \in DOMAIN mods[s], Enable(s, k)
  PROVE  Inv'
<1>0. PICK r : r = mods[s][k]
  OBVIOUS
<1>i. PICK i : i = r.id
  OBVIOUS
<1>1. TypeOK' /\ TypeOK /\ i \in Items
  BY <1>0, <1>i, EnableType, PointsAt DEF Inv, Listed
<1>2. Status(s, k, TRUE) /\ job' = job
  BY DEF Enable
<1>3. \/ /\ i \in Workshop /\ Activates(s, i, TRUE) /\ Answers(s, i, "on", files[s][i] # {}, {})
         /\ UNCHANGED files
      \/ /\ Moved(r) /\ Places(s, i, files[s][i] \cup {InFolder})
         /\ Answers(s, i, "on", TRUE, Owner(s, i)) /\ UNCHANGED active
      \/ Answers(s, i, "on", Loads(s, i), {}) /\ i \notin Workshop /\ UNCHANGED <<active, files>>
  BY <1>0, <1>i DEF Enable
<1>4. Elsewhere(s, i)
  BY <1>1, <1>3, OthersStay
<1>5. i \in unsure'[s] \/ (Loads(s, i)' /\ IsOn(s, i)')
  <2>1. CASE /\ i \in Workshop /\ Activates(s, i, TRUE) /\ Answers(s, i, "on", files[s][i] # {}, {})
             /\ UNCHANGED files
    <3>1. i \in active'[s]
      BY <1>1, <2>1, NowActive
    <3>2. wanted'[s][i] = "on" /\ (files[s][i] # {} \/ i \in unsure'[s])
      BY <1>1, <2>1, Answered
    <3> QED BY <2>1, <3>1, <3>2 DEF Loads, IsOn
  <2>2. CASE /\ Moved(r) /\ Places(s, i, files[s][i] \cup {InFolder})
             /\ Answers(s, i, "on", TRUE, Owner(s, i)) /\ UNCHANGED active
    <3>1. files'[s][i] # {}
      BY <1>1, <2>2, NowPlaced
    <3>2. wanted'[s][i] = "on"
      BY <1>1, <2>2, Answered
    <3>3. i \notin Workshop \cup Packages
      BY <1>i, <2>2, CopiesAre DEF Moved
    <3> QED BY <3>1, <3>2, <3>3 DEF Loads, IsOn
  <2>3. CASE Answers(s, i, "on", Loads(s, i), {}) /\ UNCHANGED <<active, files>>
    <3>1. Loads(s, i) \in BOOLEAN
      BY DEF Loads
    <3>2. wanted'[s][i] = "on" /\ (Loads(s, i) \/ i \in unsure'[s])
      BY <1>1, <2>3, <3>1, Answered
    <3> QED BY <2>3, <3>2 DEF Loads, IsOn
  <2> QED BY <1>3, <2>1, <2>2, <2>3
<1>6. i = mods[s][k].id
  BY <1>0, <1>i
<1> QED BY <1>1, <1>2, <1>4, <1>5, <1>6, StatusStep

LEMMA DisableStep ==
  ASSUME Inv, NEW s \in Servers, NEW k \in DOMAIN mods[s], Disable(s, k)
  PROVE  Inv'
<1>0. PICK r : r = mods[s][k]
  OBVIOUS
<1>i. PICK i : i = r.id
  OBVIOUS
<1>1. TypeOK' /\ TypeOK /\ i \in Items
  BY <1>0, <1>i, DisableType, PointsAt DEF Inv, Listed
<1>2. Status(s, k, FALSE) /\ job' = job
  BY DEF Disable
<1>3. \/ /\ i \in Workshop /\ Activates(s, i, FALSE) /\ Answers(s, i, "off", TRUE, {})
         /\ UNCHANGED files
      \/ /\ Places(s, i, files[s][i] \ {InFolder})
         /\ Answers(s, i, "off", files[s][i] = {InFolder}, Owner(s, i)) /\ UNCHANGED active
      \/ Answers(s, i, "off", ~Loads(s, i), {}) /\ UNCHANGED <<active, files>>
  BY <1>0, <1>i DEF Disable
<1>4. Elsewhere(s, i)
  BY <1>1, <1>3, OthersStay
<1>5. wanted'[s][i] = "off" /\ (i \in unsure'[s] \/ ~Loads(s, i)')
  <2>1. CASE i \in Workshop /\ Activates(s, i, FALSE) /\ Answers(s, i, "off", TRUE, {})
    <3>1. i \notin active'[s]
      BY <1>1, <2>1, NowActive
    <3>2. wanted'[s][i] = "off"
      BY <1>1, <2>1, Answered
    <3> QED BY <2>1, <3>1, <3>2 DEF Loads
  <2>2. CASE /\ Places(s, i, files[s][i] \ {InFolder})
             /\ Answers(s, i, "off", files[s][i] = {InFolder}, Owner(s, i))
    <3>1. files'[s][i] = files[s][i] \ {InFolder}
      BY <1>1, <2>2, NowPlaced
    <3>2. wanted'[s][i] = "off" /\ (files[s][i] = {InFolder} \/ i \in unsure'[s])
      BY <1>1, <2>2, Answered
    <3> QED BY <3>1, <3>2 DEF Loads
  <2>3. CASE Answers(s, i, "off", ~Loads(s, i), {}) /\ UNCHANGED <<active, files>>
    <3>1. wanted'[s][i] = "off" /\ (~Loads(s, i) \/ i \in unsure'[s])
      BY <1>1, <2>3, Answered
    <3> QED BY <2>3, <3>1 DEF Loads
  <2> QED BY <1>3, <2>1, <2>2, <2>3
<1>6. ~IsOn(s, i)' /\ i = mods[s][k].id
  BY <1>0, <1>i, <1>5 DEF IsOn
<1> QED BY <1>1, <1>2, <1>4, <1>5, <1>6, StatusStep

LEMMA RemoveModStep ==
  ASSUME Inv, NEW s \in Servers, NEW k \in DOMAIN mods[s], RemoveMod(s, k)
  PROVE  Inv'
<1>0. PICK r : r = mods[s][k]
  OBVIOUS
<1>i. PICK i : i = r.id
  OBVIOUS
<1>1. TypeOK' /\ TypeOK /\ i \in Items
  BY <1>0, <1>i, RemoveModType, PointsAt DEF Inv, Listed
<1>3. \/ /\ i \in Workshop /\ Activates(s, i, FALSE) /\ Answers(s, i, "out", TRUE, {})
         /\ Places(s, i, {})
      \/ /\ Places(s, i, files[s][i] \ {InFolder})
         /\ Answers(s, i, "out", files[s][i] \subseteq {InFolder}, Owner(s, i)) /\ UNCHANGED active
      \/ Answers(s, i, "out", ~Loads(s, i), {}) /\ UNCHANGED <<active, files>>
  BY <1>0, <1>i DEF RemoveMod
<1>4. Elsewhere(s, i)
  BY <1>1, <1>3, OthersStay
<1>5. wanted'[s][i] = "out" /\ (i \in unsure'[s] \/ ~Loads(s, i)')
  <2>1. CASE Answers(s, i, "out", TRUE, {}) /\ Places(s, i, {})
    <3>1. files'[s][i] = {}
      BY <1>1, <2>1, NowPlaced
    <3>2. wanted'[s][i] = "out"
      BY <1>1, <2>1, Answered
    <3> QED BY <2>1, <3>1, <3>2 DEF Loads
  <2>2. CASE /\ Places(s, i, files[s][i] \ {InFolder})
             /\ Answers(s, i, "out", files[s][i] \subseteq {InFolder}, Owner(s, i))
    <3>1. files'[s][i] = files[s][i] \ {InFolder}
      BY <1>1, <2>2, NowPlaced
    <3>2. wanted'[s][i] = "out" /\ (files[s][i] \subseteq {InFolder} \/ i \in unsure'[s])
      BY <1>1, <2>2, Answered
    <3> QED BY <3>1, <3>2 DEF Loads
  <2>3. CASE Answers(s, i, "out", ~Loads(s, i), {}) /\ UNCHANGED <<active, files>>
    <3>1. wanted'[s][i] = "out" /\ (~Loads(s, i) \/ i \in unsure'[s])
      BY <1>1, <2>3, Answered
    <3> QED BY <2>3, <3>1 DEF Loads
  <2> QED BY <1>3, <2>1, <2>2, <2>3
<1>6. ~IsOn(s, i)' /\ i = mods[s][k].id
  BY <1>0, <1>i, <1>5 DEF IsOn
<1>7. mods[s] \in Seq(Records) /\ Once(mods[s])
  BY DEF Inv, Listed, TypeOK
<1>8. Changes(mods[s], Without(mods[s], k), {i}, {})
  BY <1>6, <1>7, WithoutChanges
<1>9. mods'[s] = Without(mods[s], k) /\ \A t \in Servers \ {s} : mods'[t] = mods[t]
  BY SavesElsewhere DEF Inv, RemoveMod
<1>10. Changes(mods[s], mods'[s], {i} \cap Workshop, {})
  BY <1>8, <1>9 DEF Changes
<1>11. ReadsOnce
  BY SameReads DEF RemoveMod
<1> QED BY <1>1, <1>4, <1>5, <1>6, <1>9, <1>10, <1>11, NothingNewStep

LEMMA RequestFailsStep ==
  ASSUME Inv, NEW s \in Servers, NEW k \in DOMAIN mods[s], RequestFails(s, k)
  PROVE  Inv'
<1>0. PICK r : r = mods[s][k]
  OBVIOUS
<1>i. PICK i : i = r.id
  OBVIOUS
<1>1. TypeOK' /\ TypeOK /\ i \in Items /\ UNCHANGED mods
  BY <1>0, <1>i, RequestFailsType, PointsAt DEF Inv, RequestFails
<1>2. \/ /\ Activates(s, i, FALSE) /\ (\E left : Places(s, i, left)) /\ Unsure(s, {i})
      \/ /\ Moved(r) /\ (\E left : Places(s, i, left)) /\ UNCHANGED active
         /\ Answers(s, i, wanted[s][i], FALSE, Owner(s, i))
  BY <1>0, <1>i DEF RequestFails
<1>3. Elsewhere(s, i)
  BY <1>1, <1>2, OthersStay
<1>4. i \in unsure'[s]
  BY <1>1, <1>2, NowUnsure, Answered
<1>5. ReadsOnce
  BY SameReads DEF RequestFails
<1> QED BY <1>1, <1>3, <1>4, <1>5, NoSteamStep

LEMMA ConfirmUploadStep ==
  ASSUME Inv, NEW s \in Servers, NEW i \in Items, NEW known \in BOOLEAN,
         ConfirmUpload(s, i, known)
  PROVE  Inv'
<1> DEFINE new == Record(i, IF known THEN "nexus" ELSE "manual", TRUE, latest[i])
           list == IF known THEN Put(mods[s], new) ELSE Append(mods[s], new)
<1>1. TypeOK' /\ Once(mods[s]) /\ mods[s] \in Seq(Records)
  BY ConfirmUploadType DEF Inv, Listed, TypeOK
<1>2. new \in Records /\ ~IsSteam(new) /\ new.id = i
  BY UploadRecord DEF ConfirmUpload, Inv
<1>3. \/ /\ Places(s, i, WithFolder(s, i, InFolder)) /\ Saves(s, list) /\ Wants(s, i, "on")
      \/ /\ \E left : Places(s, i, left)
         /\ Unsure(s, {i}) /\ UNCHANGED mods
  BY DEF ConfirmUpload
<1>4. i \notin Workshop /\ i \notin Packages /\ active' = active
  BY CopiesAre DEF ConfirmUpload
<1> HIDE DEF new
<1>5. Changes(mods[s], list, {i} \cap Workshop, {})
  <2>1. Changes(mods[s], Put(mods[s], new), {i} \cap Workshop, {})
    BY <1>1, <1>2, PutChanges
  <2>2. Changes(mods[s], Append(mods[s], new), {}, {})
    BY <1>1, <1>2, AppendChanges
  <2> QED BY <1>4, <2>1, <2>2
<1> HIDE DEF list
<1>6. Elsewhere(s, i)
  BY <1>3, <1>4, OthersStay
<1>7. ReadsOnce
  BY SameReads DEF ConfirmUpload
<1>8. CASE (\E left : Places(s, i, left)) /\ Unsure(s, {i}) /\ UNCHANGED mods
  <2>1. i \in unsure'[s]
    BY <1>8, NowUnsure DEF Inv
  <2> QED BY <1>1, <1>6, <1>7, <1>8, <2>1, NoSteamStep
<1>9. CASE Places(s, i, WithFolder(s, i, InFolder)) /\ Saves(s, list) /\ Wants(s, i, "on")
  <2>1. mods'[s] = list /\ \A t \in Servers \ {s} : mods'[t] = mods[t]
    BY <1>9, SavesElsewhere DEF Inv
  <2>2. files'[s][i] # {}
    BY <1>9, NowPlaced DEF Inv, WithFolder
  <2>3. wanted'[s][i] = "on"
    BY <1>9, Wanted DEF Inv
  <2>4. Loads(s, i)' /\ IsOn(s, i)'
    BY <1>4, <2>2, <2>3 DEF Loads, IsOn
  <2> QED BY <1>1, <1>5, <1>6, <1>7, <2>1, <2>4, NothingNewStep
<1> QED BY <1>3, <1>8, <1>9

LEMMA UninstallStep ==
  ASSUME Inv, NEW s \in Servers, NEW k \in DOMAIN mods[s], Uninstall(s, k)
  PROVE  Inv'
<1>0. PICK i : i = mods[s][k].id
  OBVIOUS
<1>1. TypeOK' /\ i \in Items
  BY <1>0, UninstallType, PointsAt DEF Inv, Listed
<1>2. mods[s] \in Seq(Records) /\ Once(mods[s]) /\ mods[s][k] \in Records
  BY PointsAt DEF Inv, Listed
<1>3. i \notin Workshop
  BY <1>0, <1>2 DEF Uninstall, Records, IsSteam, IsNexus
<1>4. PICK left : \/ /\ Places(s, i, left) /\ Answers(s, i, "out", i \in Packages \/ left = {}, {})
                     /\ Saves(s, Without(mods[s], k))
                  \/ /\ \E some : Places(s, i, some)
                     /\ Unsure(s, {i}) /\ UNCHANGED mods
  BY <1>0 DEF Uninstall
<1>5. active' = active \/ \E on : Activates(s, i, on)
  BY <1>0 DEF Uninstall, Deactivates
<1>6. Elsewhere(s, i)
  BY <1>1, <1>4, <1>5, OthersStay
<1>7. ReadsOnce
  BY SameReads DEF Uninstall
<1>8. CASE Unsure(s, {i}) /\ UNCHANGED mods
  <2>1. i \in unsure'[s]
    BY <1>8, NowUnsure DEF Inv
  <2> QED BY <1>1, <1>3, <1>6, <1>7, <1>8, <2>1, NoSteamStep
<1>9. CASE /\ Places(s, i, left) /\ Answers(s, i, "out", i \in Packages \/ left = {}, {})
           /\ Saves(s, Without(mods[s], k))
  <2>1. wanted'[s][i] = "out" /\ (i \in Packages \/ left = {} \/ i \in unsure'[s])
    BY <1>1, <1>9, Answered DEF Inv
  <2>2. i \in unsure'[s] \/ ~Loads(s, i)'
    <3>1. CASE i \in Packages
      <4>1. i \notin active'[s]
        BY <1>0, <1>1, <3>1, NowActive DEF Uninstall, Deactivates, Inv
      <4> QED BY <3>1, <4>1 DEF Loads
    <3>2. CASE left = {}
      <4>1. files'[s][i] = {}
        BY <1>1, <1>9, <3>2, NowPlaced DEF Inv
      <4> QED BY <4>1 DEF Loads
    <3> QED BY <2>1, <3>1, <3>2
  <2>3. ~IsOn(s, i)'
    BY <2>1 DEF IsOn
  <2>4. Changes(mods[s], Without(mods[s], k), {i}, {})
    BY <1>0, <1>2, WithoutChanges
  <2>5. mods'[s] = Without(mods[s], k) /\ \A t \in Servers \ {s} : mods'[t] = mods[t]
    BY <1>9, SavesElsewhere DEF Inv
  <2>6. Changes(mods[s], mods'[s], {i} \cap Workshop, {})
    BY <2>4, <2>5 DEF Changes
  <2> QED BY <1>1, <1>6, <1>7, <2>2, <2>3, <2>5, <2>6, NothingNewStep
<1> QED BY <1>4, <1>8, <1>9

LEMMA RestartStep ==
  ASSUME Inv, Restart
  PROVE  Inv'
<1>1. TypeOK' /\ UNCHANGED mods
  BY RestartType DEF Inv, Restart
<1>2. ReadsOnce
  BY EmptyIsOnce DEF ReadsOnce, Restart
<1>3. CASE UNCHANGED <<active, root, files, rollback, History>>
  BY <1>1, <1>2, <1>3, QuietStep, WishesStay DEF History
<1>4. ASSUME NEW s \in Servers, NEW p \in Jobs, NEW i \in Items, CutOff(s, p, i)
      PROVE  Inv'
  <2>1. Unsure(s, {i}) /\ \E v : Places(s, i, v)
    BY <1>4 DEF CutOff
  <2>2. active' = active \/ \E on : Activates(s, i, on)
    BY <1>4 DEF CutOff
  <2>3. \A t \in Servers, j \in Items : t # s \/ j \notin {i} => (Loads(t, j)' <=> Loads(t, j))
    BY <2>1, <2>2, PlacesElsewhere DEF Inv
  <2> QED BY <1>1, <1>2, <2>1, <2>3, DoubtStep
<1>5. ASSUME NEW s \in Servers, UpdatesCutOff(s) PROVE Inv'
  <2> DEFINE ids == {g.id : g \in job[s]["task"].got}
  <2>1. ids \subseteq Items
    BY GotType, KindsApart DEF Inv
  <2>2. PICK done \in SUBSET ids, cut \in SUBSET ids, half \in {{}, {Torn}} : LeftHalfWay(s, ids, done, cut, half)
    BY <1>5, UpdatesLeft
  <2> HIDE DEF ids
  <2>3. \A t \in Servers, j \in Items : t # s \/ j \notin ids =>
          files'[t][j] = files[t][j] /\ (j \in active'[t] <=> j \in active[t])
    BY <2>2 DEF LeftHalfWay, Inv, TypeOK
  <2>4. \A t \in Servers, j \in Items : t # s \/ j \notin ids => (Loads(t, j)' <=> Loads(t, j))
    BY <2>3 DEF Loads
  <2>5. Unsure(s, ids)
    BY <2>2 DEF LeftHalfWay
  <2> QED BY <1>1, <1>2, <2>1, <2>4, <2>5, DoubtStep
<1> QED BY <1>3, <1>4, <1>5 DEF Restart

LEMMA InitInv == Init => Inv
<1> SUFFICES ASSUME Init PROVE Inv
  OBVIOUS
<1>1. LoadsAsWanted
  BY DEF Init, LoadsAsWanted, Loads
<1>2. Listed
  BY EmptyIsOnce DEF Init, Listed
<1>3. StatusIsTrue
  BY DEF Init, StatusIsTrue
<1> QED BY <1>1, <1>2, <1>3, InitType DEF Inv

LEMMA StutterStep == ASSUME Inv, UNCHANGED vars PROVE Inv'
BY DEF Inv, TypeOK, LoadsAsWanted, Loads, Listed, StatusIsTrue, vars

LEMMA PageStepInv ==
  ASSUME Inv, NEW s \in Servers, PageStep(s) PROVE Inv'
BY NextUpdateStep, PlacesUpdatesStep, DownloadsStep, OpenPageStep, RescanStep, UninstallMissingStep,
   EnableStep, DisableStep, RemoveModStep, RequestFailsStep, UninstallStep, ConfirmUploadStep
   DEF PageStep

LEMMA JobStepInv ==
  ASSUME Inv, NEW s \in Servers, NEW p \in Jobs, JobStep(s, p) PROVE Inv'
BY InstallBeginsStep, GetsDetailsStep, PlacesModStep, PlaceFailsStep, CheckBeginsStep,
   CheckEndsStep, JobFailsStep
   DEF JobStep

LEMMA NextInv == Inv /\ [Next]_vars => Inv'
<1> SUFFICES ASSUME Inv, [Next]_vars PROVE Inv'
  OBVIOUS
<1>1. ASSUME NEW s \in Servers, PageStep(s) \/ \E p \in Jobs : JobStep(s, p) PROVE Inv'
  BY <1>1, PageStepInv, JobStepInv
<1>2. CASE Restart
  BY <1>2, RestartStep
<1>3. ASSUME NEW i \in Items, NewVersion(i) PROVE Inv'
  BY <1>3, NewVersionStep
<1>4. CASE UNCHANGED vars
  BY <1>4, StutterStep
<1> QED BY <1>1, <1>2, <1>3, <1>4 DEF Next

LEMMA Invariant == Spec => []Inv
BY InitInv, NextInv, PTL DEF Spec

\* Every list holds records, and every record of a Workshop mod is from Steam.
THEOREM TypesHold == Spec => []TypeOK
<1>1. Inv => TypeOK
  BY DEF Inv
<1> QED BY <1>1, Invariant, PTL

\* The game loads what users last asked for, or what a task has switched on since,
\* unless a fault, a neighbour or a request that was not carried out was in between
\* (pal_mod_settings.py: set_enabled; mod_installer.py: enable, disable, remove).
THEOREM GameFollowsUsers == Spec => []LoadsAsWanted
<1>1. Inv => LoadsAsWanted
  BY DEF Inv
<1> QED BY <1>1, Invariant, PTL

\* The status of a Workshop mod is what the game does, unless an outdated check has
\* written it or a removal or an install has failed half-way (steam_workshop.py:
\* check_updates, remove).
THEOREM StatusFollowsGame == Spec => []StatusIsTrue
<1>1. Inv => StatusIsTrue
  BY DEF Inv
<1> QED BY <1>1, Invariant, PTL

-----------------------------------------------------------------------------
(* What a scan lists                                                        *)

LEMMA AtMostOne ==
  ASSUME NEW T, \A a, b \in T : a = b
  PROVE  Cardinality(T) <= 1
<1>1. CASE T = {}
  BY <1>1, FS_EmptySet
<1>2. CASE T # {}
  <2>1. PICK a : a \in T
    BY <1>2
  <2>2. T = {a}
    BY <2>1
  <2> QED BY <2>2, FS_Singleton
<1> QED BY <1>1, <1>2

\* Adding records takes no mod out of the list, and lists the new ones.
LEMMA AddsIds ==
  ASSUME NEW list \in Seq(Records), NEW new, new \subseteq Records
  PROVE  /\ NexusIds(list) \subseteq NexusIds(list \o SetToSeq(new))
         /\ \A r \in new : IsNexus(r) => r.id \in NexusIds(list \o SetToSeq(new))
<1> DEFINE sum == list \o SetToSeq(new)
<1>1. /\ \A k \in DOMAIN list : k \in DOMAIN sum /\ sum[k] = list[k]
      /\ \A r \in new : \E k \in DOMAIN sum : sum[k] = r
  BY AddsAll
<1> HIDE DEF sum
<1>2. NexusIds(list) \subseteq NexusIds(sum) /\ \A r \in new : IsNexus(r) => r.id \in NexusIds(sum)
  BY <1>1 DEF NexusIds
<1> QED BY <1>2 DEF sum

\* A package with a whole copy in its folder is listed: by the record that names
\* this copy, or by a new one.
LEMMA PackagesListed ==
  ASSUME NEW s \in Servers, NEW list \in Seq(Records),
         \A i \in Packages : files[s][i] \subseteq Versions \cup {Torn}
  PROVE  /\ NexusIds(list) \subseteq NexusIds(WithPackages(s, list))
         /\ \A i \in Packages : files[s][i] \ {Torn} # {} => i \in NexusIds(WithPackages(s, list))
<1> DEFINE new == OfPackages(s, Untracked(s, list))
<1>1. /\ WithPackages(s, list) = list \o SetToSeq(new)
      /\ new \subseteq Records /\ \A r \in new : IsNexus(r)
  BY PackageRecords
<1>2. ASSUME NEW i \in Packages, files[s][i] \ {Torn} # {}
      PROVE  i \in NexusIds(list) \/ \E r \in new : r.id = i
  <2>1. PICK v \in Versions : v \in files[s][i]
    BY <1>2
  <2>2. CASE Tracked(list, i, v)
    <3>1. PICK k \in DOMAIN list : list[k].id = i
      BY <2>2 DEF Tracked
    <3>2. IsNexus(list[k])
      BY <3>1 DEF Records, IsNexus
    <3> QED BY <3>1, <3>2 DEF NexusIds
  <2>3. CASE ~Tracked(list, i, v)
    <3> DEFINE r == [id |-> i, ver |-> v]
    <3>1. r \in Untracked(s, list) /\ r.id = i
      BY <2>1, <2>3 DEF Untracked
    <3>2. Record(r.id, "nexus", r.id \in active[s], r.ver) \in new
      BY <3>1 DEF OfPackages
    <3> QED BY <3>1, <3>2, RecordFields
  <2> QED BY <2>2, <2>3
<1> HIDE DEF new
<1>3. /\ NexusIds(list) \subseteq NexusIds(list \o SetToSeq(new))
      /\ \A r \in new : r.id \in NexusIds(list \o SetToSeq(new))
  BY <1>1, AddsIds
<1> QED BY <1>1, <1>2, <1>3

LEMMA UnknownIds ==
  ASSUME NEW list \in Seq(Records), NEW ids, ids \subseteq OnDisk, NEW x \in Spots
  PROVE  NexusIds(list) \cup ids \subseteq NexusIds(list \o SetToSeq(Unknown(ids, x)))
<1> DEFINE new == Unknown(ids, x)
<1>1. new \subseteq Records
  BY UnknownRecords
<1>2. ASSUME NEW i \in ids PROVE \E r \in new : IsNexus(r) /\ r.id = i
  <2>1. FoundAt(i, x) \in new
    BY DEF Unknown
  <2>2. IsNexus(FoundAt(i, x)) /\ FoundAt(i, x).id = i
    BY FoundRecord
  <2> QED BY <2>1, <2>2
<1> HIDE DEF new
<1>3. /\ NexusIds(list) \subseteq NexusIds(list \o SetToSeq(new))
      /\ \A r \in new : IsNexus(r) => r.id \in NexusIds(list \o SetToSeq(new))
  BY <1>1, AddsIds
<1>4. ids \subseteq NexusIds(list \o SetToSeq(new))
  BY <1>2, <1>3
<1> QED BY <1>3, <1>4 DEF new

LEMMA FoldersListed ==
  ASSUME NEW s \in Servers, NEW list \in Seq(Records)
  PROVE  NexusIds(list) \cup FoldersThere(s) \subseteq NexusIds(WithFolders(s, list))
<1> DEFINE ids == FoldersThere(s) \ NexusIds(list)
<1>1. ids \subseteq OnDisk /\ InFolder \in Spots
  BY DEF FoldersThere, OnDisk, Spots
<1>2. WithFolders(s, list) = list \o SetToSeq(Unknown(ids, InFolder))
  BY DEF WithFolders
<1>3. FoldersThere(s) \subseteq NexusIds(list) \cup ids
  OBVIOUS
<1> HIDE DEF ids
<1>4. NexusIds(list) \cup ids \subseteq NexusIds(list \o SetToSeq(Unknown(ids, InFolder)))
  BY <1>1, UnknownIds
<1> QED BY <1>2, <1>3, <1>4

\* Every PAK file of a place is listed: by a record that claims it, or by a new one.
LEMMA PlaceListed ==
  ASSUME NEW s \in Servers, NEW list \in Seq(Records), NEW x \in Spots
  PROVE  NexusIds(list) \cup PaksThere(s, x) \subseteq NexusIds(WithPlace(s, list, x))
<1> DEFINE seen == PlaceSeen(s, list, x)
           ids == PlaceNew(s, list, x)
<1>1. /\ WithPlace(s, list, x) = seen \o SetToSeq(Unknown(ids, x))
      /\ ids \subseteq OnDisk
      /\ Keeps(list, seen, {}) /\ NexusIds(seen) = NexusIds(list)
  BY PlaceParts
<1>2. {list[k].id : k \in {j \in DOMAIN list : Claims(list[j], x)}} \subseteq NexusIds(list)
  BY DEF Claims, NexusIds
<1>3. PaksThere(s, x) \subseteq NexusIds(list) \cup ids
  BY <1>2 DEF PlaceNew
<1> HIDE DEF seen, ids
<1>4. seen \in Seq(Records)
  BY <1>1 DEF Keeps
<1>5. NexusIds(seen) \cup ids \subseteq NexusIds(seen \o SetToSeq(Unknown(ids, x)))
  BY <1>1, <1>4, UnknownIds
<1> QED BY <1>1, <1>3, <1>5

LEMMA PaksListed ==
  ASSUME NEW s \in Servers, NEW list \in Seq(Records)
  PROVE  (NexusIds(list) \cup PaksThere(s, Loose)) \cup PaksThere(s, InFolder)
           \subseteq NexusIds(WithPaks(s, list))
<1> DEFINE one == WithPlace(s, list, Loose)
<1>1. Loose \in Spots /\ InFolder \in Spots
  BY DEF Spots
<1>2. one \in Seq(Records)
  BY <1>1, PlaceKeeps
<1>3. NexusIds(list) \cup PaksThere(s, Loose) \subseteq NexusIds(one)
  BY <1>1, PlaceListed
<1>4. WithPaks(s, list) = WithPlace(s, one, InFolder)
  BY DEF WithPaks
<1> HIDE DEF one
<1>5. NexusIds(one) \cup PaksThere(s, InFolder) \subseteq NexusIds(WithPlace(s, one, InFolder))
  BY <1>1, <1>2, PlaceListed
<1> QED BY <1>3, <1>4, <1>5

\* The first of the records of a mod stays, so that the mod does.
LEMMA FirstStays ==
  ASSUME NEW list \in Seq(Records), NEW k \in DOMAIN list, IsNexus(list[k])
  PROVE  \E j \in FirstPlaces(list) : IsNexus(list[j]) /\ list[j].id = list[k].id
<1> DEFINE same == {j \in DOMAIN list : IsNexus(list[j]) /\ list[j].id = list[k].id}
<1>1. DOMAIN list = 1..Len(list) /\ Len(list) \in Nat
  OBVIOUS
<1>2. same \subseteq Nat /\ k \in same
  BY <1>1
<1>3. PICK m \in same : \A n \in same : m <= n
  BY <1>2, Least
<1>4. ~\E j \in 1..(m - 1) : Same(list[j], list[m])
  <2> SUFFICES ASSUME NEW j \in 1..(m - 1), Same(list[j], list[m]) PROVE FALSE
    OBVIOUS
  <2>1. m \in 1..Len(list) /\ j \in 1..Len(list) /\ ~(m <= j)
    BY <1>1
  <2>2. IsNexus(list[j]) /\ list[j].id = list[m].id
    BY DEF Same
  <2>3. j \in same
    BY <1>1, <2>1, <2>2
  <2> QED BY <1>3, <2>1, <2>3
<1> QED BY <1>3, <1>4 DEF FirstPlaces

\* Two records of a package, or of a mod whose files have its name, are the same.
LEMMA NamedAreSame ==
  ASSUME NEW q \in Records, NEW r \in Records, IsNexus(q), IsNexus(r), q.id = r.id,
         q.id \in Packages \cup Named
  PROVE  Same(q, r)
<1>1. CASE q.id \in Packages
  BY <1>1 DEF Same, Records
<1>2. CASE q.id \in Named
  BY <1>2 DEF Same, HasMods, HasName
<1> QED BY <1>1, <1>2

\* Deduplicated takes no mod out of the list, and leaves no package, and no mod
\* whose files have its name, there twice.
LEMMA DeduplicatedLists ==
  ASSUME NEW s \in Servers, NEW list \in Seq(Records)
  PROVE  LET new == Deduplicated(s, list) IN
         /\ NexusIds(list) \subseteq NexusIds(new)
         /\ \A a, b \in DOMAIN new :
              IsNexus(new[a]) /\ IsNexus(new[b]) /\ new[a].id = new[b].id
                /\ new[a].id \in Packages \cup Named => a = b
<1> DEFINE rich == Rich(s, list)
           all == MergedAll(rich)
           places == FirstPlaces(rich)
           new == Deduplicated(s, list)
<1>1. new = Only(all, places)
  BY DeduplicatedIs
<1>2. /\ rich \in Seq(Records) /\ DOMAIN rich = DOMAIN list
      /\ \A k \in DOMAIN list : rich[k].id = list[k].id /\ (IsNexus(rich[k]) <=> IsNexus(list[k]))
  BY RichKeeps DEF Keeps
<1> HIDE DEF rich, new
<1>3. /\ all \in Seq(Records) /\ DOMAIN all = DOMAIN rich
      /\ \A k \in DOMAIN rich : all[k].id = rich[k].id /\ (IsNexus(all[k]) <=> IsNexus(rich[k]))
  BY <1>2, MergedKeeps DEF Keeps
<1>4. places \subseteq DOMAIN rich
  BY DEF FirstPlaces
<1>5. ASSUME NEW k \in DOMAIN rich, IsNexus(rich[k])
      PROVE  \E j \in places : IsNexus(rich[j]) /\ rich[j].id = rich[k].id
  BY <1>2, <1>5, FirstStays
<1>6. ASSUME NEW j \in places, NEW k \in places, Same(rich[j], rich[k]), Same(rich[k], rich[j])
      PROVE  j = k
  <2>1. j \in 1..Len(rich) /\ k \in 1..Len(rich) /\ Len(rich) \in Nat
    BY <1>2, <1>4
  <2>2. ~(j \in 1..(k - 1)) /\ ~(k \in 1..(j - 1))
    BY <1>6 DEF FirstPlaces
  <2> QED BY <2>1, <2>2
<1> HIDE DEF all, places
<1>7. PICK h : Comes(h, new, all, places)
  BY <1>1, <1>3, <1>4, OnlyThese
<1>8. NexusIds(list) \subseteq NexusIds(new)
  <2> SUFFICES ASSUME NEW k \in DOMAIN list, IsNexus(list[k]) PROVE list[k].id \in NexusIds(new)
    BY DEF NexusIds
  <2>1. PICK j \in places : IsNexus(rich[j]) /\ rich[j].id = list[k].id
    BY <1>2, <1>5
  <2>2. PICK a \in DOMAIN new : h[a] = j /\ new[a] = all[j]
    BY <1>7 DEF Comes
  <2>3. IsNexus(new[a]) /\ new[a].id = list[k].id
    BY <1>3, <1>4, <2>1, <2>2
  <2> QED BY <2>3 DEF NexusIds
<1>9. ASSUME NEW a \in DOMAIN new, NEW b \in DOMAIN new, IsNexus(new[a]), IsNexus(new[b]),
             new[a].id = new[b].id, new[a].id \in Packages \cup Named
      PROVE  a = b
  <2> DEFINE j == h[a]
             k == h[b]
  <2>1. j \in places /\ k \in places /\ new[a] = all[j] /\ new[b] = all[k] /\ (j = k => a = b)
    BY <1>7, <1>9 DEF Comes
  <2> HIDE DEF j, k
  <2>2. rich[j] \in Records /\ rich[k] \in Records
    BY <1>2, <1>4, <2>1
  <2>3. /\ IsNexus(rich[j]) /\ IsNexus(rich[k]) /\ rich[j].id = rich[k].id
        /\ rich[j].id \in Packages \cup Named
    BY <1>3, <1>4, <1>9, <2>1
  <2>4. Same(rich[j], rich[k]) /\ Same(rich[k], rich[j])
    BY <2>2, <2>3, NamedAreSame
  <2> QED BY <1>6, <2>1, <2>4
<1> QED BY <1>8, <1>9 DEF new

LEMMA RescanLists ==
  ASSUME Inv, NEW s \in Servers, Rescan(s)
  PROVE  ListedOnce'
<1> DEFINE a == WithPackages(s, mods[s])
           b == WithFolders(s, a)
           c == WithPaks(s, b)
           list == Deduplicated(s, c)
<1>1. mods[s] \in Seq(Records) /\ \A i \in Items : files[s][i] \subseteq Copies(i)
  BY DEF Inv, TypeOK
<1>2. scanned' = {s} /\ files' = files /\ mods'[s] = list
  <2>1. Saves(s, list)
    BY DEF Rescan
  <2>2. mods \in [Servers -> Seq(Records)]
    BY DEF Inv, TypeOK
  <2> QED BY <2>1, <2>2 DEF Rescan, Saves, Kept
<1>3. \A i \in Packages : files[s][i] \subseteq Versions \cup {Torn}
  BY <1>1, KindsApart DEF Copies, OnDisk
<1>4. /\ a \in Seq(Records)
      /\ \A i \in Packages : files[s][i] \ {Torn} # {} => i \in NexusIds(a)
  BY <1>1, <1>3, PackagesKeep, PackagesListed DEF Keeps
<1> HIDE DEF a
<1>5. b \in Seq(Records) /\ NexusIds(a) \cup FoldersThere(s) \subseteq NexusIds(b)
  BY <1>4, FoldersKeep, FoldersListed DEF Keeps
<1> HIDE DEF b
<1>6. /\ c \in Seq(Records)
      /\ (NexusIds(b) \cup PaksThere(s, Loose)) \cup PaksThere(s, InFolder) \subseteq NexusIds(c)
  BY <1>5, PaksKeep, PaksListed DEF Keeps
<1> HIDE DEF c
<1>7. /\ NexusIds(c) \subseteq NexusIds(list)
      /\ \A j, k \in DOMAIN list :
           IsNexus(list[j]) /\ IsNexus(list[k]) /\ list[j].id = list[k].id
             /\ list[j].id \in Packages \cup Named => j = k
  BY <1>6, DeduplicatedLists
<1> HIDE DEF list
<1>8. ASSUME NEW i \in Items \ Workshop
      PROVE  LET entries == {k \in DOMAIN list : IsNexus(list[k]) /\ list[k].id = i}
             IN /\ i \in Packages \cup Named => Cardinality(entries) <= 1
                /\ files[s][i] \ {Torn} # {} => entries # {}
  <2> DEFINE entries == {k \in DOMAIN list : IsNexus(list[k]) /\ list[k].id = i}
  <2>1. ASSUME i \in Packages \cup Named PROVE Cardinality(entries) <= 1
    <3>1. \A j, k \in entries : j = k
      BY <1>7, <2>1
    <3> HIDE DEF entries
    <3> QED BY <3>1, AtMostOne
  <2>2. ASSUME files[s][i] \ {Torn} # {} PROVE entries # {}
    <3>1. i \in NexusIds(list)
      <4>1. CASE i \in Packages
        BY <4>1, <1>4, <1>5, <1>6, <1>7, <2>2
      <4>2. CASE i \in Ue4ss
        <5>1. i \in FoldersThere(s)
          BY <4>2, <2>2 DEF FoldersThere
        <5> QED BY <5>1, <1>5, <1>6, <1>7
      <4>3. CASE i \in Paks
        <5>1. files[s][i] \subseteq {Loose, InFolder}
          BY <4>3, <1>1, KindsApart DEF Copies, OnDisk, Spots
        <5>2. i \in PaksThere(s, Loose) \/ i \in PaksThere(s, InFolder)
          BY <4>3, <2>2, <5>1 DEF PaksThere
        <5> QED BY <5>2, <1>6, <1>7
      <4> QED BY <4>1, <4>2, <4>3 DEF Items
    <3> QED BY <3>1 DEF NexusIds
  <2> QED BY <2>1, <2>2
<1> QED BY <1>2, <1>8 DEF ListedOnce

\* No other step counts as a scan.
LEMMA ScansOnly ==
  ASSUME Next
  PROVE  scanned' = {} \/ \E s \in Servers : Rescan(s)
<1>1. ASSUME NEW s \in Servers, PageStep(s) PROVE scanned' = {} \/ Rescan(s)
  BY <1>1 DEF PageStep, NextUpdate, PlacesUpdates, Downloads, OpenPage, UninstallMissing,
              Enable, Disable, RemoveMod, RequestFails, Uninstall, ConfirmUpload, NotScanned
<1>2. ASSUME NEW s \in Servers, NEW p \in Jobs, JobStep(s, p) PROVE scanned' = {}
  BY <1>2 DEF JobStep, InstallBegins, GetsDetails, PlacesMod, PlaceFails, CheckBegins,
              CheckEnds, JobFails, NotScanned
<1>3. ASSUME Restart \/ \E i \in Items : NewVersion(i) PROVE scanned' = {}
  BY <1>3 DEF Restart, NewVersion, NotScanned
<1> QED BY <1>1, <1>2, <1>3 DEF Next

\* After a scan every mod from Nexus with a whole copy on the server is listed, and
\* no package and no mod whose files have its name twice, whatever the list was before
\* (nexus_mod_service.py: downloaded_nexus_mods, _deduplicate_nexus_records).
THEOREM ScanListsOnce == Spec => []ListedOnce
<1>1. Init => ListedOnce
  BY DEF Init, ListedOnce
<1>2. Inv /\ ListedOnce /\ [Next]_vars => ListedOnce'
  <2> SUFFICES ASSUME Inv, ListedOnce, [Next]_vars PROVE ListedOnce'
    OBVIOUS
  <2>1. ASSUME NEW s \in Servers, Rescan(s) PROVE ListedOnce'
    BY <2>1, RescanLists
  <2>2. CASE scanned' = {}
    BY <2>2 DEF ListedOnce
  <2>3. CASE UNCHANGED vars
    BY <2>3 DEF ListedOnce, vars
  <2> QED BY <2>1, <2>2, <2>3, ScansOnly
<1> QED BY <1>1, <1>2, Invariant, PTL DEF Spec

-----------------------------------------------------------------------------
(* Lists in their load order: ModsStore                                     *)

\* Of two records one comes sooner, and it has fewer before it.
LEMMA SoonerHasFewer ==
  ASSUME NEW R, NEW list \in Seq(R), \A k \in DOMAIN list : list[k].prio \in Int,
         NEW a \in DOMAIN list, NEW b \in DOMAIN list, Sooner(list, a, b)
  PROVE  Cardinality(SortedBefore(list, a)) < Cardinality(SortedBefore(list, b))
<1> DEFINE A == SortedBefore(list, a)
           B == SortedBefore(list, b)
<1>1. DOMAIN list = 1..Len(list) /\ Len(list) \in Nat
  OBVIOUS
<1>2. IsFiniteSet(DOMAIN list)
  BY <1>1, UpToFinite
<1>3. A \subseteq B /\ a \in B /\ a \notin A /\ B \subseteq DOMAIN list
  BY <1>1 DEF SortedBefore, Sooner
<1> HIDE DEF A, B
<1>4. IsFiniteSet(B)
  BY <1>2, <1>3, FS_Subset
<1>5. IsFiniteSet(A) /\ Cardinality(A) <= Cardinality(B) /\ Cardinality(A) # Cardinality(B)
  BY <1>3, <1>4, FS_Subset
<1>6. Cardinality(A) \in Nat /\ Cardinality(B) \in Nat
  BY <1>4, <1>5, FS_CardinalityType
<1> QED BY <1>5, <1>6 DEF A, B

\* So that as many records come before a record as its place in the order says,
\* and every place is taken: sorting moves the records and does nothing else.
LEMMA SortedMoves ==
  ASSUME NEW R, NEW list \in Seq(R), \A k \in DOMAIN list : list[k].prio \in Int
  PROVE  \E g \in Bijection(DOMAIN list, DOMAIN list) :
           Sorted(list) = [n \in DOMAIN list |-> list[g[n]]]
<1> DEFINE D == DOMAIN list
           N == Len(list)
           r == [k \in D |-> Cardinality(SortedBefore(list, k)) + 1]
           g == [n \in D |-> CHOOSE k \in D : Cardinality(SortedBefore(list, k)) = n - 1]
<1>1. D = 1..N /\ N \in Nat
  OBVIOUS
<1>2. IsFiniteSet(D) /\ Cardinality(D) = N
  <2> HIDE DEF D, N
  <2> QED BY <1>1, UpToFinite
<1>3. \A k \in D : Cardinality(SortedBefore(list, k)) \in 0..(N - 1)
  <2> SUFFICES ASSUME NEW k \in D PROVE Cardinality(SortedBefore(list, k)) \in 0..(N - 1)
    OBVIOUS
  <2>1. SortedBefore(list, k) \subseteq D \ {k}
    BY <1>1 DEF SortedBefore, Sooner
  <2> HIDE DEF D
  <2>2. IsFiniteSet(D \ {k}) /\ Cardinality(D \ {k}) = N - 1
    BY <1>2, FS_RemoveElement
  <2>3. IsFiniteSet(SortedBefore(list, k)) /\ Cardinality(SortedBefore(list, k)) <= N - 1
    BY <2>1, <2>2, FS_Subset
  <2>4. Cardinality(SortedBefore(list, k)) \in Nat
    BY <2>3, FS_CardinalityType
  <2> QED BY <1>1, <2>3, <2>4
<1>4. \A a, b \in D : a = b \/ Sooner(list, a, b) \/ Sooner(list, b, a)
  BY <1>1 DEF Sooner
<1>5. \A a, b \in D : r[a] = r[b] => a = b
  <2> SUFFICES ASSUME NEW a \in D, NEW b \in D, r[a] = r[b], a # b PROVE FALSE
    OBVIOUS
  <2>1. Cardinality(SortedBefore(list, a)) = Cardinality(SortedBefore(list, b))
    BY <1>3
  <2>2. CASE Sooner(list, a, b)
    BY <1>3, <2>1, <2>2, SoonerHasFewer
  <2>3. CASE Sooner(list, b, a)
    BY <1>3, <2>1, <2>3, SoonerHasFewer
  <2> QED BY <1>4, <2>2, <2>3
<1>6. r \in [D -> D]
  BY <1>1, <1>3
<1> HIDE DEF D, N
<1>7. r \in Injection(D, D)
  <2> HIDE DEF r
  <2> QED BY <1>5, <1>6 DEF Injection, IsInjective
<1>8. r \in Surjection(D, D)
  BY <1>2, <1>7, FS_Injection
<1>9. \A n \in D : g[n] \in D /\ r[g[n]] = n
  <2> SUFFICES ASSUME NEW n \in D PROVE g[n] \in D /\ r[g[n]] = n
    OBVIOUS
  <2>1. PICK k \in D : r[k] = n
    BY <1>8 DEF Surjection
  <2>2. Cardinality(SortedBefore(list, k)) = n - 1
    BY <1>1, <1>3, <2>1
  <2>3. g[n] \in D /\ Cardinality(SortedBefore(list, g[n])) = n - 1
    BY <2>2
  <2> QED BY <1>1, <2>3
<1> HIDE DEF g, r
<1>10. g \in [D -> D]
  BY <1>9 DEF g
<1>11. \A a, b \in D : g[a] = g[b] => a = b
  BY <1>9
<1>12. \A k \in D : \E n \in D : g[n] = k
  <2> SUFFICES ASSUME NEW k \in D PROVE \E n \in D : g[n] = k
    OBVIOUS
  <2>1. r[k] \in D
    BY <1>6
  <2>2. r[g[r[k]]] = r[k] /\ g[r[k]] \in D
    BY <1>9, <2>1
  <2> QED BY <1>5, <2>1, <2>2
<1>13. g \in Bijection(D, D)
  BY <1>10, <1>11, <1>12 DEF Bijection, Injection, IsInjective, Surjection
<1>14. Sorted(list) = [n \in D |-> list[g[n]]]
  BY DEF Sorted, g, D
<1> QED BY <1>13, <1>14 DEF D

\* No id twice.
Distinct(list) == \A j, k \in DOMAIN list : list[j].id = list[k].id => j = k

LEMMA SortedKeeps ==
  ASSUME NEW R, NEW list \in Seq(R), \A k \in DOMAIN list : list[k].prio \in Int
  PROVE  /\ Sorted(list) \in Seq(R) /\ DOMAIN Sorted(list) = DOMAIN list
         /\ \A n \in DOMAIN list : \E k \in DOMAIN list : Sorted(list)[n] = list[k]
         /\ \A k \in DOMAIN list : \E n \in DOMAIN list : Sorted(list)[n] = list[k]
         /\ Distinct(list) => Distinct(Sorted(list))
<1>1. PICK g \in Bijection(DOMAIN list, DOMAIN list) :
           Sorted(list) = [n \in DOMAIN list |-> list[g[n]]]
  BY SortedMoves
<1>2. /\ \A n \in DOMAIN list : g[n] \in DOMAIN list
      /\ \A a, b \in DOMAIN list : g[a] = g[b] => a = b
      /\ \A k \in DOMAIN list : \E n \in DOMAIN list : g[n] = k
  BY <1>1 DEF Bijection, Injection, IsInjective, Surjection
<1>3. DOMAIN list = 1..Len(list) /\ Len(list) \in Nat /\ \A k \in DOMAIN list : list[k] \in R
  OBVIOUS
<1>4. \A n \in DOMAIN list : Sorted(list)[n] = list[g[n]]
  BY <1>1
<1>5. DOMAIN Sorted(list) = DOMAIN list
  BY <1>1
<1>6. Sorted(list) \in [1..Len(list) -> R]
  BY <1>1, <1>2, <1>3
<1>7. Sorted(list) \in Seq(R)
  BY <1>3, <1>6
<1>8. ASSUME NEW k \in DOMAIN list PROVE \E n \in DOMAIN list : Sorted(list)[n] = list[k]
  <2>1. PICK n \in DOMAIN list : g[n] = k
    BY <1>2
  <2>2. Sorted(list)[n] = list[k]
    BY <1>4, <2>1
  <2> QED BY <2>2
<1>9. \A n \in DOMAIN list : \E k \in DOMAIN list : Sorted(list)[n] = list[k]
  BY <1>2, <1>4
<1>10. Distinct(list) => Distinct(Sorted(list))
  <2> SUFFICES ASSUME Distinct(list), NEW j \in DOMAIN list, NEW k \in DOMAIN list,
                      Sorted(list)[j].id = Sorted(list)[k].id
               PROVE  j = k
    BY <1>5 DEF Distinct
  <2>1. g[j] \in DOMAIN list /\ g[k] \in DOMAIN list
    BY <1>2
  <2>2. list[g[j]].id = list[g[k]].id
    BY <1>4
  <2>3. g[j] = g[k]
    BY <2>1, <2>2 DEF Distinct
  <2> QED BY <1>2, <2>3
<1> QED BY <1>5, <1>7, <1>8, <1>9, <1>10


-----------------------------------------------------------------------------
(* The mods of a Conan server: ConanMods                                    *)

\* What ConanMods takes from ConanPromises and ModsStore is the same here.
LEMMA SameStore ==
  ASSUME NEW list, NEW x
  PROVE  /\ Conan!IdsIn(list) = IdsIn(list) /\ Conan!Only(list, x) = Only(list, x)
         /\ Conan!Sorted(list) = Sorted(list) /\ Conan!Enabled(list) = Enabled(list)
         /\ Conan!Entry(list, x) = Entry(list, x) /\ Conan!StateIn(list, x) = StateIn(list, x)
<1>1. Conan!IdsIn(list) = IdsIn(list)
  BY DEF Conan!IdsIn, IdsIn
<1>2. ASSUME NEW some, NEW places PROVE Conan!Only(some, places) = Only(some, places)
  BY DEF Conan!Only, Only
<1>3. Conan!Sorted(list) = Sorted(list)
  BY DEF Conan!Sorted, Sorted, Conan!SortedBefore, SortedBefore, Conan!Sooner, Sooner,
         Conan!Cardinality, Cardinality
<1>4. Conan!Enabled(list) = Enabled(list)
  BY <1>2, <1>3 DEF Conan!Enabled, Enabled
<1>5. Conan!Entry(list, x) = Entry(list, x)
  BY DEF Conan!Entry, Entry
<1>6. Conan!StateIn(list, x) = StateIn(list, x)
  BY <1>1, <1>5 DEF Conan!StateIn, StateIn
<1> QED BY <1>1, <1>2, <1>3, <1>4, <1>5, <1>6

LEMMA SamePak == ASSUME NEW r PROVE Conan!Pak(r) = Pak(r) /\ Conan!None = 0 /\ None = 0
BY DEF Conan!Pak, Pak, Conan!None, None

LEMMA StateListed ==
  ASSUME NEW list, Distinct(list), NEW k \in DOMAIN list
  PROVE  StateIn(list, list[k].id) = IF list[k].on THEN "on" ELSE "off"
<1>1. \A j \in DOMAIN list : list[j].id = list[k].id => list[j] = list[k]
  BY DEF Distinct
<1>2. Entry(list, list[k].id) = list[k]
  BY <1>1 DEF Entry
<1>3. list[k].id \in IdsIn(list)
  BY DEF IdsIn
<1> QED BY <1>2, <1>3 DEF StateIn

\* The state of a mod is its entry's, wherever that is in the list.
LEMMA SameState ==
  ASSUME NEW a, NEW b, Distinct(a), Distinct(b), NEW x,
         \A k \in DOMAIN a : a[k].id = x => \E j \in DOMAIN b : b[j].id = x /\ b[j].on = a[k].on,
         \A j \in DOMAIN b : b[j].id = x => \E k \in DOMAIN a : a[k].id = x
  PROVE  StateIn(a, x) = StateIn(b, x)
<1>1. CASE x \notin IdsIn(a)
  <2>1. x \notin IdsIn(b)
    BY <1>1 DEF IdsIn
  <2> QED BY <1>1, <2>1 DEF StateIn
<1>2. CASE x \in IdsIn(a)
  <2>1. PICK k \in DOMAIN a : a[k].id = x
    BY <1>2 DEF IdsIn
  <2>2. PICK j \in DOMAIN b : b[j].id = x /\ b[j].on = a[k].on
    BY <2>1
  <2> QED BY <2>1, <2>2, StateListed
<1> QED BY <1>1, <1>2

LEMMA ListFields ==
  ASSUME NEW list \in Conan!Lists
  PROVE  /\ list \in Seq(Conan!Entries) /\ Distinct(list)
         /\ DOMAIN list = 1..Len(list) /\ Len(list) \in Nat
         /\ \A k \in DOMAIN list :
              /\ list[k] \in Conan!Entries
              /\ list[k].id \in Published /\ list[k].on \in BOOLEAN /\ list[k].prio \in Nat
              /\ list[k].ver \in Conan!Versions /\ list[k].pak \in Conan!Range(PakOf)
<1>1. list \in Seq(Conan!Entries) /\ Distinct(list)
  BY DEF Conan!Lists, Distinct
<1>2. \A r \in Conan!Entries : /\ r.id \in Published /\ r.on \in BOOLEAN /\ r.prio \in Nat
                               /\ r.ver \in Conan!Versions /\ r.pak \in Conan!Range(PakOf)
  BY DEF Conan!Entries
<1> QED BY <1>1, <1>2

LEMMA IsList ==
  ASSUME NEW list \in Seq(Conan!Entries), Distinct(list)
  PROVE  list \in Conan!Lists
BY DEF Conan!Lists, Distinct

LEMMA EmptyList == <<>> \in Conan!Lists
<1>1. <<>> \in Seq(Conan!Entries) /\ Distinct(<<>>)
  BY DEF Distinct
<1> QED BY <1>1, IsList

\* Entries that are changed one by one stay the entries of the same mods.
LEMMA EachKeeps ==
  ASSUME NEW a \in Conan!Lists, NEW b, DOMAIN b = DOMAIN a, b = [k \in DOMAIN a |-> b[k]],
         \A k \in DOMAIN a : b[k] \in Conan!Entries /\ b[k].id = a[k].id
  PROVE  /\ b \in Conan!Lists /\ IdsIn(b) = IdsIn(a)
         /\ \A x : (\A k \in DOMAIN a : a[k].id = x => b[k].on = a[k].on) => StateIn(b, x) = StateIn(a, x)
<1>1. Distinct(a) /\ DOMAIN a = 1..Len(a) /\ Len(a) \in Nat
  BY ListFields
<1>2. b \in Seq(Conan!Entries)
  BY <1>1
<1>3. Distinct(b)
  BY <1>1 DEF Distinct
<1>4. IdsIn(b) = IdsIn(a)
  BY DEF IdsIn
<1>5. ASSUME NEW x, \A k \in DOMAIN a : a[k].id = x => b[k].on = a[k].on
      PROVE  StateIn(b, x) = StateIn(a, x)
  <2>1. \A k \in DOMAIN a : a[k].id = x => \E j \in DOMAIN b : b[j].id = x /\ b[j].on = a[k].on
    BY <1>5
  <2>2. \A j \in DOMAIN b : b[j].id = x => \E k \in DOMAIN a : a[k].id = x
    OBVIOUS
  <2> QED BY <1>1, <1>3, <2>1, <2>2, SameState
<1> QED BY <1>2, <1>3, <1>4, <1>5, IsList

LEMMA SortedLists ==
  ASSUME NEW list \in Conan!Lists
  PROVE  /\ Sorted(list) \in Conan!Lists /\ DOMAIN Sorted(list) = DOMAIN list
         /\ \A n \in DOMAIN list : \E k \in DOMAIN list : Sorted(list)[n] = list[k]
         /\ \A k \in DOMAIN list : \E n \in DOMAIN list : Sorted(list)[n] = list[k]
         /\ \A x : StateIn(Sorted(list), x) = StateIn(list, x)
<1>1. list \in Seq(Conan!Entries) /\ Distinct(list) /\ \A k \in DOMAIN list : list[k].prio \in Int
  BY ListFields
<1>2. /\ Sorted(list) \in Seq(Conan!Entries) /\ DOMAIN Sorted(list) = DOMAIN list
      /\ \A n \in DOMAIN list : \E k \in DOMAIN list : Sorted(list)[n] = list[k]
      /\ \A k \in DOMAIN list : \E n \in DOMAIN list : Sorted(list)[n] = list[k]
      /\ Distinct(Sorted(list))
  BY <1>1, SortedKeeps
<1>3. ASSUME NEW x PROVE StateIn(Sorted(list), x) = StateIn(list, x)
  <2>1. \A k \in DOMAIN Sorted(list) : Sorted(list)[k].id = x =>
          \E j \in DOMAIN list : list[j].id = x /\ list[j].on = Sorted(list)[k].on
    BY <1>2
  <2>2. \A j \in DOMAIN list : list[j].id = x => \E k \in DOMAIN Sorted(list) : Sorted(list)[k].id = x
    BY <1>2
  <2> QED BY <1>1, <1>2, <2>1, <2>2, SameState
<1> QED BY <1>2, <1>3, IsList


\* The files of a list are those of another.
SameFiles(b, list) ==
  \A k \in DOMAIN b : \E j \in DOMAIN list : b[k].id = list[j].id /\ b[k].pak = list[j].pak

LEMMA SwitchedKeeps ==
  ASSUME NEW list \in Conan!Lists, NEW w, NEW on \in BOOLEAN, w \in IdsIn(list)
  PROVE  /\ Conan!Switched(list, w, on) \in Conan!Lists
         /\ StateIn(Conan!Switched(list, w, on), w) = IF on THEN "on" ELSE "off"
         /\ \A x : x # w => StateIn(Conan!Switched(list, w, on), x) = StateIn(list, x)
         /\ SameFiles(Conan!Switched(list, w, on), list)
<1> DEFINE b == Conan!Switched(list, w, on)
<1>1. \A r \in Conan!Entries :
        /\ [r EXCEPT !.on = on] \in Conan!Entries /\ [r EXCEPT !.on = on].id = r.id
        /\ [r EXCEPT !.on = on].on = on /\ [r EXCEPT !.on = on].pak = r.pak
  BY DEF Conan!Entries
<1>2. \A k \in DOMAIN list : list[k] \in Conan!Entries
  BY ListFields
<1>3. /\ DOMAIN b = DOMAIN list /\ b = [k \in DOMAIN list |-> b[k]]
      /\ \A k \in DOMAIN list : b[k] = IF list[k].id = w THEN [list[k] EXCEPT !.on = on] ELSE list[k]
  BY DEF Conan!Switched
<1> HIDE DEF b
<1>4. \A k \in DOMAIN list :
        /\ b[k] \in Conan!Entries /\ b[k].id = list[k].id
        /\ b[k].on = IF list[k].id = w THEN on ELSE list[k].on
        /\ b[k].pak = list[k].pak
  <2> SUFFICES ASSUME NEW k \in DOMAIN list
               PROVE  /\ b[k] \in Conan!Entries /\ b[k].id = list[k].id
                      /\ b[k].on = IF list[k].id = w THEN on ELSE list[k].on
                      /\ b[k].pak = list[k].pak
    OBVIOUS
  <2>1. CASE list[k].id = w
    <3>1. b[k] = [list[k] EXCEPT !.on = on]
      BY <1>3, <2>1
    <3> QED BY <1>1, <1>2, <2>1, <3>1
  <2>2. CASE list[k].id # w
    <3>1. b[k] = list[k]
      BY <1>3, <2>2
    <3> QED BY <1>2, <2>2, <3>1
  <2> QED BY <2>1, <2>2
<1>5. b \in Conan!Lists /\ \A x : x # w => StateIn(b, x) = StateIn(list, x)
  BY <1>3, <1>4, EachKeeps
<1>6. PICK k \in DOMAIN list : list[k].id = w
  BY DEF IdsIn
<1>7. StateIn(b, b[k].id) = IF b[k].on THEN "on" ELSE "off"
  BY <1>3, <1>5, ListFields, StateListed
<1>8. SameFiles(b, list)
  BY <1>3, <1>4 DEF SameFiles
<1> QED BY <1>4, <1>5, <1>6, <1>7, <1>8 DEF b

LEMMA ReorderedKeeps ==
  ASSUME NEW list \in Conan!Lists, NEW some, NEW order \in Conan!SetToSeqs(some)
  PROVE  /\ Conan!Reordered(list, order) \in Conan!Lists
         /\ \A x : StateIn(Conan!Reordered(list, order), x) = StateIn(list, x)
         /\ SameFiles(Conan!Reordered(list, order), list)
<1> DEFINE b == Conan!Reordered(list, order)
           Place(r) == CHOOSE j \in DOMAIN order : order[j] = r.id
<1>1. \A j \in DOMAIN order : j \in Nat
  BY DEF Conan!SetToSeqs
<1>2. \A r \in Conan!Entries : r.id \in Conan!Range(order) => Place(r) \in Nat
  BY <1>1 DEF Conan!Range
<1>3. \A r \in Conan!Entries, n \in Nat :
        /\ [r EXCEPT !.prio = n] \in Conan!Entries /\ [r EXCEPT !.prio = n].id = r.id
        /\ [r EXCEPT !.prio = n].on = r.on /\ [r EXCEPT !.prio = n].pak = r.pak
  BY DEF Conan!Entries
<1>4. \A k \in DOMAIN list : list[k] \in Conan!Entries
  BY ListFields
<1>5. /\ DOMAIN b = DOMAIN list /\ b = [k \in DOMAIN list |-> b[k]]
      /\ \A k \in DOMAIN list : b[k] = IF list[k].id \in Conan!Range(order)
                                       THEN [list[k] EXCEPT !.prio = Place(list[k])] ELSE list[k]
  BY DEF Conan!Reordered
<1> HIDE DEF b, Place
<1>6. \A k \in DOMAIN list :
        /\ b[k] \in Conan!Entries /\ b[k].id = list[k].id
        /\ b[k].on = list[k].on /\ b[k].pak = list[k].pak
  <2> SUFFICES ASSUME NEW k \in DOMAIN list
               PROVE  /\ b[k] \in Conan!Entries /\ b[k].id = list[k].id
                      /\ b[k].on = list[k].on /\ b[k].pak = list[k].pak
    OBVIOUS
  <2>1. CASE list[k].id \in Conan!Range(order)
    <3>1. b[k] = [list[k] EXCEPT !.prio = Place(list[k])] /\ Place(list[k]) \in Nat
      BY <1>2, <1>4, <1>5, <2>1
    <3> QED BY <1>3, <1>4, <3>1
  <2>2. CASE list[k].id \notin Conan!Range(order)
    <3>1. b[k] = list[k]
      BY <1>5, <2>2
    <3> QED BY <1>4, <3>1
  <2> QED BY <2>1, <2>2
<1>7. b \in Conan!Lists /\ \A x : StateIn(b, x) = StateIn(list, x)
  BY <1>5, <1>6, EachKeeps
<1>8. SameFiles(b, list)
  BY <1>5, <1>6 DEF SameFiles
<1> QED BY <1>7, <1>8 DEF b

\* A part of a list lists some of its mods.
LEMMA OnlyLists ==
  ASSUME NEW list \in Conan!Lists, NEW places, places \subseteq DOMAIN list
  PROVE  /\ Only(list, places) \in Conan!Lists
         /\ \A n \in DOMAIN Only(list, places) : \E k \in places : Only(list, places)[n] = list[k]
         /\ \A k \in places : \E n \in DOMAIN Only(list, places) : Only(list, places)[n] = list[k]
<1> DEFINE part == Only(list, places)
<1>1. list \in Seq(Conan!Entries) /\ Distinct(list)
  BY ListFields
<1>2. part \in Seq(Conan!Entries) /\ \E h : Comes(h, part, list, places)
  BY <1>1, OnlyThese
<1> HIDE DEF part
<1>3. PICK h : Comes(h, part, list, places)
  BY <1>2
<1>4. /\ \A n \in DOMAIN part : h[n] \in places /\ part[n] = list[h[n]]
      /\ \A m, n \in DOMAIN part : h[m] = h[n] => m = n
      /\ \A k \in places : \E n \in DOMAIN part : h[n] = k
  BY <1>3 DEF Comes
<1>5. Distinct(part)
  BY <1>1, <1>4 DEF Distinct
<1>6. part \in Conan!Lists
  BY <1>2, <1>5, IsList
<1>7. ASSUME NEW k \in places PROVE \E n \in DOMAIN part : part[n] = list[k]
  <2>1. PICK n \in DOMAIN part : h[n] = k
    BY <1>4
  <2> QED BY <1>4, <2>1
<1> QED BY <1>4, <1>6, <1>7 DEF part

LEMMA WithoutKeepsOthers ==
  ASSUME NEW list \in Conan!Lists, NEW w
  PROVE  /\ Conan!Without(list, w) \in Conan!Lists
         /\ StateIn(Conan!Without(list, w), w) = "out"
         /\ \A x : x # w => StateIn(Conan!Without(list, w), x) = StateIn(list, x)
         /\ SameFiles(Conan!Without(list, w), list)
<1> DEFINE places == {k \in DOMAIN list : list[k].id # w}
           rest == Conan!Only(list, places)
           sorted == Conan!Sorted(rest)
           Place(r) == CHOOSE j \in DOMAIN sorted : sorted[j].id = r.id
           b == Conan!Without(list, w)
<1>1. b = [k \in DOMAIN rest |-> [rest[k] EXCEPT !.prio = Place(rest[k])]]
  BY DEF Conan!Without
<1>2. rest = Only(list, places) /\ sorted = Sorted(rest) /\ places \subseteq DOMAIN list
  BY SameStore
<1> HIDE DEF b, rest, sorted
<1>3. /\ rest \in Conan!Lists
      /\ \A n \in DOMAIN rest : \E k \in places : rest[n] = list[k]
      /\ \A k \in places : \E n \in DOMAIN rest : rest[n] = list[k]
  <2> HIDE DEF places
  <2> QED BY <1>2, OnlyLists
<1>4. /\ DOMAIN sorted = DOMAIN rest /\ \A j \in DOMAIN rest : j \in Nat
      /\ \A k \in DOMAIN rest : \E j \in DOMAIN rest : sorted[j] = rest[k]
  <2>1. DOMAIN rest = 1..Len(rest)
    BY <1>3, ListFields
  <2>2. /\ DOMAIN sorted = DOMAIN rest
        /\ \A k \in DOMAIN rest : \E j \in DOMAIN rest : sorted[j] = rest[k]
    BY <1>2, <1>3, SortedLists
  <2> QED BY <2>1, <2>2
<1>5. \A k \in DOMAIN rest : Place(rest[k]) \in Nat
  BY <1>4
<1>6. \A r \in Conan!Entries, n \in Nat :
        /\ [r EXCEPT !.prio = n] \in Conan!Entries /\ [r EXCEPT !.prio = n].id = r.id
        /\ [r EXCEPT !.prio = n].on = r.on /\ [r EXCEPT !.prio = n].pak = r.pak
  BY DEF Conan!Entries
<1>7. \A k \in DOMAIN rest : rest[k] \in Conan!Entries
  BY <1>3, ListFields
<1> HIDE DEF Place
<1>8. /\ DOMAIN b = DOMAIN rest /\ b = [k \in DOMAIN rest |-> b[k]]
      /\ \A k \in DOMAIN rest :
           /\ b[k] \in Conan!Entries /\ b[k].id = rest[k].id
           /\ b[k].on = rest[k].on /\ b[k].pak = rest[k].pak
  BY <1>1, <1>5, <1>6, <1>7
<1>9. b \in Conan!Lists /\ \A x : StateIn(b, x) = StateIn(rest, x)
  BY <1>3, <1>8, EachKeeps
<1>10. StateIn(rest, w) = "out"
  <2>1. w \notin IdsIn(rest)
    BY <1>3 DEF IdsIn
  <2> QED BY <2>1 DEF StateIn
<1>11. ASSUME NEW x, x # w PROVE StateIn(rest, x) = StateIn(list, x)
  <2>1. \A n \in DOMAIN rest : rest[n].id = x =>
          \E k \in DOMAIN list : list[k].id = x /\ list[k].on = rest[n].on
    BY <1>3
  <2>2. \A k \in DOMAIN list : list[k].id = x => \E n \in DOMAIN rest : rest[n].id = x
    BY <1>3, <1>11
  <2>3. Distinct(rest) /\ Distinct(list)
    BY <1>3, ListFields
  <2> QED BY <2>1, <2>2, <2>3, SameState
<1>12. SameFiles(b, list)
  BY <1>3, <1>8 DEF SameFiles
<1> QED BY <1>9, <1>10, <1>11, <1>12 DEF b


LEMMA PakKnown ==
  ASSUME NEW r \in Conan!Entries, library \in [Published -> Conan!Versions \cup {0}],
         Conan!ConanModsAssumption
  PROVE  Pak(r) \in Conan!Range(PakOf)
BY DEF Pak, None, Conan!Entries, Conan!Range, Conan!Versions, Conan!ConanModsAssumption

LEMMA InstalledKeeps ==
  ASSUME NEW list \in Conan!Lists, NEW w \in Published, NEW version \in Conan!Versions,
         library[w] \in Conan!Versions, Conan!ConanModsAssumption
  PROVE  /\ Conan!Installed(list, w, version) \in Conan!Lists
         /\ StateIn(Conan!Installed(list, w, version), w) =
              IF w \in IdsIn(list) /\ ~Entry(list, w).on THEN "off" ELSE "on"
         /\ \A x : x # w => StateIn(Conan!Installed(list, w, version), x) = StateIn(list, x)
         /\ \A k \in DOMAIN Conan!Installed(list, w, version) :
              LET r == Conan!Installed(list, w, version)[k] IN
                \/ r.id = w /\ r.pak = PakOf[library[w]]
                \/ \E j \in DOMAIN list : r.id = list[j].id /\ r.pak = list[j].pak
<1> DEFINE new == [id |-> w, on |-> TRUE, prio |-> Len(list) + 1, ver |-> version,
                   pak |-> PakOf[library[w]]]
           b == Conan!Installed(list, w, version)
           Refiled(r) == IF r.id = w THEN [new EXCEPT !.on = r.on, !.prio = r.prio] ELSE r
<1>1. new \in Conan!Entries
  <2>1. Len(list) + 1 \in Nat
    BY ListFields
  <2>2. PakOf[library[w]] \in Conan!Range(PakOf)
    BY DEF Conan!Range, Conan!Versions, Conan!ConanModsAssumption
  <2> QED BY <2>1, <2>2 DEF Conan!Entries
<1>2. /\ new.id = w /\ new.on = TRUE /\ new.pak = PakOf[library[w]]
      /\ \A r \in Conan!Entries : /\ Refiled(r) \in Conan!Entries
                                  /\ Refiled(r).id = r.id /\ Refiled(r).on = r.on
                                  /\ Refiled(r).pak = IF r.id = w THEN new.pak ELSE r.pak
  <2> SUFFICES ASSUME NEW r \in Conan!Entries
               PROVE  /\ Refiled(r) \in Conan!Entries
                      /\ Refiled(r).id = r.id /\ Refiled(r).on = r.on
                      /\ Refiled(r).pak = IF r.id = w THEN new.pak ELSE r.pak
    OBVIOUS
  <2>1. CASE r.id = w
    <3>1. Refiled(r) = [new EXCEPT !.on = r.on, !.prio = r.prio]
      BY <2>1
    <3>2. r.on \in BOOLEAN /\ r.prio \in Nat
      BY DEF Conan!Entries
    <3> QED BY <1>1, <2>1, <3>1, <3>2 DEF Conan!Entries
  <2>2. CASE r.id # w
    BY <2>2
  <2> QED BY <2>1, <2>2
<1>3. b = IF w \in IdsIn(list) THEN [k \in DOMAIN list |-> Refiled(list[k])] ELSE Append(list, new)
  <2>1. b = IF w \in Conan!IdsIn(list) THEN [k \in DOMAIN list |-> Refiled(list[k])] ELSE Append(list, new)
    BY DEF Conan!Installed
  <2>2. Conan!IdsIn(list) = IdsIn(list)
    BY SameStore
  <2> HIDE DEF new, b, Refiled
  <2> QED BY <2>1, <2>2
<1> HIDE DEF new, b, Refiled
<1>4. /\ \A k \in DOMAIN list : list[k] \in Conan!Entries
      /\ list \in Seq(Conan!Entries) /\ Distinct(list)
      /\ DOMAIN list = 1..Len(list) /\ Len(list) \in Nat
  BY ListFields
<1>5. CASE w \in IdsIn(list)
  <2>1. /\ DOMAIN b = DOMAIN list /\ b = [k \in DOMAIN list |-> b[k]]
        /\ \A k \in DOMAIN list :
             /\ b[k] \in Conan!Entries /\ b[k].id = list[k].id /\ b[k].on = list[k].on
             /\ b[k].pak = IF list[k].id = w THEN PakOf[library[w]] ELSE list[k].pak
    BY <1>2, <1>3, <1>4, <1>5
  <2>2. b \in Conan!Lists /\ \A x : StateIn(b, x) = StateIn(list, x)
    BY <2>1, EachKeeps
  <2>3. StateIn(list, w) = IF Entry(list, w).on THEN "on" ELSE "off"
    BY <1>5 DEF StateIn
  <2>4. ASSUME NEW k \in DOMAIN b
        PROVE  \/ b[k].id = w /\ b[k].pak = PakOf[library[w]]
               \/ \E j \in DOMAIN list : b[k].id = list[j].id /\ b[k].pak = list[j].pak
    BY <2>1
  <2> QED BY <1>5, <2>2, <2>3, <2>4 DEF b
<1>6. CASE w \notin IdsIn(list)
  <2>1. /\ b \in Seq(Conan!Entries) /\ DOMAIN b = 1..(Len(list) + 1)
        /\ \A k \in DOMAIN list : b[k] = list[k]
        /\ b[Len(list) + 1] = new
    BY <1>1, <1>3, <1>4, <1>6
  <2>2. \A k \in DOMAIN list : list[k].id # w
    BY <1>6 DEF IdsIn
  <2>3. \A k \in DOMAIN b : k \in DOMAIN list \/ k = Len(list) + 1
    BY <1>4, <2>1
  <2>4. Distinct(b)
    <3> SUFFICES ASSUME NEW j \in DOMAIN b, NEW k \in DOMAIN b, b[j].id = b[k].id PROVE j = k
      BY DEF Distinct
    <3> QED BY <1>2, <1>4, <2>1, <2>2, <2>3 DEF Distinct
  <2>5. b \in Conan!Lists
    BY <2>1, <2>4, IsList
  <2>6. StateIn(b, w) = "on"
    <3>1. Len(list) + 1 \in DOMAIN b
      BY <1>4, <2>1
    <3>2. b[Len(list) + 1].id = w /\ b[Len(list) + 1].on = TRUE
      BY <1>2, <2>1
    <3>3. StateIn(b, b[Len(list) + 1].id) = IF b[Len(list) + 1].on THEN "on" ELSE "off"
      BY <2>4, <3>1, StateListed
    <3> QED BY <3>2, <3>3
  <2>7. ASSUME NEW x, x # w PROVE StateIn(b, x) = StateIn(list, x)
    <3>1. \A k \in DOMAIN b : b[k].id = x =>
            \E j \in DOMAIN list : list[j].id = x /\ list[j].on = b[k].on
      BY <1>2, <2>1, <2>3, <2>7
    <3>2. \A j \in DOMAIN list : list[j].id = x => \E k \in DOMAIN b : b[k].id = x
      <4> SUFFICES ASSUME NEW j \in DOMAIN list, list[j].id = x PROVE \E k \in DOMAIN b : b[k].id = x
        OBVIOUS
      <4>1. j \in DOMAIN b /\ b[j] = list[j]
        BY <1>4, <2>1
      <4> QED BY <4>1
    <3> QED BY <1>4, <2>4, <3>1, <3>2, SameState
  <2>8. ASSUME NEW k \in DOMAIN b
        PROVE  \/ b[k].id = w /\ b[k].pak = PakOf[library[w]]
               \/ \E j \in DOMAIN list : b[k].id = list[j].id /\ b[k].pak = list[j].pak
    BY <1>2, <2>1, <2>3
  <2> QED BY <1>6, <2>5, <2>6, <2>7, <2>8 DEF b
<1> QED BY <1>5, <1>6

LEMMA RefreshedKeeps ==
  ASSUME NEW read \in Conan!Lists, library \in [Published -> Conan!Versions \cup {0}],
         Conan!ConanModsAssumption
  PROVE  /\ Conan!Refreshed(read) \in Conan!Lists
         /\ DOMAIN Conan!Refreshed(read) = DOMAIN Sorted(read)
         /\ \A k \in DOMAIN Sorted(read) :
              Conan!Refreshed(read)[k] = [Sorted(read)[k] EXCEPT !.pak = Pak(Sorted(read)[k])]
         /\ \A x : StateIn(Conan!Refreshed(read), x) = StateIn(read, x)
<1> DEFINE sorted == Conan!Sorted(read)
           b == Conan!Refreshed(read)
<1>1. b = [k \in DOMAIN sorted |-> [sorted[k] EXCEPT !.pak = Conan!Pak(sorted[k])]]
  BY DEF Conan!Refreshed
<1>2. sorted = Sorted(read)
  BY SameStore
<1> HIDE DEF b, sorted
<1>3. sorted \in Conan!Lists /\ \A x : StateIn(sorted, x) = StateIn(read, x)
  BY <1>2, SortedLists
<1>4. \A k \in DOMAIN sorted : b[k] = [sorted[k] EXCEPT !.pak = Pak(sorted[k])]
  BY <1>1, SamePak
<1>5. \A k \in DOMAIN sorted : sorted[k] \in Conan!Entries
  BY <1>3, ListFields
<1>6. \A r \in Conan!Entries, pak \in Conan!Range(PakOf) :
        /\ [r EXCEPT !.pak = pak] \in Conan!Entries
        /\ [r EXCEPT !.pak = pak].id = r.id /\ [r EXCEPT !.pak = pak].on = r.on
  BY DEF Conan!Entries
<1>7. /\ DOMAIN b = DOMAIN sorted /\ b = [k \in DOMAIN sorted |-> b[k]]
      /\ \A k \in DOMAIN sorted :
           b[k] \in Conan!Entries /\ b[k].id = sorted[k].id /\ b[k].on = sorted[k].on
  <2>1. \A k \in DOMAIN sorted : Pak(sorted[k]) \in Conan!Range(PakOf)
    BY <1>5, PakKnown
  <2>2. DOMAIN b = DOMAIN sorted /\ b = [k \in DOMAIN sorted |-> b[k]]
    BY <1>1
  <2>3. \A k \in DOMAIN sorted :
          b[k] \in Conan!Entries /\ b[k].id = sorted[k].id /\ b[k].on = sorted[k].on
    <3> SUFFICES ASSUME NEW k \in DOMAIN sorted
                 PROVE  b[k] \in Conan!Entries /\ b[k].id = sorted[k].id /\ b[k].on = sorted[k].on
      OBVIOUS
    <3> DEFINE r == sorted[k]
               pak == Pak(sorted[k])
    <3>1. b[k] = [r EXCEPT !.pak = pak] /\ r \in Conan!Entries /\ pak \in Conan!Range(PakOf)
      BY <1>4, <1>5, <2>1
    <3> HIDE DEF pak
    <3> QED BY <1>6, <3>1
  <2> QED BY <2>2, <2>3
<1>8. b \in Conan!Lists /\ \A x : StateIn(b, x) = StateIn(sorted, x)
  BY <1>3, <1>7, EachKeeps
<1> QED BY <1>2, <1>3, <1>4, <1>7, <1>8 DEF b

\* The game is to load the mods of the list that are enabled.
LEMMA EnabledListed ==
  ASSUME NEW list \in Conan!Lists
  PROVE  /\ Enabled(list) \in Conan!Lists
         /\ \A n \in DOMAIN Enabled(list) :
              \E k \in DOMAIN Sorted(list) : Enabled(list)[n] = Sorted(list)[k]
         /\ \A n \in DOMAIN Enabled(list) : \E k \in DOMAIN list : Enabled(list)[n] = list[k]
<1> DEFINE sorted == Sorted(list)
           places == {k \in DOMAIN sorted : sorted[k].on}
<1>1. /\ sorted \in Conan!Lists /\ DOMAIN sorted = DOMAIN list
      /\ \A n \in DOMAIN list : \E k \in DOMAIN list : sorted[n] = list[k]
  BY SortedLists
<1>2. Enabled(list) = Only(sorted, places) /\ places \subseteq DOMAIN sorted
  BY DEF Enabled
<1> HIDE DEF sorted
<1>3. /\ Only(sorted, places) \in Conan!Lists
      /\ \A n \in DOMAIN Only(sorted, places) : \E k \in places : Only(sorted, places)[n] = sorted[k]
  <2> HIDE DEF places
  <2> QED BY <1>1, <1>2, OnlyLists
<1>4. \A n \in DOMAIN Enabled(list) : \E k \in DOMAIN sorted : Enabled(list)[n] = sorted[k]
  BY <1>2, <1>3
<1>5. \A n \in DOMAIN Enabled(list) : \E k \in DOMAIN list : Enabled(list)[n] = list[k]
  BY <1>1, <1>4
<1>6. Enabled(list) \in Conan!Lists
  BY <1>2, <1>3
<1> QED BY <1>4, <1>5, <1>6 DEF sorted

LEMMA LinesOf ==
  ASSUME NEW list \in Conan!Lists, library \in [Published -> Conan!Versions \cup {0}],
         Conan!ConanModsAssumption
  PROVE  /\ Conan!Lines(list) \in Seq([id: Published, pak: Conan!Range(PakOf)])
         /\ DOMAIN Conan!Lines(list) = DOMAIN Enabled(list)
         /\ \A k \in DOMAIN Enabled(list) :
              /\ Conan!Lines(list)[k].id = Enabled(list)[k].id
              /\ Conan!Lines(list)[k].pak = Pak(Enabled(list)[k])
<1> DEFINE enabled == Conan!Enabled(list)
           lines == Conan!Lines(list)
<1>1. lines = [k \in DOMAIN enabled |-> [id |-> enabled[k].id, pak |-> Conan!Pak(enabled[k])]]
  BY DEF Conan!Lines
<1>2. enabled = Enabled(list)
  BY SameStore
<1> HIDE DEF enabled, lines
<1>3. enabled \in Conan!Lists
  BY <1>2, EnabledListed
<1>4. /\ DOMAIN enabled = 1..Len(enabled) /\ Len(enabled) \in Nat
      /\ \A k \in DOMAIN enabled : enabled[k] \in Conan!Entries /\ enabled[k].id \in Published
  BY <1>3, ListFields
<1>5. \A k \in DOMAIN enabled : Conan!Pak(enabled[k]) = Pak(enabled[k]) /\ Pak(enabled[k]) \in Conan!Range(PakOf)
  BY <1>4, SamePak, PakKnown
<1> DEFINE Line == [id: Published, pak: Conan!Range(PakOf)]
<1>6. lines \in [1..Len(enabled) -> Line]
  BY <1>1, <1>4, <1>5
<1>7. lines \in Seq(Line)
  <2> HIDE DEF Line
  <2> QED BY <1>4, <1>6
<1> QED BY <1>1, <1>2, <1>5, <1>7 DEF lines


-----------------------------------------------------------------------------
(* Every choice of users holds                                              *)

\* What is installed lies in the download folder, which only tasks change.
Downloaded == task.at = "install" => \A w \in task.id : library[w] # 0

ChoiceInv == Conan!TypeOK /\ Downloaded /\ ChoicesHold

LEMMA ListSaved ==
  ASSUME Conan!ConanModsAssumption, Conan!TypeOK, NEW list \in Conan!Lists,
         Conan!Saves(list) \/ Conan!SavesHalf(list)
  PROVE  /\ listed' = list /\ listed' \in Conan!Lists
         /\ modlist' \in Seq([id: Published, pak: Conan!Range(PakOf)])
         /\ accidents' \in Nat /\ moved' \in SUBSET Published /\ torn' \in BOOLEAN
<1>1. /\ library \in [Published -> Conan!Versions \cup {0}]
      /\ modlist \in Seq([id: Published, pak: Conan!Range(PakOf)])
      /\ accidents \in Nat /\ moved \in SUBSET Published
  BY SamePak DEF Conan!TypeOK
<1>2. CASE Conan!Saves(list)
  <2>1. Conan!Lines(list) \in Seq([id: Published, pak: Conan!Range(PakOf)])
    BY <1>1, LinesOf
  <2> QED BY <1>1, <1>2, <2>1 DEF Conan!Saves
<1>3. CASE Conan!SavesHalf(list)
  BY <1>1, <1>3 DEF Conan!SavesHalf
<1> QED BY <1>2, <1>3

\* A user's choice is carried out and no other is touched.
LEMMA ChoiceMade ==
  ASSUME Conan!TypeOK, ChoicesHold, NEW w \in Published, NEW what \in {"out", "on", "off"},
         Conan!Wants(w, what), StateIn(listed', w) = what,
         \A x : x # w => StateIn(listed', x) = StateIn(listed, x)
  PROVE  /\ ChoicesHold' /\ asked' \in [Published -> {"out", "on", "off"}]
         /\ undone' \in SUBSET Published
<1>1. asked \in [Published -> {"out", "on", "off"}] /\ undone \in SUBSET Published
  BY DEF Conan!TypeOK
<1>2. /\ asked' = [asked EXCEPT ![w] = what] /\ undone' = undone \ {w}
  BY DEF Conan!Wants
<1>3. ASSUME NEW x \in Published, x \notin undone' PROVE StateIn(listed', x) = asked'[x]
  <2>1. CASE x = w
    BY <1>1, <1>2, <2>1
  <2>2. CASE x # w
    BY <1>1, <1>2, <1>3, <2>2 DEF ChoicesHold
  <2> QED BY <2>1, <2>2
<1> QED BY <1>1, <1>2, <1>3 DEF ChoicesHold

\* A save of what was read before undoes the choices that it changes.
LEMMA ReadSaved ==
  ASSUME Conan!TypeOK, ChoicesHold, NEW read,
         undone' = undone \cup Conan!Changed(read), asked' = asked,
         \A x : StateIn(listed', x) = StateIn(read, x)
  PROVE  ChoicesHold' /\ undone' \in SUBSET Published
<1>1. \A x : Conan!StateIn(read, x) = StateIn(read, x) /\ Conan!StateIn(listed, x) = StateIn(listed, x)
  BY SameStore
<1>2. \A w \in Published : w \notin undone' => StateIn(read, w) = StateIn(listed, w)
  BY <1>1 DEF Conan!Changed
<1>3. undone \in SUBSET Published /\ Conan!Changed(read) \in SUBSET Published
  BY DEF Conan!TypeOK, Conan!Changed
<1> QED BY <1>2, <1>3 DEF ChoicesHold

\* Steps that leave the list, and what users asked for, alone.
LEMMA ChoicesKept ==
  ASSUME ChoicesHold, UNCHANGED <<listed, asked, undone>> PROVE ChoicesHold'
BY DEF ChoicesHold

\* A switch, an order or a removal ends in the step that began it.
LEMMA ListTask ==
  ASSUME Conan!ConanModsAssumption, ChoiceInv, Conan!StartsTask, NEW list \in Conan!Lists,
         Conan!Saves(list) \/ Conan!SavesHalf(list),
         UNCHANGED <<library, onSteam, task, page>>, ChoicesHold',
         asked' \in [Published -> {"out", "on", "off"}], undone' \in SUBSET Published
  PROVE  ChoiceInv'
<1>1. /\ listed' \in Conan!Lists /\ modlist' \in Seq([id: Published, pak: Conan!Range(PakOf)])
      /\ accidents' \in Nat /\ moved' \in SUBSET Published /\ torn' \in BOOLEAN
  BY ListSaved DEF ChoiceInv
<1>2. tasks' \in Nat
  BY DEF ChoiceInv, Conan!TypeOK, Conan!StartsTask
<1>3. Conan!TypeOK'
  BY <1>1, <1>2 DEF ChoiceInv, Conan!TypeOK
<1> QED BY <1>3 DEF ChoiceInv, Downloaded

LEMMA SetEnabledChoice ==
  ASSUME Conan!ConanModsAssumption, ChoiceInv, NEW w \in Published, NEW on \in BOOLEAN,
         Conan!SetEnabled(w, on)
  PROVE  ChoiceInv'
<1> DEFINE list == Conan!Switched(listed, w, on)
<1>1. listed \in Conan!Lists /\ w \in IdsIn(listed)
  BY SameStore DEF ChoiceInv, Conan!TypeOK, Conan!SetEnabled
<1>2. /\ list \in Conan!Lists /\ StateIn(list, w) = IF on THEN "on" ELSE "off"
      /\ \A x : x # w => StateIn(list, x) = StateIn(listed, x)
  BY <1>1, SwitchedKeeps
<1>3. Conan!Saves(list) \/ Conan!SavesHalf(list)
  BY DEF Conan!SetEnabled
<1> HIDE DEF list
<1>4. listed' = list
  BY <1>2, <1>3, ListSaved DEF ChoiceInv
<1>5. Conan!Wants(w, IF on THEN "on" ELSE "off")
  BY DEF Conan!SetEnabled
<1>6. /\ ChoicesHold' /\ asked' \in [Published -> {"out", "on", "off"}]
      /\ undone' \in SUBSET Published
  BY <1>2, <1>4, <1>5, ChoiceMade DEF ChoiceInv
<1> QED BY <1>2, <1>3, <1>6, ListTask DEF Conan!SetEnabled

LEMMA RemoveModChoice ==
  ASSUME Conan!ConanModsAssumption, ChoiceInv, NEW w \in Published, Conan!RemoveMod(w)
  PROVE  ChoiceInv'
<1> DEFINE list == Conan!Without(listed, w)
<1>1. listed \in Conan!Lists
  BY DEF ChoiceInv, Conan!TypeOK
<1>2. /\ list \in Conan!Lists /\ StateIn(list, w) = "out"
      /\ \A x : x # w => StateIn(list, x) = StateIn(listed, x)
  BY <1>1, WithoutKeepsOthers
<1>3. Conan!Saves(list) \/ Conan!SavesHalf(list)
  BY DEF Conan!RemoveMod
<1> HIDE DEF list
<1>4. listed' = list
  BY <1>2, <1>3, ListSaved DEF ChoiceInv
<1>5. Conan!Wants(w, "out")
  BY DEF Conan!RemoveMod
<1>6. /\ ChoicesHold' /\ asked' \in [Published -> {"out", "on", "off"}]
      /\ undone' \in SUBSET Published
  BY <1>2, <1>4, <1>5, ChoiceMade DEF ChoiceInv
<1> QED BY <1>2, <1>3, <1>6, ListTask DEF Conan!RemoveMod

LEMMA ReorderChoice ==
  ASSUME Conan!ConanModsAssumption, ChoiceInv, NEW some, NEW order \in Conan!SetToSeqs(some),
         Conan!Reorder(order)
  PROVE  ChoiceInv'
<1> DEFINE list == Conan!Reordered(listed, order)
<1>1. listed \in Conan!Lists
  BY DEF ChoiceInv, Conan!TypeOK
<1>2. list \in Conan!Lists /\ \A x : StateIn(list, x) = StateIn(listed, x)
  BY <1>1, ReorderedKeeps
<1>3. Conan!Saves(list) \/ Conan!SavesHalf(list)
  BY DEF Conan!Reorder
<1> HIDE DEF list
<1>4. listed' = list
  BY <1>2, <1>3, ListSaved DEF ChoiceInv
<1>5. UNCHANGED <<asked, undone>>
  BY DEF Conan!Reorder
<1>6. ChoicesHold'
  BY <1>2, <1>4, <1>5 DEF ChoiceInv, ChoicesHold
<1>7. asked' \in [Published -> {"out", "on", "off"}] /\ undone' \in SUBSET Published
  BY <1>5 DEF ChoiceInv, Conan!TypeOK
<1> QED BY <1>2, <1>3, <1>6, <1>7, ListTask DEF Conan!Reorder


LEMMA NoVersion == Conan!None = 0 /\ Conan!Task = "task"
BY DEF Conan!None, Conan!Task

LEMMA VersionIsSome == ASSUME NEW v \in Conan!Versions PROVE v # 0 /\ v \in Nat
BY DEF Conan!Versions

\* What TypeOK says, by the names that are used here.
LEMMA ConanTypes ==
  ASSUME Conan!TypeOK
  PROVE  /\ listed \in Conan!Lists /\ task \in Conan!Works
         /\ library \in [Published -> Conan!Versions \cup {0}]
         /\ onSteam \in [Published -> Conan!Versions]
         /\ page \in [Pages \cup {"task"} -> [kind: {"none", "view", "check"}, read: Conan!Lists]]
         /\ task.at \in {"download", "install"} => task.latest # 0
         /\ tasks \in Nat /\ accidents \in Nat
         /\ undone \in SUBSET Published /\ moved \in SUBSET Published
<1>1. listed \in Conan!Lists /\ task \in Conan!Works
  BY DEF Conan!TypeOK
<1>2. /\ library \in [Published -> Conan!Versions \cup {0}]
      /\ onSteam \in [Published -> Conan!Versions]
  BY NoVersion DEF Conan!TypeOK
<1>3. page \in [Pages \cup {"task"} -> [kind: {"none", "view", "check"}, read: Conan!Lists]]
  BY NoVersion DEF Conan!TypeOK
<1>4. task.at \in {"download", "install"} => task.latest # 0
  BY NoVersion DEF Conan!TypeOK
<1>5. tasks \in Nat /\ accidents \in Nat /\ undone \in SUBSET Published /\ moved \in SUBSET Published
  BY DEF Conan!TypeOK
<1> QED BY <1>1, <1>2, <1>3, <1>4, <1>5

LEMMA NewWork ==
  ASSUME NEW w \in Published, NEW b \in BOOLEAN
  PROVE  LET t == [Conan!NoTask EXCEPT !.kind = "install", !.id = {w}, !.at = "details", !.force = b]
         IN t \in Conan!Works /\ t.at = "details"
BY NoVersion DEF Conan!Works, Conan!NoTask

LEMMA NoWork ==
  /\ Conan!NoTask \in Conan!Works /\ Conan!NoTask.at = "idle"
  /\ LET t == [Conan!NoTask EXCEPT !.kind = "all", !.at = "check"]
     IN t \in Conan!Works /\ t.at = "check"
BY NoVersion DEF Conan!Works, Conan!NoTask

LEMMA NextWork ==
  ASSUME NEW t \in Conan!Works, NEW w \in Published
  PROVE  LET n == [t EXCEPT !.at = "details", !.id = {w}, !.force = TRUE, !.todo = @ \ {w}]
         IN n \in Conan!Works /\ n.at = "details"
BY DEF Conan!Works

LEMMA WorkFound ==
  ASSUME NEW t \in Conan!Works, NEW v \in Conan!Versions
  PROVE  LET n == [t EXCEPT !.at = "download", !.latest = v]
         IN n \in Conan!Works /\ n.at = "download" /\ n.latest = v
BY DEF Conan!Works

LEMMA WorkLoaded ==
  ASSUME NEW t \in Conan!Works
  PROVE  LET n == [t EXCEPT !.at = "install"]
         IN n \in Conan!Works /\ n.latest = t.latest /\ n.id = t.id
BY DEF Conan!Works

LEMMA WorkGoesOn ==
  ASSUME NEW t \in Conan!Works, NEW some \in SUBSET Published
  PROVE  /\ [t EXCEPT !.at = "next"] \in Conan!Works /\ [t EXCEPT !.at = "next"].at = "next"
         /\ LET n == [t EXCEPT !.at = "next", !.todo = some]
            IN n \in Conan!Works /\ n.at = "next"
BY DEF Conan!Works

LEMMA PageReads ==
  ASSUME Conan!TypeOK, NEW p \in Pages \cup {"task"}, NEW kind \in {"none", "view", "check"},
         NEW read \in Conan!Lists
  PROVE  [page EXCEPT ![p] = [kind |-> kind, read |-> read]]
           \in [Pages \cup {"task"} -> [kind: {"none", "view", "check"}, read: Conan!Lists]]
BY ConanTypes

LEMMA InstallBeginsChoice ==
  ASSUME Conan!ConanModsAssumption, ChoiceInv, NEW w \in Published, NEW b \in BOOLEAN,
         Conan!InstallBegins(w, b)
  PROVE  ChoiceInv'
<1>1. task' \in Conan!Works /\ task'.at = "details" /\ tasks' \in Nat
  <2>1. tasks' = tasks + 1 /\ tasks \in Nat
    BY ConanTypes DEF ChoiceInv, Conan!InstallBegins, Conan!StartsTask
  <2>2. task' = [Conan!NoTask EXCEPT !.kind = "install", !.id = {w}, !.at = "details", !.force = b]
    BY DEF Conan!InstallBegins
  <2>3. task' \in Conan!Works /\ task'.at = "details"
    BY <2>2, NewWork
  <2> QED BY <2>1, <2>3
<1>2. Conan!TypeOK'
  BY <1>1 DEF ChoiceInv, Conan!TypeOK, Conan!InstallBegins
<1> QED BY <1>1, <1>2, ChoicesKept DEF ChoiceInv, Downloaded, Conan!InstallBegins

LEMMA GetsDetailsChoice ==
  ASSUME Conan!ConanModsAssumption, ChoiceInv, NEW w \in Published, Conan!GetsDetails(w)
  PROVE  ChoiceInv'
<1>1. onSteam[w] \in Conan!Versions /\ onSteam[w] # 0 /\ task \in Conan!Works
  BY ConanTypes, VersionIsSome DEF ChoiceInv
<1>2. /\ task' \in Conan!Works /\ task'.at = "download" /\ task'.latest = onSteam[w]
  BY <1>1, WorkFound DEF Conan!GetsDetails
<1>3. Conan!TypeOK'
  BY <1>1, <1>2, NoVersion DEF ChoiceInv, Conan!TypeOK, Conan!GetsDetails
<1> QED BY <1>2, <1>3, ChoicesKept DEF ChoiceInv, Downloaded, Conan!GetsDetails

LEMMA DownloadsChoice ==
  ASSUME Conan!ConanModsAssumption, ChoiceInv, NEW w \in Published, Conan!Downloads(w)
  PROVE  ChoiceInv'
<1>1. /\ onSteam[w] \in Conan!Versions /\ task \in Conan!Works
      /\ library \in [Published -> Conan!Versions \cup {0}]
      /\ task.at = "download" /\ task.latest # 0 /\ task.id = {w}
  BY ConanTypes DEF ChoiceInv, Conan!Downloads
<1>2. task' = [task EXCEPT !.at = "install"]
  BY DEF Conan!Downloads
<1>3. task' \in Conan!Works /\ task'.latest = task.latest /\ task'.id = {w}
  BY <1>1, <1>2, WorkLoaded
<1>4. /\ library' \in [Published -> Conan!Versions \cup {0}] /\ library'[w] # 0
      /\ moved' \in SUBSET Published
  <2>1. moved \in SUBSET Published
    BY DEF ChoiceInv, Conan!TypeOK
  <2>2. CASE library[w] # 0 /\ ~task.force
    BY <1>1, <2>1, <2>2, NoVersion DEF Conan!Downloads
  <2>3. CASE ~(library[w] # 0 /\ ~task.force)
    BY <1>1, <2>1, <2>3, NoVersion DEF Conan!Downloads, Conan!Versions
  <2> QED BY <2>2, <2>3
<1>5. Conan!TypeOK'
  BY <1>1, <1>3, <1>4, NoVersion DEF ChoiceInv, Conan!TypeOK, Conan!Downloads
<1> QED BY <1>3, <1>4, <1>5, ChoicesKept DEF ChoiceInv, Downloaded, Conan!Downloads

LEMMA DownloadFailsChoice ==
  ASSUME Conan!ConanModsAssumption, ChoiceInv, NEW w \in Published, Conan!DownloadFails(w)
  PROVE  ChoiceInv'
<1>1. /\ onSteam[w] \in Conan!Versions /\ task \in Conan!Works
      /\ library \in [Published -> Conan!Versions \cup {0}] /\ moved \in SUBSET Published
      /\ accidents \in Nat
  BY ConanTypes DEF ChoiceInv
<1>2. task' \in Conan!Works /\ task'.at = "idle"
  BY NoWork DEF Conan!DownloadFails
<1>3. /\ library' \in [Published -> Conan!Versions \cup {0}] /\ moved' \in SUBSET Published
      /\ accidents' \in Nat
  BY <1>1, NoVersion DEF Conan!DownloadFails
<1>4. Conan!TypeOK'
  BY <1>2, <1>3, NoVersion DEF ChoiceInv, Conan!TypeOK, Conan!DownloadFails
<1> QED BY <1>2, <1>4, ChoicesKept DEF ChoiceInv, Downloaded, Conan!DownloadFails

LEMMA InstallsChoice ==
  ASSUME Conan!ConanModsAssumption, ChoiceInv, NEW w \in Published, Conan!Installs(w)
  PROVE  ChoiceInv'
<1> DEFINE list == Conan!Installed(listed, w, task.latest)
           what == IF w \in IdsIn(listed) /\ ~Entry(listed, w).on THEN "off" ELSE "on"
<1>1. /\ listed \in Conan!Lists /\ task \in Conan!Works /\ task.latest \in Conan!Versions
      /\ library[w] \in Conan!Versions
  <2>1. task \in Conan!Works /\ task.at = "install" /\ task.id = {w} /\ task.latest # 0
    BY ConanTypes DEF ChoiceInv, Conan!Installs
  <2>2. task.latest \in Conan!Versions
    BY <2>1, NoVersion DEF Conan!Works
  <2>3. library[w] \in Conan!Versions
    BY <2>1, ConanTypes DEF ChoiceInv, Downloaded
  <2> QED BY <2>1, <2>2, <2>3 DEF ChoiceInv, Conan!TypeOK
<1>2. /\ list \in Conan!Lists /\ StateIn(list, w) = what
      /\ \A x : x # w => StateIn(list, x) = StateIn(listed, x)
  BY <1>1, InstalledKeeps
<1>3. Conan!Saves(list) \/ Conan!SavesHalf(list)
  BY DEF Conan!Installs
<1>4. Conan!Wants(w, what) /\ what \in {"out", "on", "off"}
  BY SameStore DEF Conan!Installs
<1>5. UNCHANGED <<library, onSteam, tasks>>
  BY DEF Conan!Installs
<1>6. \/ /\ page' = [page EXCEPT !["task"] = [kind |-> "view", read |-> Sorted(listed')]]
         /\ task' = IF task.kind = "all" THEN [task EXCEPT !.at = "next"] ELSE Conan!NoTask
      \/ task' = Conan!NoTask /\ UNCHANGED page
  <2>1. Conan!Sorted(listed') = Sorted(listed')
    BY SameStore
  <2> QED BY <2>1, NoVersion DEF Conan!Installs
<1> HIDE DEF list, what
<1>7. /\ listed' = list /\ listed' \in Conan!Lists
      /\ modlist' \in Seq([id: Published, pak: Conan!Range(PakOf)])
      /\ accidents' \in Nat /\ moved' \in SUBSET Published /\ torn' \in BOOLEAN
  BY <1>2, <1>3, ListSaved DEF ChoiceInv
<1>8. /\ ChoicesHold' /\ asked' \in [Published -> {"out", "on", "off"}]
      /\ undone' \in SUBSET Published
  BY <1>2, <1>4, <1>7, ChoiceMade DEF ChoiceInv
<1>9. task' \in Conan!Works /\ task'.at \in {"next", "idle"}
  BY <1>1, <1>6, WorkGoesOn, NoWork
<1>10. page' \in [Pages \cup {"task"} -> [kind: {"none", "view", "check"}, read: Conan!Lists]]
  <2>1. Sorted(listed') \in Conan!Lists
    BY <1>7, SortedLists
  <2>2. page \in [Pages \cup {"task"} -> [kind: {"none", "view", "check"}, read: Conan!Lists]]
    BY ConanTypes DEF ChoiceInv
  <2> QED BY <1>6, <2>1, <2>2, PageReads DEF ChoiceInv
<1>11. Conan!TypeOK'
  BY <1>5, <1>7, <1>8, <1>9, <1>10, NoVersion DEF ChoiceInv, Conan!TypeOK
<1> QED BY <1>8, <1>9, <1>11 DEF ChoiceInv, Downloaded


LEMMA SomePage == ASSUME NEW p \in Pages \cup {Conan!Task} PROVE p \in Pages \cup {"task"}
BY NoVersion

LEMMA NoPageRead ==
  /\ Conan!NoPage = [kind |-> "none", read |-> <<>>]
  /\ Conan!NoPage \in [kind: {"none", "view", "check"}, read: Conan!Lists]
BY EmptyList DEF Conan!NoPage

LEMMA PageEnds ==
  ASSUME Conan!TypeOK, NEW p \in Pages \cup {"task"}
  PROVE  [page EXCEPT ![p] = Conan!NoPage]
           \in [Pages \cup {"task"} -> [kind: {"none", "view", "check"}, read: Conan!Lists]]
BY EmptyList, NoPageRead, PageReads

LEMMA PageBeginsChoice ==
  ASSUME Conan!ConanModsAssumption, ChoiceInv, NEW p \in Pages, NEW kind \in {"view", "check"},
         Conan!PageBegins(p, kind)
  PROVE  ChoiceInv'
<1>1. page' = [page EXCEPT ![p] = [kind |-> kind, read |-> listed]]
  BY DEF Conan!PageBegins, Conan!Reads
<1>2. page' \in [Pages \cup {"task"} -> [kind: {"none", "view", "check"}, read: Conan!Lists]]
  BY <1>1, ConanTypes, PageReads DEF ChoiceInv
<1>3. Conan!TypeOK'
  BY <1>2, NoVersion DEF ChoiceInv, Conan!TypeOK, Conan!PageBegins
<1> QED BY <1>3, ChoicesKept DEF ChoiceInv, Downloaded, Conan!PageBegins

LEMMA CheckBeginsChoice ==
  ASSUME Conan!ConanModsAssumption, ChoiceInv, NEW all \in BOOLEAN, Conan!CheckBegins(all)
  PROVE  ChoiceInv'
<1>1. page' = [page EXCEPT !["task"] = [kind |-> "check", read |-> listed]]
  BY NoVersion DEF Conan!CheckBegins, Conan!Reads
<1>2. page' \in [Pages \cup {"task"} -> [kind: {"none", "view", "check"}, read: Conan!Lists]]
  BY <1>1, ConanTypes, PageReads DEF ChoiceInv
<1>3. task' \in Conan!Works /\ task'.at \in {"check", "idle"}
  BY NoWork DEF Conan!CheckBegins
<1>4. tasks' \in Nat
  BY ConanTypes DEF ChoiceInv, Conan!CheckBegins, Conan!StartsTask
<1>5. Conan!TypeOK'
  BY <1>2, <1>3, <1>4, NoVersion DEF ChoiceInv, Conan!TypeOK, Conan!CheckBegins
<1> QED BY <1>3, <1>5, ChoicesKept DEF ChoiceInv, Downloaded, Conan!CheckBegins

LEMMA ViewEndsChoice ==
  ASSUME Conan!ConanModsAssumption, ChoiceInv, NEW p \in Pages \cup {"task"}, Conan!ViewEnds(p)
  PROVE  ChoiceInv'
<1> DEFINE read == page[p].read
           list == Conan!Refreshed(read)
<1>1. /\ read \in Conan!Lists /\ task \in Conan!Works
      /\ library \in [Published -> Conan!Versions \cup {0}]
      /\ undone \in SUBSET Published /\ moved \in SUBSET Published
  BY ConanTypes DEF ChoiceInv
<1>2. page' \in [Pages \cup {"task"} -> [kind: {"none", "view", "check"}, read: Conan!Lists]]
  <2>1. page' = [page EXCEPT ![p] = Conan!NoPage]
    BY DEF Conan!ViewEnds
  <2> QED BY <2>1, PageEnds DEF ChoiceInv
<1>3. UNCHANGED <<library, onSteam, tasks, asked>>
  BY DEF Conan!ViewEnds
<1>4. CASE Conan!FindsOthers(p)
  <2>1. list \in Conan!Lists /\ \A x : StateIn(list, x) = StateIn(read, x)
    BY <1>1, RefreshedKeeps
  <2>2. /\ Conan!Saves(list) \/ Conan!SavesHalf(list)
        /\ undone' = undone \cup Conan!Changed(read)
        /\ task' = task \/ task' = Conan!NoTask
    BY <1>4 DEF Conan!FindsOthers
  <2> HIDE DEF list, read
  <2>3. /\ listed' = list /\ listed' \in Conan!Lists
        /\ modlist' \in Seq([id: Published, pak: Conan!Range(PakOf)])
        /\ accidents' \in Nat /\ moved' \in SUBSET Published /\ torn' \in BOOLEAN
    BY <2>1, <2>2, ListSaved DEF ChoiceInv
  <2>4. ChoicesHold' /\ undone' \in SUBSET Published
    BY <1>3, <2>1, <2>2, <2>3, ReadSaved DEF ChoiceInv
  <2>5. task' \in Conan!Works /\ (task' = task \/ task'.at = "idle")
    BY <1>1, <2>2, NoWork
  <2>6. Conan!TypeOK'
    BY <1>2, <1>3, <2>3, <2>4, <2>5, NoVersion DEF ChoiceInv, Conan!TypeOK
  <2> QED BY <1>3, <2>4, <2>5, <2>6 DEF ChoiceInv, Downloaded
<1>5. CASE Conan!FindsTheSame(p)
  <2>1. moved' \in SUBSET Published
    BY <1>1, <1>5 DEF Conan!FindsTheSame
  <2>2. Conan!TypeOK'
    BY <1>2, <1>3, <1>5, <2>1, NoVersion DEF ChoiceInv, Conan!TypeOK, Conan!FindsTheSame
  <2> QED BY <1>3, <1>5, <2>2, ChoicesKept DEF ChoiceInv, Downloaded, Conan!FindsTheSame
<1> QED BY <1>4, <1>5 DEF Conan!ViewEnds

LEMMA CheckEndsChoice ==
  ASSUME Conan!ConanModsAssumption, ChoiceInv, NEW p \in Pages \cup {"task"}, Conan!CheckEnds(p)
  PROVE  ChoiceInv'
<1> DEFINE read == page[p].read
<1>1. /\ read \in Conan!Lists /\ task \in Conan!Works /\ undone \in SUBSET Published
  BY ConanTypes DEF ChoiceInv
<1>2. page' \in [Pages \cup {"task"} -> [kind: {"none", "view", "check"}, read: Conan!Lists]]
  <2>1. page' = [page EXCEPT ![p] = Conan!NoPage]
    BY DEF Conan!CheckEnds
  <2> QED BY <2>1, PageEnds DEF ChoiceInv
<1>3. task' \in Conan!Works /\ (task' = task \/ task'.at = "next")
  <2>1. Conan!IdsIn(read) \in SUBSET Published
    <3>1. \A k \in DOMAIN read : read[k].id \in Published
      BY <1>1, ListFields
    <3> QED BY <3>1 DEF Conan!IdsIn
  <2>2. Conan!Newer(read) \in SUBSET Published
    BY <2>1 DEF Conan!Newer
  <2>3. task' = task \/ task' = [task EXCEPT !.at = "next", !.todo = Conan!Newer(read)]
    BY DEF Conan!CheckEnds
  <2> HIDE DEF read
  <2> QED BY <1>1, <2>2, <2>3, WorkGoesOn
<1>4. /\ listed' = read /\ asked' = asked /\ undone' = undone \cup Conan!Changed(read)
      /\ torn' \in BOOLEAN
      /\ UNCHANGED <<modlist, library, onSteam, tasks, accidents, moved>>
  BY DEF Conan!CheckEnds
<1> HIDE DEF read
<1>5. ChoicesHold' /\ undone' \in SUBSET Published
  <2>1. \A x : StateIn(listed', x) = StateIn(read, x)
    BY <1>4
  <2> QED BY <1>4, <2>1, ReadSaved DEF ChoiceInv
<1>6. Conan!TypeOK'
  BY <1>1, <1>2, <1>3, <1>4, <1>5, NoVersion DEF ChoiceInv, Conan!TypeOK
<1> QED BY <1>3, <1>4, <1>5, <1>6 DEF ChoiceInv, Downloaded

LEMMA NextUpdateChoice ==
  ASSUME Conan!ConanModsAssumption, ChoiceInv, Conan!NextUpdate PROVE ChoiceInv'
<1>1. task \in Conan!Works /\ task.todo \in SUBSET Published /\ listed \in Conan!Lists
  BY ConanTypes DEF ChoiceInv, Conan!Works
<1>2. CASE \E w \in task.todo :
             /\ task' = [task EXCEPT !.at = "details", !.id = {w}, !.force = TRUE, !.todo = @ \ {w}]
             /\ UNCHANGED page
  <2>1. task' \in Conan!Works /\ task'.at = "details" /\ UNCHANGED page
    <3>1. PICK w \in task.todo :
               /\ task' = [task EXCEPT !.at = "details", !.id = {w}, !.force = TRUE, !.todo = @ \ {w}]
               /\ UNCHANGED page
      BY <1>2
    <3>2. w \in Published
      BY <1>1
    <3> QED BY <1>1, <3>1, <3>2, NextWork
  <2>2. Conan!TypeOK'
    BY <2>1, NoVersion DEF ChoiceInv, Conan!TypeOK, Conan!NextUpdate
  <2> QED BY <2>1, <2>2, ChoicesKept DEF ChoiceInv, Downloaded, Conan!NextUpdate
<1>3. CASE Conan!Reads(Conan!Task, "view") /\ task' = Conan!NoTask
  <2>1. page' = [page EXCEPT !["task"] = [kind |-> "view", read |-> listed]]
    BY <1>3, NoVersion DEF Conan!Reads
  <2>2. page' \in [Pages \cup {"task"} -> [kind: {"none", "view", "check"}, read: Conan!Lists]]
    BY <1>1, <2>1, PageReads DEF ChoiceInv
  <2>3. task' \in Conan!Works /\ task'.at = "idle"
    BY <1>3, NoWork
  <2>4. Conan!TypeOK'
    BY <2>2, <2>3, NoVersion DEF ChoiceInv, Conan!TypeOK, Conan!NextUpdate
  <2> QED BY <2>3, <2>4, ChoicesKept DEF ChoiceInv, Downloaded, Conan!NextUpdate
<1> QED BY <1>2, <1>3 DEF Conan!NextUpdate

LEMMA InterruptedChoice ==
  ASSUME Conan!ConanModsAssumption, ChoiceInv, Conan!Interrupted PROVE ChoiceInv'
<1>1. page' \in [Pages \cup {"task"} -> [kind: {"none", "view", "check"}, read: Conan!Lists]]
  BY NoPageRead, NoVersion DEF Conan!Interrupted
<1>2. task' \in Conan!Works /\ task'.at = "idle" /\ accidents' \in Nat
  BY NoWork, ConanTypes DEF ChoiceInv, Conan!Interrupted
<1>3. Conan!TypeOK'
  BY <1>1, <1>2, NoVersion DEF ChoiceInv, Conan!TypeOK, Conan!Interrupted
<1> QED BY <1>2, <1>3, ChoicesKept DEF ChoiceInv, Downloaded, Conan!Interrupted

LEMMA NewVersionChoice ==
  ASSUME Conan!ConanModsAssumption, ChoiceInv, NEW w \in Published, Conan!NewVersion(w)
  PROVE  ChoiceInv'
<1>1. onSteam' \in [Published -> Conan!Versions]
  <2>1. onSteam \in [Published -> Conan!Versions] /\ onSteam[w] < MaxVersion /\ MaxVersion \in Nat
    BY ConanTypes DEF ChoiceInv, Conan!NewVersion, Conan!ConanModsAssumption
  <2>2. onSteam[w] + 1 \in Conan!Versions
    BY <2>1 DEF Conan!Versions
  <2> QED BY <2>1, <2>2 DEF Conan!NewVersion
<1>2. Conan!TypeOK'
  BY <1>1, NoVersion DEF ChoiceInv, Conan!TypeOK, Conan!NewVersion
<1> QED BY <1>2, ChoicesKept DEF ChoiceInv, Downloaded, Conan!NewVersion

LEMMA ConanInitInv == ASSUME Conan!ConanModsAssumption, Conan!Init PROVE ChoiceInv
<1>1. /\ listed \in Conan!Lists /\ modlist \in Seq([id: Published, pak: Conan!Range(PakOf)])
  BY EmptyList DEF Conan!Init
<1>2. /\ library \in [Published -> Conan!Versions \cup {0}]
      /\ onSteam \in [Published -> Conan!Versions]
  BY NoVersion DEF Conan!Init, Conan!Versions, Conan!ConanModsAssumption
<1>3. page \in [Pages \cup {"task"} -> [kind: {"none", "view", "check"}, read: Conan!Lists]]
  BY NoPageRead, NoVersion DEF Conan!Init
<1>4. task \in Conan!Works /\ task.at = "idle"
  BY NoWork DEF Conan!Init
<1>5. /\ tasks \in Nat /\ accidents \in Nat /\ asked \in [Published -> {"out", "on", "off"}]
      /\ undone \in SUBSET Published /\ moved \in SUBSET Published /\ torn \in BOOLEAN
  BY DEF Conan!Init
<1>6. Conan!TypeOK
  BY <1>1, <1>2, <1>3, <1>4, <1>5, NoVersion DEF Conan!TypeOK
<1>7. ChoicesHold
  BY DEF ChoicesHold, Conan!Init, StateIn, IdsIn
<1> QED BY <1>4, <1>6, <1>7 DEF ChoiceInv, Downloaded

LEMMA ConanNextChoice ==
  ASSUME Conan!ConanModsAssumption, ChoiceInv, [Conan!Next]_Conan!vars PROVE ChoiceInv'
<1>1. CASE UNCHANGED Conan!vars
  <2>1. Conan!TypeOK'
    BY <1>1 DEF ChoiceInv, Conan!TypeOK, Conan!vars
  <2> QED BY <1>1, <2>1, ChoicesKept DEF ChoiceInv, Downloaded, Conan!vars
<1>2. CASE Conan!Operation
  BY <1>2, SetEnabledChoice, InstallBeginsChoice, RemoveModChoice, GetsDetailsChoice,
     DownloadsChoice, DownloadFailsChoice, InstallsChoice, ReorderChoice, CheckBeginsChoice,
     NextUpdateChoice DEF Conan!Operation
<1>3. CASE \E p \in Pages, kind \in {"view", "check"} : Conan!PageBegins(p, kind)
  BY <1>3, PageBeginsChoice
<1>4. CASE \E p \in Pages \cup {Conan!Task} : Conan!ViewEnds(p) \/ Conan!CheckEnds(p)
  BY <1>4, NoVersion, ViewEndsChoice, CheckEndsChoice
<1>5. CASE Conan!Interrupted \/ \E w \in Published : Conan!NewVersion(w)
  BY <1>5, InterruptedChoice, NewVersionChoice
<1> QED BY <1>1, <1>2, <1>3, <1>4, <1>5 DEF Conan!Next

LEMMA ConanInvariant == ASSUME Conan!ConanModsAssumption PROVE Conan!Spec => []ChoiceInv
<1>1. Conan!Init => ChoiceInv
  BY ConanInitInv
<1>2. ChoiceInv /\ [Conan!Next]_Conan!vars => ChoiceInv'
  BY ConanNextChoice
<1> QED BY <1>1, <1>2, PTL DEF Conan!Spec

\* What EGM stores of the mods of a Conan server, and what its tasks and pages have
\* read, keep their types; no mod is listed twice (conan_workshop.py: install).
THEOREM ConanTypesHold == ASSUME Conan!ConanModsAssumption PROVE Conan!Spec => []Conan!TypeOK
<1>1. ChoiceInv => Conan!TypeOK
  BY DEF ChoiceInv
<1> QED BY <1>1, ConanInvariant, PTL

\* A mod of a Conan server is in the state that was last asked for, unless a page or
\* a check that had read the list before saved it afterwards (conan_workshop.py:
\* install, with_update_status, check_updates).
THEOREM ConanFollowsUsers ==
  ASSUME Conan!ConanModsAssumption PROVE Conan!Spec => []ChoicesHold
<1>1. ChoiceInv => ChoicesHold
  BY DEF ChoiceInv
<1> QED BY <1>1, ConanInvariant, PTL


-----------------------------------------------------------------------------
(* The game loads the list of a Conan server                                *)

\* The file of an entry is that of a version which is not newer than what lies in
\* the folder, or, if that is empty, than what Steam has.
KnownFile(r, lib, steam) ==
  \E u \in Conan!Versions :
    /\ u <= steam[r.id] /\ r.pak = PakOf[u]
    /\ lib[r.id] # 0 => u <= lib[r.id]
KnownFiles(list, lib, steam) == \A k \in DOMAIN list : KnownFile(list[k], lib, steam)

\* A line for an entry is that of its version or of one between it and the folder's.
Traced(r, line, lib, steam) ==
  \E u, v \in Conan!Versions :
    /\ u <= v /\ v <= steam[r.id] /\ r.pak = PakOf[u] /\ line.pak = PakOf[v]
    /\ lib[r.id] # 0 => v <= lib[r.id]

FileNow(r, lib) == IF lib[r.id] # 0 THEN PakOf[lib[r.id]] ELSE r.pak

Agrees(list, lines, lib, steam, others) ==
  /\ DOMAIN lines = DOMAIN Enabled(list)
  /\ \A k \in DOMAIN lines :
       LET r == Enabled(list)[k] IN
         /\ lines[k].id = r.id /\ Traced(r, lines[k], lib, steam)
         /\ r.id \notin others => lines[k].pak = FileNow(r, lib)

FileInv ==
  /\ \A w \in Published : library[w] <= onSteam[w]
  /\ KnownFiles(listed, library, onSteam)
  /\ \A p \in Pages \cup {"task"} : KnownFiles(page[p].read, library, onSteam)
  /\ ~torn => Agrees(listed, modlist, library, onSteam, moved)

LEMMA PakNow == ASSUME NEW r PROVE Pak(r) = FileNow(r, library)
BY SamePak DEF Pak, FileNow

\* What is known stays so when Steam has a newer version and when SteamCMD has
\* replaced the files by the newest ones, or lost them.
Grows(w, lib, steam, lib2, steam2) ==
  steam[w] <= steam2[w] /\ lib2[w] \in {0, lib[w], steam[w]}

LEMMA KnownGrows ==
  ASSUME NEW lib \in [Published -> Conan!Versions \cup {0}], NEW steam \in [Published -> Conan!Versions],
         NEW lib2 \in [Published -> Conan!Versions \cup {0}], NEW steam2 \in [Published -> Conan!Versions],
         NEW list \in Conan!Lists, KnownFiles(list, lib, steam),
         \A w \in Published : Grows(w, lib, steam, lib2, steam2)
  PROVE  KnownFiles(list, lib2, steam2)
<1> SUFFICES ASSUME NEW k \in DOMAIN list PROVE KnownFile(list[k], lib2, steam2)
  BY DEF KnownFiles
<1> DEFINE w == list[k].id
<1>1. w \in Published /\ Grows(w, lib, steam, lib2, steam2)
  BY ListFields
<1>2. PICK u \in Conan!Versions :
        u <= steam[w] /\ list[k].pak = PakOf[u] /\ (lib[w] # 0 => u <= lib[w])
  BY DEF KnownFiles, KnownFile
<1>3. lib[w] \in Nat /\ lib2[w] \in Nat /\ steam[w] \in Nat /\ steam2[w] \in Nat /\ u \in Nat
  BY <1>1, VersionIsSome
<1> HIDE DEF w
<1>4. u <= steam2[w] /\ (lib2[w] # 0 => u <= lib2[w])
  BY <1>1, <1>2, <1>3 DEF Grows
<1> QED BY <1>2, <1>4 DEF KnownFile, w

LEMMA AgreesGrows ==
  ASSUME NEW lib \in [Published -> Conan!Versions \cup {0}], NEW steam \in [Published -> Conan!Versions],
         NEW lib2 \in [Published -> Conan!Versions \cup {0}], NEW steam2 \in [Published -> Conan!Versions],
         NEW list \in Conan!Lists, NEW lines, NEW others, NEW others2,
         Agrees(list, lines, lib, steam, others),
         \A w \in Published : Grows(w, lib, steam, lib2, steam2),
         \A w \in Published : w \notin others2 => w \notin others /\ lib2[w] = lib[w]
  PROVE  Agrees(list, lines, lib2, steam2, others2)
<1> SUFFICES ASSUME NEW k \in DOMAIN lines
             PROVE  LET r == Enabled(list)[k] IN
                      /\ lines[k].id = r.id /\ Traced(r, lines[k], lib2, steam2)
                      /\ r.id \notin others2 => lines[k].pak = FileNow(r, lib2)
  BY DEF Agrees
<1> DEFINE r == Enabled(list)[k]
           w == r.id
<1>1. /\ lines[k].id = r.id /\ Traced(r, lines[k], lib, steam)
      /\ r.id \notin others => lines[k].pak = FileNow(r, lib)
      /\ k \in DOMAIN Enabled(list)
  BY DEF Agrees
<1>2. w \in Published
  <2>1. Enabled(list) \in Conan!Lists
    BY EnabledListed
  <2> QED BY <1>1, <2>1, ListFields
<1> HIDE DEF r
<1>3. Grows(w, lib, steam, lib2, steam2)
  BY <1>2
<1>4. PICK u, v \in Conan!Versions :
        /\ u <= v /\ v <= steam[w] /\ r.pak = PakOf[u] /\ lines[k].pak = PakOf[v]
        /\ lib[w] # 0 => v <= lib[w]
  BY <1>1 DEF Traced
<1>5. lib[w] \in Nat /\ lib2[w] \in Nat /\ steam[w] \in Nat /\ steam2[w] \in Nat /\ v \in Nat
  BY <1>2, VersionIsSome
<1>6. Traced(r, lines[k], lib2, steam2)
  <2> HIDE DEF w
  <2>1. v <= steam2[w] /\ (lib2[w] # 0 => v <= lib2[w])
    BY <1>3, <1>4, <1>5 DEF Grows
  <2> QED BY <1>4, <2>1 DEF Traced, w
<1>7. w \notin others2 => lines[k].pak = FileNow(r, lib2)
  BY <1>1, <1>2 DEF FileNow
<1> QED BY <1>1, <1>6, <1>7 DEF r

\* A part, a copy or a switch of a list has the same files.
LEMMA SameFilesKnown ==
  ASSUME NEW list, NEW b, NEW lib, NEW steam, SameFiles(b, list), KnownFiles(list, lib, steam)
  PROVE  KnownFiles(b, lib, steam)
BY DEF KnownFiles, KnownFile, SameFiles

LEMMA SortedFiles == ASSUME NEW list \in Conan!Lists PROVE SameFiles(Sorted(list), list)
BY SortedLists DEF SameFiles

LEMMA InstalledKnown ==
  ASSUME Conan!ConanModsAssumption, Conan!TypeOK, FileInv, NEW w \in Published,
         NEW version \in Conan!Versions, library[w] \in Conan!Versions
  PROVE  KnownFiles(Conan!Installed(listed, w, version), library, onSteam)
<1> DEFINE b == Conan!Installed(listed, w, version)
<1>1. \A k \in DOMAIN b : \/ b[k].id = w /\ b[k].pak = PakOf[library[w]]
                          \/ \E j \in DOMAIN listed : b[k].id = listed[j].id /\ b[k].pak = listed[j].pak
  BY InstalledKeeps, ConanTypes
<1> HIDE DEF b
<1> SUFFICES ASSUME NEW k \in DOMAIN b PROVE KnownFile(b[k], library, onSteam)
  BY DEF KnownFiles, b
<1>2. CASE b[k].id = w /\ b[k].pak = PakOf[library[w]]
  <2>1. library[w] <= onSteam[w] /\ library[w] <= library[w]
    BY VersionIsSome DEF FileInv
  <2> QED BY <1>2, <2>1 DEF KnownFile
<1>3. CASE \E j \in DOMAIN listed : b[k].id = listed[j].id /\ b[k].pak = listed[j].pak
  BY <1>3 DEF FileInv, KnownFiles, KnownFile
<1> QED BY <1>1, <1>2, <1>3

\* What the page has found is what lies in the folder.
LEMMA RefreshedKnown ==
  ASSUME Conan!ConanModsAssumption, Conan!TypeOK, FileInv, NEW read \in Conan!Lists,
         KnownFiles(read, library, onSteam)
  PROVE  KnownFiles(Conan!Refreshed(read), library, onSteam)
<1> DEFINE b == Conan!Refreshed(read)
           sorted == Sorted(read)
<1>1. /\ library \in [Published -> Conan!Versions \cup {0}]
      /\ onSteam \in [Published -> Conan!Versions]
  BY ConanTypes
<1>2. /\ DOMAIN b = DOMAIN sorted
      /\ \A k \in DOMAIN sorted : b[k] = [sorted[k] EXCEPT !.pak = Pak(sorted[k])]
  BY <1>1, RefreshedKeeps
<1>3. sorted \in Conan!Lists /\ KnownFiles(sorted, library, onSteam)
  BY SortedLists, SortedFiles, SameFilesKnown
<1> HIDE DEF b, sorted
<1> SUFFICES ASSUME NEW k \in DOMAIN sorted PROVE KnownFile(b[k], library, onSteam)
  BY <1>2 DEF KnownFiles, b
<1> DEFINE r == sorted[k]
<1>4. r \in Conan!Entries /\ r.id \in Published
  BY <1>3, ListFields
<1>5. b[k] = [r EXCEPT !.pak = FileNow(r, library)] /\ KnownFile(r, library, onSteam)
  BY <1>2, <1>3, PakNow DEF KnownFiles
<1> HIDE DEF r
<1>6. b[k].id = r.id /\ b[k].pak = FileNow(r, library)
  BY <1>4, <1>5 DEF Conan!Entries
<1>7. CASE library[r.id] = 0
  BY <1>5, <1>6, <1>7 DEF KnownFile, FileNow
<1>8. CASE library[r.id] # 0
  <2>1. library[r.id] \in Conan!Versions /\ library[r.id] <= onSteam[r.id]
    BY <1>1, <1>4, <1>8 DEF FileInv
  <2>2. library[r.id] <= library[r.id]
    BY <2>1, VersionIsSome
  <2> QED BY <1>6, <1>8, <2>1, <2>2 DEF KnownFile, FileNow
<1> QED BY <1>7, <1>8

\* A complete save leaves the list and the game's list in agreement.
LEMMA LinesAgree ==
  ASSUME Conan!ConanModsAssumption, Conan!TypeOK, FileInv, NEW list \in Conan!Lists,
         KnownFiles(list, library, onSteam)
  PROVE  Agrees(list, Conan!Lines(list), library, onSteam, {})
<1> DEFINE lines == Conan!Lines(list)
           enabled == Enabled(list)
<1>1. /\ library \in [Published -> Conan!Versions \cup {0}]
      /\ onSteam \in [Published -> Conan!Versions]
  BY ConanTypes
<1>2. /\ DOMAIN lines = DOMAIN enabled
      /\ \A k \in DOMAIN enabled : lines[k].id = enabled[k].id /\ lines[k].pak = Pak(enabled[k])
  BY <1>1, LinesOf
<1>3. /\ \A k \in DOMAIN enabled : \E j \in DOMAIN list : enabled[k] = list[j]
      /\ \A k \in DOMAIN enabled : enabled[k].id \in Published
  BY EnabledListed, ListFields
<1> HIDE DEF lines, enabled
<1>4. ASSUME NEW k \in DOMAIN enabled
      PROVE  Traced(enabled[k], lines[k], library, onSteam) /\ lines[k].pak = FileNow(enabled[k], library)
  <2> DEFINE r == enabled[k]
  <2>1. /\ lines[k].pak = FileNow(r, library) /\ KnownFile(r, library, onSteam)
        /\ r.id \in Published
    BY <1>2, <1>3, PakNow DEF KnownFiles
  <2> HIDE DEF r
  <2>2. PICK u \in Conan!Versions : /\ u <= onSteam[r.id] /\ r.pak = PakOf[u]
                                    /\ library[r.id] # 0 => u <= library[r.id]
    BY <2>1 DEF KnownFile
  <2>3. CASE library[r.id] = 0
    <3>1. lines[k].pak = PakOf[u] /\ u <= u
      BY <2>1, <2>2, <2>3, VersionIsSome DEF FileNow
    <3>2. Traced(r, lines[k], library, onSteam)
      BY <2>2, <2>3, <3>1 DEF Traced
    <3> QED BY <2>1, <3>2 DEF r
  <2>4. CASE library[r.id] # 0
    <3>1. library[r.id] \in Conan!Versions /\ library[r.id] <= onSteam[r.id]
      BY <1>1, <2>1, <2>4 DEF FileInv
    <3>2. lines[k].pak = PakOf[library[r.id]] /\ library[r.id] <= library[r.id]
      BY <2>1, <2>4, <3>1, VersionIsSome DEF FileNow
    <3>3. Traced(r, lines[k], library, onSteam)
      BY <2>2, <2>4, <3>1, <3>2 DEF Traced
    <3> QED BY <2>1, <3>3 DEF r
  <2> QED BY <2>3, <2>4
<1> QED BY <1>2, <1>4 DEF Agrees, lines, enabled

\* If the page finds what it has read in mods.json, and that is still there, the
\* game's list names what lies in the folders: a name between two that are the
\* same is the same too.
LEMMA SameAgrees ==
  ASSUME Conan!ConanModsAssumption, Conan!TypeOK, FileInv, NamesDoNotReturn, ~torn,
         Conan!Refreshed(listed) = Sorted(listed)
  PROVE  Agrees(listed, modlist, library, onSteam, {w \in moved : library[w] = 0})
<1> DEFINE enabled == Enabled(listed)
           sorted == Sorted(listed)
<1>1. /\ library \in [Published -> Conan!Versions \cup {0}] /\ listed \in Conan!Lists
  BY ConanTypes
<1>2. \A n \in DOMAIN sorted : sorted[n] = [sorted[n] EXCEPT !.pak = FileNow(sorted[n], library)]
  BY <1>1, RefreshedKeeps, PakNow
<1>3. /\ \A n \in DOMAIN sorted : sorted[n] \in Conan!Entries
      /\ \A k \in DOMAIN enabled : \E n \in DOMAIN sorted : enabled[k] = sorted[n]
      /\ \A k \in DOMAIN enabled : enabled[k].id \in Published
  BY <1>1, SortedLists, EnabledListed, ListFields
<1> HIDE DEF enabled, sorted
<1>4. \A n \in DOMAIN sorted : sorted[n].pak = FileNow(sorted[n], library)
  <2> SUFFICES ASSUME NEW n \in DOMAIN sorted PROVE sorted[n].pak = FileNow(sorted[n], library)
    OBVIOUS
  <2> DEFINE r == sorted[n]
             file == FileNow(r, library)
  <2>1. r = [r EXCEPT !.pak = file] /\ r \in Conan!Entries
    BY <1>2, <1>3
  <2> HIDE DEF r, file
  <2>2. [r EXCEPT !.pak = file].pak = file
    BY <2>1 DEF Conan!Entries
  <2> QED BY <2>1, <2>2 DEF r, file
<1>5. \A k \in DOMAIN enabled : enabled[k].pak = FileNow(enabled[k], library)
  BY <1>3, <1>4
<1>6. Agrees(listed, modlist, library, onSteam, moved)
  BY DEF FileInv
<1>7. ASSUME NEW k \in DOMAIN modlist, enabled[k].id \notin {w \in moved : library[w] = 0}
      PROVE  modlist[k].pak = FileNow(enabled[k], library)
  <2> DEFINE r == enabled[k]
  <2>1. /\ k \in DOMAIN enabled /\ Traced(r, modlist[k], library, onSteam)
        /\ r.id \notin moved => modlist[k].pak = FileNow(r, library)
    BY <1>6 DEF Agrees, enabled
  <2>2. r.pak = FileNow(r, library) /\ r.id \in Published
    BY <1>3, <1>5, <2>1
  <2>3. CASE r.id \notin moved
    BY <2>1, <2>3
  <2>4. CASE library[r.id] # 0
    <3> HIDE DEF r
    <3>1. library[r.id] \in Conan!Versions
      BY <1>1, <2>2, <2>4
    <3>2. PICK u, v \in Conan!Versions :
            /\ u <= v /\ v <= library[r.id] /\ r.pak = PakOf[u] /\ modlist[k].pak = PakOf[v]
      BY <2>1, <2>4 DEF Traced
    <3>3. PakOf[u] = PakOf[library[r.id]]
      BY <2>2, <2>4, <3>2 DEF FileNow
    <3>4. Conan!Versions = DOMAIN PakOf
      BY DEF Conan!Versions, Conan!ConanModsAssumption
    <3>5. PakOf[v] = PakOf[u]
      BY <3>1, <3>2, <3>3, <3>4 DEF NamesDoNotReturn
    <3> QED BY <2>4, <3>2, <3>3, <3>5 DEF FileNow, r
  <2> QED BY <1>7, <2>3, <2>4
<1> QED BY <1>6, <1>7 DEF Agrees, enabled


LEMMA SavedFiles ==
  ASSUME Conan!ConanModsAssumption, Conan!TypeOK, FileInv, NEW list \in Conan!Lists,
         KnownFiles(list, library, onSteam), Conan!Saves(list) \/ Conan!SavesHalf(list),
         UNCHANGED <<library, onSteam>>
  PROVE  /\ \A w \in Published : library'[w] <= onSteam'[w]
         /\ KnownFiles(listed', library', onSteam')
         /\ ~torn' => Agrees(listed', modlist', library', onSteam', moved')
<1>1. CASE Conan!Saves(list)
  <2>1. Agrees(list, Conan!Lines(list), library, onSteam, {})
    BY LinesAgree
  <2> QED BY <1>1, <2>1 DEF FileInv, Conan!Saves
<1>2. CASE Conan!SavesHalf(list)
  BY <1>2 DEF FileInv, Conan!SavesHalf
<1> QED BY <1>1, <1>2

\* Pages that end, begin or stay know the files of what they have read.
LEMMA PagesKnow ==
  ASSUME Conan!TypeOK, FileInv, NEW p \in Pages \cup {"task"}, NEW kind, NEW read,
         KnownFiles(read, library, onSteam), UNCHANGED <<library, onSteam>>,
         page' = [page EXCEPT ![p] = [kind |-> kind, read |-> read]]
  PROVE  \A q \in Pages \cup {"task"} : KnownFiles(page'[q].read, library', onSteam')
<1> SUFFICES ASSUME NEW q \in Pages \cup {"task"} PROVE KnownFiles(page'[q].read, library, onSteam)
  OBVIOUS
<1>1. page \in [Pages \cup {"task"} -> [kind: {"none", "view", "check"}, read: Conan!Lists]]
  BY ConanTypes
<1>2. CASE q = p
  BY <1>1, <1>2
<1>3. CASE q # p
  <2>1. page'[q] = page[q]
    BY <1>1, <1>3
  <2> QED BY <2>1 DEF FileInv
<1> QED BY <1>2, <1>3

LEMMA EmptyKnown == ASSUME NEW lib, NEW steam PROVE KnownFiles(<<>>, lib, steam)
BY DEF KnownFiles

LEMMA PageGone ==
  ASSUME Conan!TypeOK, FileInv, NEW p \in Pages \cup {"task"}, UNCHANGED <<library, onSteam>>,
         page' = [page EXCEPT ![p] = Conan!NoPage]
  PROVE  \A q \in Pages \cup {"task"} : KnownFiles(page'[q].read, library', onSteam')
<1>1. page' = [page EXCEPT ![p] = [kind |-> "none", read |-> <<>>]]
  BY NoPageRead
<1> QED BY <1>1, EmptyKnown, PagesKnow

\* Steps that change no file, no list and no page.
LEMMA FilesStay ==
  ASSUME FileInv, UNCHANGED <<listed, modlist, library, onSteam, page, torn, moved>>
  PROVE  FileInv'
BY DEF FileInv

LEMMA ListTaskFiles ==
  ASSUME Conan!ConanModsAssumption, Conan!TypeOK, FileInv, NEW list \in Conan!Lists,
         SameFiles(list, listed), Conan!Saves(list) \/ Conan!SavesHalf(list),
         UNCHANGED <<library, onSteam, page>>
  PROVE  FileInv'
<1>1. KnownFiles(list, library, onSteam)
  BY SameFilesKnown DEF FileInv
<1>2. /\ \A w \in Published : library'[w] <= onSteam'[w]
      /\ KnownFiles(listed', library', onSteam')
      /\ ~torn' => Agrees(listed', modlist', library', onSteam', moved')
  BY <1>1, SavedFiles
<1>3. \A p \in Pages \cup {"task"} : KnownFiles(page'[p].read, library', onSteam')
  BY DEF FileInv
<1> QED BY <1>2, <1>3 DEF FileInv

LEMMA SetEnabledFiles ==
  ASSUME Conan!ConanModsAssumption, Conan!TypeOK, FileInv, NEW w \in Published, NEW on \in BOOLEAN,
         Conan!SetEnabled(w, on)
  PROVE  FileInv'
<1> DEFINE list == Conan!Switched(listed, w, on)
<1>1. listed \in Conan!Lists /\ w \in IdsIn(listed)
  BY SameStore, ConanTypes DEF Conan!SetEnabled
<1>2. list \in Conan!Lists /\ SameFiles(list, listed)
  BY <1>1, SwitchedKeeps
<1>3. Conan!Saves(list) \/ Conan!SavesHalf(list)
  BY DEF Conan!SetEnabled
<1> HIDE DEF list
<1> QED BY <1>2, <1>3, ListTaskFiles DEF Conan!SetEnabled

LEMMA RemoveModFiles ==
  ASSUME Conan!ConanModsAssumption, Conan!TypeOK, FileInv, NEW w \in Published, Conan!RemoveMod(w)
  PROVE  FileInv'
<1> DEFINE list == Conan!Without(listed, w)
<1>1. list \in Conan!Lists /\ SameFiles(list, listed)
  BY ConanTypes, WithoutKeepsOthers
<1>2. Conan!Saves(list) \/ Conan!SavesHalf(list)
  BY DEF Conan!RemoveMod
<1> HIDE DEF list
<1> QED BY <1>1, <1>2, ListTaskFiles DEF Conan!RemoveMod

LEMMA ReorderFiles ==
  ASSUME Conan!ConanModsAssumption, Conan!TypeOK, FileInv, NEW some,
         NEW order \in Conan!SetToSeqs(some), Conan!Reorder(order)
  PROVE  FileInv'
<1> DEFINE list == Conan!Reordered(listed, order)
<1>1. list \in Conan!Lists /\ SameFiles(list, listed)
  BY ConanTypes, ReorderedKeeps
<1>2. Conan!Saves(list) \/ Conan!SavesHalf(list)
  BY DEF Conan!Reorder
<1> HIDE DEF list
<1> QED BY <1>1, <1>2, ListTaskFiles DEF Conan!Reorder

LEMMA InstallsFiles ==
  ASSUME Conan!ConanModsAssumption, ChoiceInv, FileInv, NEW w \in Published, Conan!Installs(w)
  PROVE  FileInv'
<1> DEFINE list == Conan!Installed(listed, w, task.latest)
<1>1. /\ Conan!TypeOK /\ listed \in Conan!Lists /\ task.latest \in Conan!Versions
      /\ library[w] \in Conan!Versions
  <2>1. task \in Conan!Works /\ task.at = "install" /\ task.id = {w} /\ task.latest # 0
    BY ConanTypes DEF ChoiceInv, Conan!Installs
  <2>2. task.latest \in Conan!Versions
    BY <2>1, NoVersion DEF Conan!Works
  <2>3. library[w] \in Conan!Versions
    BY <2>1, ConanTypes DEF ChoiceInv, Downloaded
  <2> QED BY <2>2, <2>3, ConanTypes DEF ChoiceInv
<1>2. list \in Conan!Lists /\ KnownFiles(list, library, onSteam)
  BY <1>1, InstalledKeeps, InstalledKnown
<1>3. Conan!Saves(list) \/ Conan!SavesHalf(list)
  BY DEF Conan!Installs
<1>4. UNCHANGED <<library, onSteam>>
  BY DEF Conan!Installs
<1>5. \/ page' = [page EXCEPT !["task"] = [kind |-> "view", read |-> Sorted(listed')]]
      \/ UNCHANGED page
  <2>1. Conan!Sorted(listed') = Sorted(listed')
    BY SameStore
  <2> QED BY <2>1, NoVersion DEF Conan!Installs
<1> HIDE DEF list
<1>6. listed' = list
  BY <1>1, <1>2, <1>3, ListSaved
<1>7. /\ \A v \in Published : library'[v] <= onSteam'[v]
      /\ KnownFiles(listed', library', onSteam')
      /\ ~torn' => Agrees(listed', modlist', library', onSteam', moved')
  BY <1>1, <1>2, <1>3, <1>4, SavedFiles
<1>8. KnownFiles(Sorted(listed'), library, onSteam)
  BY <1>2, <1>6, SortedFiles, SameFilesKnown
<1>9. \A p \in Pages \cup {"task"} : KnownFiles(page'[p].read, library', onSteam')
  <2>1. CASE UNCHANGED page
    BY <1>4, <2>1 DEF FileInv
  <2>2. CASE page' = [page EXCEPT !["task"] = [kind |-> "view", read |-> Sorted(listed')]]
    <3> DEFINE read == Sorted(listed')
    <3>1. KnownFiles(read, library, onSteam) /\ page' = [page EXCEPT !["task"] = [kind |-> "view", read |-> read]]
      BY <1>8, <2>2
    <3> HIDE DEF read
    <3> QED BY <1>1, <1>4, <3>1, PagesKnow
  <2> QED BY <1>5, <2>1, <2>2
<1> QED BY <1>7, <1>9 DEF FileInv

\* Files come and go: what is known of the others stays.
LEMMA FilesMove ==
  ASSUME Conan!TypeOK, Conan!TypeOK', FileInv,
         \A w \in Published : Grows(w, library, onSteam, library', onSteam'),
         \A w \in Published : w \notin moved' => w \notin moved /\ library'[w] = library[w],
         UNCHANGED <<listed, modlist, torn, page>>
  PROVE  FileInv'
<1>1. /\ library \in [Published -> Conan!Versions \cup {0}] /\ onSteam \in [Published -> Conan!Versions]
      /\ listed \in Conan!Lists
      /\ page \in [Pages \cup {"task"} -> [kind: {"none", "view", "check"}, read: Conan!Lists]]
  BY ConanTypes
<1>2. library' \in [Published -> Conan!Versions \cup {0}] /\ onSteam' \in [Published -> Conan!Versions]
  BY NoVersion DEF Conan!TypeOK
<1>3. \A w \in Published : library'[w] <= onSteam'[w]
  <2> SUFFICES ASSUME NEW w \in Published PROVE library'[w] <= onSteam'[w]
    OBVIOUS
  <2>1. library[w] \in Nat /\ onSteam[w] \in Nat /\ onSteam'[w] \in Nat /\ library[w] <= onSteam[w]
    BY <1>1, <1>2, VersionIsSome DEF FileInv
  <2>2. Grows(w, library, onSteam, library', onSteam')
    OBVIOUS
  <2> QED BY <2>1, <2>2 DEF Grows
<1>4. KnownFiles(listed, library', onSteam')
  BY <1>1, <1>2, KnownGrows DEF FileInv
<1>5. \A p \in Pages \cup {"task"} : KnownFiles(page[p].read, library', onSteam')
  <2> SUFFICES ASSUME NEW p \in Pages \cup {"task"} PROVE KnownFiles(page[p].read, library', onSteam')
    OBVIOUS
  <2>1. page[p].read \in Conan!Lists /\ KnownFiles(page[p].read, library, onSteam)
    BY <1>1 DEF FileInv
  <2> QED BY <1>1, <1>2, <2>1, KnownGrows
<1>6. ~torn => Agrees(listed, modlist, library', onSteam', moved')
  <2> SUFFICES ASSUME ~torn PROVE Agrees(listed, modlist, library', onSteam', moved')
    OBVIOUS
  <2>1. Agrees(listed, modlist, library, onSteam, moved)
    BY DEF FileInv
  <2> QED BY <1>1, <1>2, <2>1, AgreesGrows
<1> QED BY <1>3, <1>4, <1>5, <1>6 DEF FileInv

LEMMA DownloadsFiles ==
  ASSUME Conan!TypeOK, Conan!TypeOK', FileInv, NEW w \in Published, Conan!Downloads(w) \/ Conan!DownloadFails(w)
  PROVE  FileInv'
<1>1. /\ library \in [Published -> Conan!Versions \cup {0}] /\ onSteam \in [Published -> Conan!Versions]
  BY ConanTypes
<1>2. UNCHANGED <<listed, modlist, torn, page, onSteam>> \/ Conan!DownloadFails(w)
  BY DEF Conan!Downloads
<1>3. \/ UNCHANGED <<library, moved>>
      \/ /\ moved' = moved \cup {w}
         /\ \E version \in {0, library[w], onSteam[w]} : library' = [library EXCEPT ![w] = version]
  BY NoVersion DEF Conan!Downloads, Conan!DownloadFails
<1>4. UNCHANGED <<listed, modlist, torn, onSteam>>
  BY DEF Conan!Downloads, Conan!DownloadFails
<1>5. UNCHANGED page
  BY DEF Conan!Downloads, Conan!DownloadFails
<1>6. \A x \in Published : library'[x] \in {0, library[x], onSteam[x]} /\ onSteam[x] <= onSteam'[x]
  <2>1. \A x \in Published : onSteam[x] <= onSteam'[x]
    BY <1>1, <1>4, VersionIsSome
  <2>2. \A x \in Published : library'[x] \in {0, library[x], onSteam[x]}
    BY <1>1, <1>3
  <2> QED BY <2>1, <2>2
<1>7. \A x \in Published : x \notin moved' => x \notin moved /\ library'[x] = library[x]
  BY <1>1, <1>3
<1>8. \A x \in Published : Grows(x, library, onSteam, library', onSteam')
  BY <1>6 DEF Grows
<1> QED BY <1>4, <1>5, <1>7, <1>8, FilesMove

LEMMA NewVersionFiles ==
  ASSUME Conan!TypeOK, Conan!TypeOK', FileInv, NEW w \in Published, Conan!NewVersion(w)
  PROVE  FileInv'
<1>1. onSteam \in [Published -> Conan!Versions]
  BY ConanTypes
<1>2. /\ onSteam' = [onSteam EXCEPT ![w] = @ + 1]
      /\ UNCHANGED <<listed, modlist, library, torn, page, moved>>
  BY DEF Conan!NewVersion
<1>3. \A x \in Published : onSteam[x] <= onSteam'[x]
  BY <1>1, <1>2, VersionIsSome
<1>4. \A x \in Published : Grows(x, library, onSteam, library', onSteam')
  BY <1>2, <1>3 DEF Grows
<1> QED BY <1>2, <1>4, FilesMove

\* Pages and tasks that begin with what is in mods.json, or end.
LEMMA ReadsFiles ==
  ASSUME Conan!TypeOK, FileInv, NEW p \in Pages \cup {"task"}, NEW kind,
         page' = [page EXCEPT ![p] = [kind |-> kind, read |-> listed]],
         UNCHANGED <<listed, modlist, library, onSteam, torn, moved>>
  PROVE  FileInv'
<1>1. KnownFiles(listed, library, onSteam)
  BY DEF FileInv
<1>2. \A q \in Pages \cup {"task"} : KnownFiles(page'[q].read, library', onSteam')
  BY <1>1, PagesKnow
<1> QED BY <1>2 DEF FileInv

LEMMA ViewEndsFiles ==
  ASSUME Conan!ConanModsAssumption, NamesDoNotReturn, Conan!TypeOK, FileInv,
         NEW p \in Pages \cup {"task"}, Conan!ViewEnds(p)
  PROVE  FileInv'
<1> DEFINE read == page[p].read
           list == Conan!Refreshed(read)
<1>1. /\ read \in Conan!Lists /\ library \in [Published -> Conan!Versions \cup {0}]
      /\ KnownFiles(read, library, onSteam)
  BY ConanTypes DEF FileInv
<1>2. UNCHANGED <<library, onSteam>> /\ page' = [page EXCEPT ![p] = Conan!NoPage]
  BY DEF Conan!ViewEnds
<1>3. \A q \in Pages \cup {"task"} : KnownFiles(page'[q].read, library', onSteam')
  BY <1>2, PageGone
<1>4. CASE Conan!FindsOthers(p)
  <2>1. Conan!Saves(list) \/ Conan!SavesHalf(list)
    BY <1>4 DEF Conan!FindsOthers
  <2>2. list \in Conan!Lists /\ KnownFiles(list, library, onSteam)
    BY <1>1, RefreshedKeeps, RefreshedKnown
  <2> HIDE DEF list
  <2>3. /\ \A v \in Published : library'[v] <= onSteam'[v]
        /\ KnownFiles(listed', library', onSteam')
        /\ ~torn' => Agrees(listed', modlist', library', onSteam', moved')
    BY <1>2, <2>1, <2>2, SavedFiles
  <2> QED BY <1>3, <2>3 DEF FileInv
<1>5. CASE Conan!FindsTheSame(p)
  <2>1. /\ list = Sorted(read)
        /\ moved' = IF read = listed THEN {w \in moved : library[w] = 0} ELSE moved
        /\ UNCHANGED <<listed, modlist, torn>>
    BY <1>5, SameStore, NoVersion DEF Conan!FindsTheSame
  <2>2. ~torn => Agrees(listed, modlist, library, onSteam, moved')
    <3>1. CASE read = listed
      BY <2>1, <3>1, SameAgrees
    <3>2. CASE read # listed
      BY <2>1, <3>2 DEF FileInv
    <3> QED BY <3>1, <3>2
  <2> QED BY <1>2, <1>3, <2>1, <2>2 DEF FileInv
<1> QED BY <1>4, <1>5 DEF Conan!ViewEnds

LEMMA CheckEndsFiles ==
  ASSUME Conan!TypeOK, FileInv, NEW p \in Pages \cup {"task"}, Conan!CheckEnds(p)
  PROVE  FileInv'
<1>1. /\ UNCHANGED <<modlist, library, onSteam, moved>>
      /\ page' = [page EXCEPT ![p] = Conan!NoPage]
      /\ listed' = page[p].read /\ torn' = (torn \/ listed # page[p].read)
  BY DEF Conan!CheckEnds
<1>2. \A q \in Pages \cup {"task"} : KnownFiles(page'[q].read, library', onSteam')
  BY <1>1, PageGone
<1>3. KnownFiles(listed', library', onSteam')
  BY <1>1 DEF FileInv
<1>4. ~torn' => ~torn /\ listed' = listed
  BY <1>1
<1> QED BY <1>1, <1>2, <1>3, <1>4 DEF FileInv

LEMMA NextUpdateFiles ==
  ASSUME Conan!TypeOK, FileInv, Conan!NextUpdate PROVE FileInv'
<1>1. UNCHANGED <<listed, modlist, library, onSteam, torn, moved>>
  BY DEF Conan!NextUpdate
<1>2. \/ UNCHANGED page
      \/ page' = [page EXCEPT !["task"] = [kind |-> "view", read |-> listed]]
  BY NoVersion DEF Conan!NextUpdate, Conan!Reads
<1> QED BY <1>1, <1>2, FilesStay, ReadsFiles

LEMMA InterruptedFiles ==
  ASSUME FileInv, Conan!Interrupted PROVE FileInv'
<1>1. \A p \in Pages \cup {"task"} : page'[p].read = <<>>
  BY NoVersion, NoPageRead DEF Conan!Interrupted
<1>2. \A p \in Pages \cup {"task"} : KnownFiles(page'[p].read, library', onSteam')
  BY <1>1, EmptyKnown
<1> QED BY <1>2 DEF FileInv, Conan!Interrupted

LEMMA PageBeginsFiles ==
  ASSUME Conan!TypeOK, FileInv, NEW p \in Pages, NEW kind \in {"view", "check"},
         Conan!PageBegins(p, kind)
  PROVE  FileInv'
BY ReadsFiles DEF Conan!PageBegins, Conan!Reads

LEMMA CheckBeginsFiles ==
  ASSUME Conan!TypeOK, FileInv, NEW all \in BOOLEAN, Conan!CheckBegins(all) PROVE FileInv'
<1>1. page' = [page EXCEPT !["task"] = [kind |-> "check", read |-> listed]]
  BY NoVersion DEF Conan!CheckBegins, Conan!Reads
<1> QED BY <1>1, ReadsFiles DEF Conan!CheckBegins

LEMMA BeginsFiles ==
  ASSUME FileInv, NEW w, NEW b, Conan!InstallBegins(w, b) \/ Conan!GetsDetails(w) PROVE FileInv'
<1>1. UNCHANGED <<listed, modlist, library, onSteam, page, torn, moved>>
  BY DEF Conan!InstallBegins, Conan!GetsDetails
<1> QED BY <1>1, FilesStay

LEMMA FilesInit == ASSUME Conan!ConanModsAssumption, Conan!Init PROVE FileInv
<1>1. \A w \in Published : library[w] = 0 /\ onSteam[w] = 1
  BY NoVersion DEF Conan!Init
<1>2. listed = <<>> /\ modlist = <<>>
  BY DEF Conan!Init
<1>3. \A p \in Pages \cup {"task"} : page[p].read = <<>>
  BY NoVersion, NoPageRead DEF Conan!Init
<1>4. Agrees(<<>>, <<>>, library, onSteam, moved)
  <2>1. DOMAIN Enabled(<<>>) = DOMAIN <<>>
    <3>1. DOMAIN Sorted(<<>>) = DOMAIN <<>>
      BY EmptyList, SortedLists
    <3>2. \A n \in DOMAIN Enabled(<<>>) : FALSE
      BY <3>1, EmptyList, EnabledListed
    <3> QED BY <3>2
  <2> QED BY <2>1 DEF Agrees
<1> QED BY <1>1, <1>2, <1>3, <1>4, EmptyKnown DEF FileInv

LEMMA ConanNextFiles ==
  ASSUME Conan!ConanModsAssumption, NamesDoNotReturn, ChoiceInv, ChoiceInv', FileInv,
         [Conan!Next]_Conan!vars
  PROVE  FileInv'
<1>1. Conan!TypeOK /\ Conan!TypeOK'
  BY DEF ChoiceInv
<1>2. CASE UNCHANGED Conan!vars
  BY <1>2, FilesStay DEF Conan!vars
<1>3. CASE Conan!Operation
  BY <1>1, <1>3, SetEnabledFiles, BeginsFiles, RemoveModFiles, DownloadsFiles, InstallsFiles,
     ReorderFiles, CheckBeginsFiles, NextUpdateFiles DEF Conan!Operation
<1>4. CASE \E p \in Pages, kind \in {"view", "check"} : Conan!PageBegins(p, kind)
  BY <1>1, <1>4, PageBeginsFiles
<1>5. CASE \E p \in Pages \cup {Conan!Task} : Conan!ViewEnds(p) \/ Conan!CheckEnds(p)
  BY <1>1, <1>5, NoVersion, ViewEndsFiles, CheckEndsFiles
<1>6. CASE Conan!Interrupted \/ \E w \in Published : Conan!NewVersion(w)
  BY <1>1, <1>6, InterruptedFiles, NewVersionFiles
<1> QED BY <1>2, <1>3, <1>4, <1>5, <1>6 DEF Conan!Next

\* After every complete save the game will load the mods of a Conan server that are
\* enabled, in the order of the page, from files that are there, if no file name
\* comes back: save for what was downloaded since and has not been looked at
\* (conan_workshop.py: _write_modlist).
THEOREM ConanGameLoadsTheList ==
  ASSUME Conan!ConanModsAssumption, NamesDoNotReturn PROVE Conan!Spec => []GameLoadsTheList
<1>1. Conan!Init => FileInv
  BY FilesInit
<1>2. ChoiceInv /\ ChoiceInv' /\ FileInv /\ [Conan!Next]_Conan!vars => FileInv'
  BY ConanNextFiles
<1>3. ASSUME ChoiceInv, FileInv PROVE GameLoadsTheList
  <2> SUFFICES ASSUME ~torn
               PROVE  /\ Len(modlist) = Len(Enabled(listed))
                      /\ \A k \in DOMAIN modlist :
                           /\ modlist[k].id = Enabled(listed)[k].id
                           /\ modlist[k].id \notin moved => modlist[k].pak = Pak(Enabled(listed)[k])
    BY DEF GameLoadsTheList
  <2>1. Agrees(listed, modlist, library, onSteam, moved)
    BY <1>3 DEF FileInv
  <2>2. modlist \in Seq([id: Published, pak: Conan!Range(PakOf)]) /\ listed \in Conan!Lists
    BY <1>3 DEF ChoiceInv, Conan!TypeOK
  <2>3. Enabled(listed) \in Seq(Conan!Entries)
    BY <2>2, EnabledListed, ListFields
  <2>4. Len(modlist) = Len(Enabled(listed))
    BY <2>1, <2>2, <2>3 DEF Agrees
  <2>5. \A k \in DOMAIN modlist :
          /\ modlist[k].id = Enabled(listed)[k].id
          /\ modlist[k].id \notin moved => modlist[k].pak = Pak(Enabled(listed)[k])
    BY <2>1, PakNow DEF Agrees
  <2> QED BY <2>4, <2>5
<1> QED BY <1>1, <1>2, <1>3, ConanInvariant, PTL DEF Conan!Spec
=============================================================================
