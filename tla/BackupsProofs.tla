---------------------------- MODULE BackupsProofs ----------------------------
(***************************************************************************)
(* Proofs about Backups for any worlds, retention and number of faults,    *)
(* operations and crashes: a listed backup is whole, the retention never   *)
(* takes away the rollback point of a restore that is under way, and a     *)
(* restore delivers what it verified or leaves what was there, and the last *)
(* copy of a world is never lost.                                           *)
(***************************************************************************)
EXTENDS Backups, FiniteSetTheorems, TLAPS

-----------------------------------------------------------------------------
(* Types.  The queue's operations move whole Saved directories, an import   *)
(* moves worlds inside Saved.                                               *)

Points ==
  {"idle", "stop", "snapshot", "copying", "prune", "pruning", "stage", "aside", "swap", "clean"}

QueueOp ==
  [kind: {"none", "backup", "restore"}, pc: Points, target: Names \cup {0},
   snap: Names \cup {0}, back: BOOLEAN, want: Saved \cup {None}, staged: Saved \cup {None},
   moved: Saved \cup {None}, pruned: SUBSET Names, played: BOOLEAN, meddled: BOOLEAN,
   robbed: BOOLEAN]

ImportOp ==
  [kind: {"none", "import"}, pc: Points, target: Names \cup {0},
   snap: Names \cup {0}, back: BOOLEAN, want: Content, staged: Saved \cup {None},
   moved: Content, pruned: SUBSET Names, played: BOOLEAN, meddled: BOOLEAN,
   robbed: BOOLEAN]

OpOf(a) == IF a = "queue" THEN QueueOp ELSE ImportOp

Typed(o) == o = [a \in Actors |-> o[a]] /\ \A a \in Actors : o[a] \in OpOf(a)

-----------------------------------------------------------------------------
(* The inductive invariant                                                  *)

\* After its snapshot is complete, a restore depends on it as a rollback point.
Depends(o) == /\ o.kind = "restore" /\ o.snap # 0
              /\ o.pc \in {"prune", "pruning", "stage", "aside", "swap", "clean"}

\* A snapshot goes for a reason that is not the restore's own: the user deletes
\* it, or there are as many newer ones as are kept.
MayGo(o) == o.meddled \/ (MaxCount # 0 /\ next - 1 - o.snap >= MaxCount)

Kept0(o) == backups[o.snap].intact \/ MayGo(o)

\* What holds of the operation of one actor: its snapshot has a name that was
\* handed out, and while it is being copied it is not listed, and removed only
\* if it may go.
Sane(o) ==
  /\ o.snap < next
  /\ o.pc \in {"idle", "stop", "snapshot"} => o.snap = 0
  /\ o.pc = "copying" => /\ o.snap # 0
                         /\ ~backups[o.snap].meta
                         /\ backups[o.snap].doomed => MayGo(o)
  /\ o.kind = "restore" => o.target # 0
  /\ o.back => o.snap # 0
  /\ Depends(o) => Kept0(o)

\* What holds of one backup: it has no trace before its name is handed out, and
\* what is being deleted is not intact.
Sound(b) ==
  /\ b >= next => ~backups[b].dir /\ ~backups[b].meta /\ ~backups[b].doomed
  /\ backups[b].doomed => ~backups[b].intact
  /\ backups[b].meta => backups[b].intact \/ backups[b].doomed

\* Two actors never copy into the same directory.
Apart ==
  (op["queue"].pc = "copying" /\ op["import"].pc = "copying")
    => op["queue"].snap # op["import"].snap

Core ==
  /\ Typed(op)
  /\ backups \in [Names -> Backup]
  /\ next \in 1..(MaxBackups + 1)
  /\ \A a \in Actors : Sane(op[a])
  /\ \A b \in Names : Sound(b)
  /\ Apart

World ==
  /\ live \in Saved \cup {None}
  /\ aside \subseteq Saved
  /\ server \in {"offline", "tracked", "adopted"}
  /\ begun \in 0..MaxOps
  /\ faults \in 0..MaxFaults
  /\ crashes \in 0..MaxCrashes

IInv == Core /\ World

LEMMA ImpliesTypeOK == IInv => TypeOK
<1> SUFFICES ASSUME IInv PROVE TypeOK
  OBVIOUS
<1>1. Saved \cup {None} \subseteq Saved \cup Content
  BY DEF Content
<1>2. QueueOp \subseteq Operation
  BY <1>1 DEF QueueOp, Operation, Points
<1>3. ImportOp \subseteq Operation
  BY DEF ImportOp, Operation, Points
<1>4. op \in [Actors -> Operation]
  BY <1>2, <1>3 DEF IInv, Core, Typed, OpOf
<1> QED BY <1>4 DEF IInv, Core, World, TypeOK

LEMMA ImpliesListedIsWhole == IInv => ListedIsWhole
BY DEF IInv, Core, Sound, ListedIsWhole

LEMMA ImpliesRollbackPointKept == IInv => RollbackPointKept
<1> SUFFICES ASSUME IInv PROVE RollbackPointKept
  OBVIOUS
<1>1. Sane(op["queue"])
  BY DEF IInv, Core, Actors
<1> QED BY <1>1 DEF Sane, Depends, Kept0, MayGo, RollbackPointKept

-----------------------------------------------------------------------------
(* Records of operations                                                    *)

LEMMA Contents ==
  /\ Torn \in Content /\ None \in Content
  /\ \A w \in Content : Fresh(w) \in Saved
BY DEF Content, Saved, Fresh

LEMMA IdleOp == \A a \in Actors : Idle \in OpOf(a) /\ Idle.pc = "idle"
BY DEF Idle, OpOf, QueueOp, ImportOp, Points, Content

\* The assignments that the steps of an operation make keep its form.
LEMMA OpRecords ==
  ASSUME NEW a \in Actors, NEW o \in OpOf(a), NEW p \in Points
  PROVE  /\ [o EXCEPT !.pc = p] \in OpOf(a)
         /\ \A s \in Saved \cup {None} : [o EXCEPT !.pc = p, !.staged = s] \in OpOf(a)
         /\ \A b \in Names, s \in Saved \cup {None} :
              [o EXCEPT !.pc = p, !.snap = b, !.staged = s] \in OpOf(a)
         /\ \A m \in BOOLEAN : [o EXCEPT !.meddled = m] \in OpOf(a)
         /\ \A m \in BOOLEAN : [o EXCEPT !.played = m] \in OpOf(a)
         /\ \A m \in BOOLEAN : [o EXCEPT !.robbed = m] \in OpOf(a)
         /\ \A d \in SUBSET Names : [o EXCEPT !.pc = p, !.pruned = d] \in OpOf(a)
         /\ \A d \in SUBSET Names, m \in BOOLEAN :
              [o EXCEPT !.pc = p, !.pruned = d, !.robbed = m] \in OpOf(a)
BY DEF OpOf, QueueOp, ImportOp

LEMMA OpUpdated ==
  ASSUME Typed(op), NEW a \in Actors, NEW r \in OpOf(a), op' = [op EXCEPT ![a] = r]
  PROVE  Typed(op')
<1>1. op' = [c \in Actors |-> op'[c]]
  BY DEF Typed
<1>2. \A c \in Actors : op'[c] \in OpOf(c)
  BY DEF Typed
<1> QED BY <1>1, <1>2 DEF Typed

\* A step inside an operation that keeps its kind, target and snapshot.
LEMMA Alters ==
  ASSUME NEW a \in Actors, NEW o \in OpOf(a), NEW r \in OpOf(a), Sane(o),
         o.pc \in {"snapshot", "prune", "pruning", "stage", "aside", "swap", "clean"},
         r.pc \in {"pruning", "stage", "aside", "swap", "clean"},
         r.kind = o.kind, r.snap = o.snap, r.target = o.target,
         r.back => o.back \/ o.snap # 0,
         o.meddled => r.meddled
  PROVE  Sane(r)
BY DEF Sane, Depends, Kept0, MayGo

LEMMA IdleIsSane == Core => Sane(Idle)
BY DEF Core, Sane, Depends, Idle

\* One actor goes on, the backups stay as they are.
LEMMA OpStep ==
  ASSUME Core, NEW a \in Actors, NEW r \in OpOf(a), Sane(r), r.pc # "copying",
         op' = [op EXCEPT ![a] = r], UNCHANGED <<backups, next>>
  PROVE  Core'
<1>1. Typed(op')
  BY OpUpdated DEF Core
<1>2. \A c \in Actors : op'[c] = IF c = a THEN r ELSE op[c]
  BY DEF Core, Typed
<1>3. ASSUME NEW c \in Actors PROVE Sane(op[c])'
  BY <1>2 DEF Core, Sane, Depends, Kept0, MayGo
<1>4. \A b \in Names : Sound(b)'
  BY DEF Core, Sound
<1>5. Apart'
  BY <1>2 DEF Core, Apart, Actors
<1> QED BY <1>1, <1>3, <1>4, <1>5 DEF Core

LEMMA OpEnds ==
  ASSUME Core, NEW a \in Actors, Ends(a), UNCHANGED <<backups, next>>
  PROVE  Core'
BY IdleOp, IdleIsSane, OpStep DEF Ends

LEMMA OpGoes ==
  ASSUME Core, NEW a \in Actors, NEW p \in {"stage", "aside", "swap", "clean"}, Goes(a, p),
         op[a].pc \in {"snapshot", "prune", "stage", "aside", "swap", "clean"},
         UNCHANGED <<backups, next>>
  PROVE  Core'
<1> DEFINE r == [op[a] EXCEPT !.pc = p]
<1>1. op[a] \in OpOf(a) /\ Sane(op[a])
  BY DEF Core, Typed
<1>2. r \in OpOf(a)
  BY <1>1, OpRecords DEF Points
<1>3. r.pc = p /\ r.kind = op[a].kind /\ r.snap = op[a].snap /\ r.target = op[a].target
      /\ r.back = op[a].back /\ r.meddled = op[a].meddled
  BY <1>1 DEF OpOf, QueueOp, ImportOp
<1>4. op' = [op EXCEPT ![a] = r]
  BY DEF Goes
<1> HIDE DEF r
<1>5. Sane(r)
  BY <1>1, <1>2, <1>3, Alters
<1> QED BY <1>2, <1>3, <1>4, <1>5, OpStep

-----------------------------------------------------------------------------
(* The steps of the snapshot                                                *)

\* A copy begins under a name that nothing refers to yet.
LEMMA CopyStartsCore ==
  ASSUME Core, World, NEW a \in Actors, CopyStarts(a) PROVE Core'
<1> DEFINE r == [op[a] EXCEPT !.pc = "copying", !.snap = next, !.staged = live]
<1> USE BackupsAssumption
<1>1. op[a] \in OpOf(a) /\ Sane(op[a]) /\ next \in Names /\ live \in Saved \cup {None}
  BY DEF Core, World, Typed, CopyStarts, Names
<1>2. r \in OpOf(a)
  <2>1. \A b \in Names, s \in Saved \cup {None} :
          [op[a] EXCEPT !.pc = "copying", !.snap = b, !.staged = s] \in OpOf(a)
    BY <1>1, OpRecords DEF Points
  <2> QED BY <1>1, <2>1
<1>3. /\ r.pc = "copying" /\ r.snap = next
      /\ r.kind = op[a].kind /\ r.target = op[a].target
  BY <1>1 DEF OpOf, QueueOp, ImportOp
<1>4. op' = [op EXCEPT ![a] = r]
  BY DEF CopyStarts
<1> HIDE DEF r
<1>5. Typed(op')
  BY <1>2, <1>4, OpUpdated DEF Core
<1>6. \A c \in Actors : op'[c] = IF c = a THEN r ELSE op[c]
  BY <1>4 DEF Core, Typed
<1>7. /\ next' = next + 1 /\ next' \in 1..(MaxBackups + 1)
      /\ backups' \in [Names -> Backup]
      /\ ~backups'[next].meta /\ ~backups'[next].doomed /\ ~backups'[next].intact
      /\ \A b \in Names : b # next => backups'[b] = backups[b]
  <2>1. [NoBackup EXCEPT !.dir = TRUE] \in Backup
    BY DEF NoBackup, Backup
  <2>2. backups' = [backups EXCEPT ![next] = [NoBackup EXCEPT !.dir = TRUE]]
    BY DEF CopyStarts
  <2>3. backups'[next] = [NoBackup EXCEPT !.dir = TRUE]
    BY <1>1, <2>2 DEF Core
  <2>4. next' = next + 1 /\ next' \in 1..(MaxBackups + 1)
    BY <1>1 DEF CopyStarts, Names
  <2> QED BY <1>1, <2>1, <2>2, <2>3, <2>4 DEF Core, NoBackup
<1>8. ASSUME NEW c \in Actors PROVE Sane(op[c])'
  <2>1. CASE c = a
    <3>1. next < next' /\ next # 0
      BY <1>1, <1>7 DEF Names
    <3>2. op'[c] = r /\ (r.kind = "restore" => r.target # 0)
      BY <1>1, <1>3, <1>6, <2>1 DEF Sane
    <3> QED BY <1>3, <1>7, <3>1, <3>2 DEF Sane, Depends
  <2>2. CASE c # a
    <3>1. op'[c] = op[c] /\ Sane(op[c]) /\ op[c] \in OpOf(c)
      BY <1>6, <2>2 DEF Core, Typed
    <3>2. op[c].snap < next /\ op[c].snap \in Names \cup {0} /\ next \in Nat
      <4>1. op[c].snap < next
        BY <3>1 DEF Sane
      <4>2. op[c].snap \in Names \cup {0}
        BY <3>1 DEF OpOf, QueueOp, ImportOp
      <4> QED BY <1>1, <4>1, <4>2 DEF Names
    <3>3. op[c].snap # 0 => backups'[op[c].snap] = backups[op[c].snap]
      BY <1>7, <3>2 DEF Names
    <3>4. op[c].snap < next'
      BY <1>7, <3>2 DEF Names
    <3>5. next - 1 - op[c].snap >= MaxCount => next' - 1 - op[c].snap >= MaxCount
      BY <1>7, <3>2 DEF Names
    <3> QED BY <3>1, <3>3, <3>4, <3>5 DEF Sane, Depends, Kept0, MayGo
  <2> QED BY <2>1, <2>2
<1>9. ASSUME NEW b \in Names PROVE Sound(b)'
  BY <1>1, <1>7 DEF Core, Sound, Names
<1>10. Apart'
  <2>1. \A c \in Actors : c # a => op'[c] = op[c] /\ op[c].snap # next
    BY <1>1, <1>6 DEF Core, Sane, Names
  <2>2. op'[a].snap = next
    BY <1>3, <1>6
  <2> QED BY <2>1, <2>2 DEF Apart, Actors
<1> QED BY <1>5, <1>7, <1>8, <1>9, <1>10 DEF Core

\* The copy is complete and its meta.json is written.
LEMMA CopyEndsCore ==
  ASSUME Core, World, NEW a \in Actors, CopyEnds(a) PROVE Core'
<1> DEFINE r == [op[a] EXCEPT !.pc = "prune"]
           n == op[a].snap
           s == CopyOf(op[a].staged, live)
           t == IF Hit(n) THEN Fresh(Torn) ELSE s
<1>1. op[a] \in OpOf(a) /\ Sane(op[a]) /\ op[a].pc = "copying"
  BY DEF Core, Typed, CopyEnds
<1>2. r \in OpOf(a)
  BY <1>1, OpRecords DEF Points
<1>3. /\ r.pc = "prune" /\ r.snap = n /\ r.kind = op[a].kind /\ r.target = op[a].target
      /\ r.meddled = op[a].meddled
  BY <1>1 DEF OpOf, QueueOp, ImportOp
<1>4. op' = [op EXCEPT ![a] = r] /\ next' = next
  BY DEF CopyEnds, Goes
<1>5. n \in Names /\ n < next
  BY <1>1 DEF Sane, OpOf, QueueOp, ImportOp
<1>6. s \in Saved
  <2>1. live \in Saved
    BY DEF World, CopyEnds
  <2>2. live.slot \in Content /\ Torn \in Content /\ None \in Content /\ live.old \subseteq Content
    BY <2>1 DEF Saved, Content
  <2>3. op[a].staged.old \cap live.old \subseteq Content
    BY <2>2
  <2> QED BY <2>2, <2>3 DEF CopyOf, Saved
<1>7. /\ backups' \in [Names -> Backup]
      /\ backups'[n].intact <=> ~backups[n].doomed
      /\ backups'[n].doomed <=> backups[n].doomed
      /\ \A b \in Names : b # n => backups'[b] = backups[b]
  <2>1. backups' = [backups EXCEPT ![n] =
          [dir |-> TRUE, meta |-> TRUE, intact |-> ~backups[n].doomed,
           doomed |-> backups[n].doomed, saved |-> t, taken |-> s]]
    BY DEF CopyEnds
  <2>2. t \in Saved
    BY <1>6, Contents
  <2> HIDE DEF s, t
  <2>3. backups[n].doomed \in BOOLEAN
    BY <1>5 DEF Core, Backup
  <2>4. [dir |-> TRUE, meta |-> TRUE, intact |-> ~backups[n].doomed,
         doomed |-> backups[n].doomed, saved |-> t, taken |-> s] \in Backup
    BY <1>6, <2>2, <2>3 DEF Backup
  <2> QED BY <1>5, <2>1, <2>4 DEF Core
<1> HIDE DEF r, s, t
<1>8. Typed(op')
  BY <1>2, <1>4, OpUpdated DEF Core
<1>9. \A c \in Actors : op'[c] = IF c = a THEN r ELSE op[c]
  BY <1>4 DEF Core, Typed
<1>10. ASSUME NEW c \in Actors PROVE Sane(op[c])'
  <2>1. CASE c = a
    BY <1>1, <1>3, <1>4, <1>5, <1>7, <1>9, <2>1 DEF Sane, Depends, Kept0, MayGo, Names
  <2>2. CASE c # a
    <3>1. op'[c] = op[c] /\ Sane(op[c]) /\ op[c] \in OpOf(c)
      BY <1>9, <2>2 DEF Core, Typed
    <3>2. op[c].pc = "copying" => op[c].snap # n
      BY <1>1, <2>2 DEF Core, Apart, Actors
    <3>3. op[c].snap \in Names \cup {0}
      BY <3>1 DEF OpOf, QueueOp, ImportOp
    <3>4. backups[n].doomed => ~backups[n].intact
      BY <1>5 DEF Core, Sound
    <3>5. next' = next
      BY <1>4
    <3>6. CASE op[c].snap = n
      BY <1>7, <3>1, <3>2, <3>4, <3>5, <3>6 DEF Sane, Depends, Kept0, MayGo
    <3>7. CASE op[c].snap # n
      BY <1>7, <3>1, <3>3, <3>5, <3>7 DEF Sane, Depends, Kept0, MayGo
    <3> QED BY <3>6, <3>7
  <2> QED BY <2>1, <2>2
<1>11. ASSUME NEW b \in Names PROVE Sound(b)'
  <2>1. CASE b = n
    <3>1. ~(b >= next)
      BY <1>5, <2>1 DEF Core, Names
    <3> QED BY <1>4, <1>7, <2>1, <3>1 DEF Sound
  <2>2. CASE b # n
    BY <1>4, <1>7, <2>2 DEF Core, Sound
  <2> QED BY <2>1, <2>2
<1>12. Apart'
  BY <1>3, <1>9 DEF Apart, Actors
<1> QED BY <1>4, <1>7, <1>8, <1>10, <1>11, <1>12 DEF Core

\* What the retention removes has at least MaxCount newer backups.
LEMMA PruneSpares ==
  ASSUME Core, NEW b \in Names, b \in Surplus
  PROVE  MaxCount # 0 /\ next - 1 - b >= MaxCount
<1> USE BackupsAssumption
<1>1. MaxCount # 0
  BY DEF Surplus
<1> DEFINE old == {c \in Kept : c <= b}
           new == Kept \ old
           k == Cardinality(Kept)
           m == Cardinality(old)
<1>2. b \in Kept /\ m <= k - MaxCount
  BY <1>1 DEF Surplus, Oldest
<1>3. IsFiniteSet(Kept) /\ IsFiniteSet(old)
  <2>1. IsFiniteSet(Names)
    BY FS_Interval DEF Names
  <2>2. Kept \in SUBSET Names
    BY DEF Kept
  <2>3. old \in SUBSET Kept
    OBVIOUS
  <2>4. IsFiniteSet(Kept)
    BY <2>1, <2>2, FS_Subset
  <2> QED BY <2>3, <2>4, FS_Subset
<1>4. k \in Nat /\ m \in Nat /\ Cardinality(new) \in Nat
  <2>1. IsFiniteSet(new)
    BY <1>3, FS_Difference
  <2> QED BY <1>3, <2>1, FS_CardinalityType
<1>5. Cardinality(new) = k - m
  <2>1. Kept \cap old = old
    OBVIOUS
  <2>2. Cardinality(Kept \ old) = Cardinality(Kept) - Cardinality(Kept \cap old)
    BY <1>3, FS_Difference
  <2> QED BY <2>1, <2>2
<1>6. b \in Nat /\ next \in Nat /\ b < next
  BY <1>2 DEF Core, Sound, Kept, Names
<1>7. new \in SUBSET ((b + 1)..(next - 1))
  <2> SUFFICES ASSUME NEW c \in Kept, ~(c <= b) PROVE c \in (b + 1)..(next - 1)
    OBVIOUS
  <2>1. c \in Names /\ backups[c].dir
    BY DEF Kept
  <2>2. ~(c >= next)
    BY <2>1 DEF Core, Sound
  <2> QED BY <1>6, <2>1, <2>2 DEF Names
<1>8. /\ IsFiniteSet((b + 1)..(next - 1))
      /\ Cardinality((b + 1)..(next - 1)) = next - 1 - b
  <2>1. b + 1 \in Int /\ next - 1 \in Int
    BY <1>6
  <2>2. /\ IsFiniteSet((b + 1)..(next - 1))
        /\ Cardinality((b + 1)..(next - 1)) =
             IF b + 1 > next - 1 THEN 0 ELSE (next - 1) - (b + 1) + 1
    BY <2>1, FS_Interval
  <2> QED BY <1>6, <2>2
<1>9. Cardinality(new) <= next - 1 - b
  BY <1>7, <1>8, FS_Subset
<1> HIDE DEF old, new, k, m
<1> QED BY <1>1, <1>2, <1>4, <1>5, <1>6, <1>9

\* The retention notes what it removes, and the other actor's record that it does.
LEMMA PruneStartsNotes ==
  ASSUME Core, NEW a \in Actors, PruneStarts(a), NEW c \in Actors
  PROVE  /\ op'[c] \in OpOf(c)
         /\ op'[c].kind = op[c].kind /\ op'[c].snap = op[c].snap /\ op'[c].target = op[c].target
         /\ op'[c].back = op[c].back /\ op'[c].want = op[c].want /\ op'[c].staged = op[c].staged
         /\ op'[c].moved = op[c].moved
         /\ op'[c].played = op[c].played /\ op'[c].meddled = op[c].meddled
         /\ c = a => /\ op'[c].pc = "pruning" /\ op'[c].pruned = Surplus
                     /\ op'[c].robbed = op[c].robbed
         /\ c # a => /\ op'[c].pc = op[c].pc /\ op'[c].pruned = op[c].pruned
                     /\ op[c].robbed => op'[c].robbed
                     /\ op[c].target \in Surplus \/ op[c].snap \in Surplus => op'[c].robbed
<1>1. op[c] \in OpOf(c)
  BY DEF Core, Typed
<1>2. CASE c = a
  <2>1. op'[c] = [op[c] EXCEPT !.pc = "pruning", !.pruned = Surplus]
    BY <1>2 DEF PruneStarts
  <2>2. Surplus \in SUBSET Names
    BY DEF Surplus, Oldest, Kept
  <2>3. PICK d \in SUBSET Names : d = Surplus
    BY <2>2
  <2>4. op'[c] = [op[c] EXCEPT !.pc = "pruning", !.pruned = d]
    BY <2>1, <2>3
  <2>5. op'[c] \in OpOf(c)
    BY <1>1, <2>4 DEF OpOf, QueueOp, ImportOp, Points
  <2> QED BY <1>1, <1>2, <2>3, <2>4, <2>5 DEF OpOf, QueueOp, ImportOp
<1>3. CASE c # a
  <2> DEFINE w == op[c].robbed \/ op[c].target \in Surplus \/ op[c].snap \in Surplus
  <2>1. op'[c] = [op[c] EXCEPT !.robbed = w]
    BY <1>3 DEF PruneStarts
  <2>2. w \in BOOLEAN
    BY <1>1 DEF OpOf, QueueOp, ImportOp
  <2>3. PICK m \in BOOLEAN : m = w
    BY <2>2
  <2>4. op'[c] = [op[c] EXCEPT !.robbed = m]
    BY <2>1, <2>3
  <2>5. /\ op[c].robbed => m
        /\ op[c].target \in Surplus \/ op[c].snap \in Surplus => m
    BY <2>3
  <2> HIDE DEF w
  <2>6. op'[c] \in OpOf(c)
    BY <1>1, <2>4 DEF OpOf, QueueOp, ImportOp
  <2> QED BY <1>1, <1>3, <2>4, <2>5, <2>6 DEF OpOf, QueueOp, ImportOp
<1> QED BY <1>2, <1>3

\* What the retention has begun to remove is a half, the rest is as it was.
LEMMA PruneStartsHalves ==
  ASSUME Core, NEW a \in Actors, PruneStarts(a)
  PROVE  /\ backups' \in [Names -> Backup] /\ next' = next
         /\ \A b \in Names :
              IF b \in Surplus
              THEN /\ backups'[b].dir = backups[b].dir /\ (backups'[b].meta => backups[b].meta)
                   /\ ~backups'[b].intact /\ backups'[b].doomed
                   /\ backups'[b].saved = backups[b].saved /\ backups'[b].taken = backups[b].taken
              ELSE backups'[b] = backups[b]
<1>7. PICK early \in SUBSET Surplus :
        backups' = [b \in Names |-> IF b \in Surplus THEN HalfRemoved(backups[b], b \notin early)
                                    ELSE backups[b]]
  BY DEF PruneStarts
<1>1. ASSUME NEW b \in Names, b \in Surplus
      PROVE  /\ backups'[b] \in Backup
             /\ backups'[b].dir = backups[b].dir /\ (backups'[b].meta => backups[b].meta)
             /\ ~backups'[b].intact /\ backups'[b].doomed
             /\ backups'[b].saved = backups[b].saved /\ backups'[b].taken = backups[b].taken
  <2>1. backups[b] \in Backup
    BY DEF Core
  <2>2. PICK e \in BOOLEAN : e = (b \notin early)
    OBVIOUS
  <2>3. backups'[b] = HalfRemoved(backups[b], e)
    BY <1>1, <1>7, <2>2
  <2> QED BY <2>1, <2>3 DEF HalfRemoved, Backup
<1>2. \A b \in Names : b \notin Surplus => backups'[b] = backups[b]
  BY <1>7
<1>3. next' = next
  BY DEF PruneStarts
<1> QED BY <1>7, <1>1, <1>2, <1>3 DEF Core

\* The retention begins to take backups away, beside the other actor; a restore
\* keeps its rollback point unless newer snapshots use up what is kept.
LEMMA PruneStartsCore ==
  ASSUME Core, NEW a \in Actors, PruneStarts(a) PROVE Core'
<1>1. Sane(op[a]) /\ op[a] \in OpOf(a) /\ op[a].pc = "prune"
  BY DEF Core, Typed, PruneStarts
<1>2. Typed(op')
  BY PruneStartsNotes DEF Typed, PruneStarts
<1>3. ASSUME NEW c \in Actors PROVE Sane(op[c])'
  <2>1. Sane(op[c]) /\ op[c] \in OpOf(c)
    BY DEF Core, Typed
  <2>2. op[c].snap \in Names \cup {0}
    BY <2>1 DEF OpOf, QueueOp, ImportOp
  <2>3. op[c].snap \in Surplus /\ op[c].snap # 0 =>
          MaxCount # 0 /\ next - 1 - op[c].snap >= MaxCount
    BY <2>2, PruneSpares
  <2> HIDE DEF Surplus
  <2>4. CASE c = a
    BY <1>1, <2>1, <2>2, <2>3, <2>4, PruneStartsNotes, PruneStartsHalves
       DEF Sane, Depends, Kept0, MayGo
  <2>5. CASE c # a
    BY <2>1, <2>2, <2>3, <2>5, PruneStartsNotes, PruneStartsHalves
       DEF Sane, Depends, Kept0, MayGo
  <2> QED BY <2>4, <2>5
<1>4. ASSUME NEW b \in Names PROVE Sound(b)'
  <2>1. b \in Surplus => backups[b].dir
    BY DEF Surplus, Oldest, Kept
  <2> QED BY <2>1, PruneStartsHalves DEF Core, Sound
<1>5. Apart'
  BY PruneStartsNotes DEF Core, Apart, Actors
<1> QED BY <1>2, <1>3, <1>4, <1>5, PruneStartsHalves DEF Core

\* What is left of it stays, and the actor goes on.
LEMMA PruneEndsCore ==
  ASSUME Core, NEW a \in Actors, PruneEnds(a) PROVE Core'
<1>1. op[a] \in OpOf(a) /\ Sane(op[a]) /\ op[a].pc = "pruning" /\ UNCHANGED <<backups, next>>
  BY DEF Core, Typed, PruneEnds
<1>2. CASE op[a].kind = "backup"
  BY <1>1, <1>2, OpEnds DEF PruneEnds
<1>3. CASE op[a].kind # "backup"
  <2>1. PICK m \in BOOLEAN :
          op' = [op EXCEPT ![a] = [op[a] EXCEPT !.pc = "stage", !.pruned = {}, !.robbed = m]]
    <3> DEFINE w == op[a].robbed \/ {op[a].target, op[a].snap}
                      \cap {b \in op[a].pruned : backups[b].doomed} # {}
    <3>1. op' = [op EXCEPT ![a] = [op[a] EXCEPT !.pc = "stage", !.pruned = {}, !.robbed = w]]
      BY <1>3 DEF PruneEnds
    <3>2. w \in BOOLEAN
      BY <1>1 DEF OpOf, QueueOp, ImportOp
    <3> QED BY <3>1, <3>2
  <2> DEFINE r == [op[a] EXCEPT !.pc = "stage", !.pruned = {}, !.robbed = m]
  <2>2. r \in OpOf(a)
    BY <1>1, OpRecords DEF Points
  <2>3. /\ r.pc = "stage" /\ r.kind = op[a].kind /\ r.snap = op[a].snap /\ r.target = op[a].target
        /\ r.back = op[a].back /\ r.meddled = op[a].meddled
    BY <1>1 DEF OpOf, QueueOp, ImportOp
  <2>4. op' = [op EXCEPT ![a] = r]
    BY <2>1
  <2> HIDE DEF r
  <2>5. Sane(r)
    BY <1>1, <2>2, <2>3, Alters
  <2> QED BY <1>1, <2>2, <2>3, <2>4, <2>5, OpStep
<1> QED BY <1>2, <1>3

\* The records of both actors change in what is remembered of the others only.
Remembers(p, q) ==
  /\ q = [a \in Actors |-> q[a]]
  /\ \A a \in Actors :
       /\ q[a] \in OpOf(a)
       /\ q[a].kind = p[a].kind /\ q[a].pc = p[a].pc /\ q[a].snap = p[a].snap
       /\ q[a].target = p[a].target /\ q[a].back = p[a].back
       /\ p[a].meddled => q[a].meddled

LEMMA RemembersCore ==
  ASSUME Core, Remembers(op, op'), UNCHANGED <<backups, next>> PROVE Core'
<1>1. Typed(op')
  BY DEF Remembers, Typed
<1>2. ASSUME NEW c \in Actors PROVE Sane(op[c])'
  BY DEF Core, Remembers, Sane, Depends, Kept0, MayGo
<1>3. \A b \in Names : Sound(b)'
  BY DEF Core, Sound
<1>4. Apart'
  BY DEF Core, Remembers, Apart, Actors
<1> QED BY <1>1, <1>2, <1>3, <1>4 DEF Core

LEMMA PlayedRemembers == Core => Remembers(op, Played)
<1> SUFFICES ASSUME Core PROVE Remembers(op, Played)
  OBVIOUS
<1>1. ASSUME NEW a \in Actors
      PROVE  /\ Played[a] \in OpOf(a)
             /\ Played[a].kind = op[a].kind /\ Played[a].pc = op[a].pc
             /\ Played[a].snap = op[a].snap /\ Played[a].target = op[a].target
             /\ Played[a].back = op[a].back /\ Played[a].meddled = op[a].meddled
  <2>1. op[a] \in OpOf(a)
    BY DEF Core, Typed
  <2> DEFINE m == op[a].played \/ op[a].pc \notin {"idle", "stop", "snapshot"}
  <2>2. Played[a] = [op[a] EXCEPT !.played = m]
    BY DEF Played
  <2>3. m \in BOOLEAN
    BY <2>1 DEF OpOf, QueueOp, ImportOp
  <2> HIDE DEF m
  <2>4. PICK n \in BOOLEAN : n = m
    BY <2>3
  <2> QED BY <2>1, <2>2, <2>4 DEF OpOf, QueueOp, ImportOp
<1>2. Played = [a \in Actors |-> Played[a]]
  BY DEF Played
<1> QED BY <1>1, <1>2 DEF Remembers

\* A deletion begins: the backup is not intact any more, and an operation that
\* uses it has been meddled with.
LEMMA DeleteStartsCore ==
  ASSUME Core, NEW b \in Names, DeleteStarts(b) PROVE Core'
<1>1. PICK m \in BOOLEAN : backups' = [backups EXCEPT ![b] = HalfRemoved(backups[b], m)]
  BY DEF DeleteStarts
<1>2. next' = next /\ backups[b].dir
  BY DEF DeleteStarts
<1>3. /\ backups' \in [Names -> Backup]
      /\ backups'[b].doomed /\ ~backups'[b].intact /\ (backups'[b].meta => backups[b].meta)
      /\ \A c \in Names : c # b => backups'[c] = backups[c]
  <2>1. backups[b] \in Backup
    BY DEF Core
  <2>2. /\ HalfRemoved(backups[b], m) \in Backup
        /\ HalfRemoved(backups[b], m).doomed /\ ~HalfRemoved(backups[b], m).intact
        /\ HalfRemoved(backups[b], m).meta => backups[b].meta
    BY <2>1 DEF HalfRemoved, Backup
  <2> QED BY <1>1, <2>1, <2>2 DEF Core
<1>4. ASSUME NEW a \in Actors
      PROVE  /\ op'[a] \in OpOf(a)
             /\ op'[a].kind = op[a].kind /\ op'[a].pc = op[a].pc
             /\ op'[a].snap = op[a].snap /\ op'[a].target = op[a].target
             /\ op'[a].back = op[a].back
             /\ op[a].meddled => op'[a].meddled
             /\ op[a].pc # "idle" /\ op[a].snap = b => op'[a].meddled
  <2>1. op[a] \in OpOf(a)
    BY DEF Core, Typed
  <2> DEFINE w == op[a].meddled \/ (op[a].pc # "idle" /\ b \in {op[a].target, op[a].snap})
  <2>2. op'[a] = [op[a] EXCEPT !.meddled = w]
    BY DEF DeleteStarts
  <2>3. w \in BOOLEAN
    BY <2>1 DEF OpOf, QueueOp, ImportOp
  <2>4. op[a].meddled => w
    OBVIOUS
  <2>5. op[a].pc # "idle" /\ op[a].snap = b => w
    OBVIOUS
  <2> HIDE DEF w
  <2>6. PICK n \in BOOLEAN : n = w
    BY <2>3
  <2> QED BY <2>1, <2>2, <2>4, <2>5, <2>6 DEF OpOf, QueueOp, ImportOp
<1>5. op' = [a \in Actors |-> op'[a]]
  BY DEF DeleteStarts
<1>6. ASSUME NEW c \in Actors PROVE Sane(op[c])'
  <2>1. op[c] \in OpOf(c) /\ Sane(op[c])
    BY DEF Core, Typed
  <2>2. op[c].snap \in Names \cup {0}
    BY <2>1 DEF OpOf, QueueOp, ImportOp
  <2>4. CASE op[c].snap = b
    BY <1>2, <1>3, <1>4, <2>1, <2>4 DEF Sane, Depends, Kept0, MayGo
  <2>5. CASE op[c].snap # b
    BY <1>2, <1>3, <1>4, <2>1, <2>2, <2>5 DEF Sane, Depends, Kept0, MayGo
  <2> QED BY <2>4, <2>5
<1>7. ASSUME NEW c \in Names PROVE Sound(c)'
  BY <1>2, <1>3 DEF Core, Sound
<1>8. Apart'
  BY <1>4 DEF Core, Apart, Actors
<1> QED BY <1>2, <1>3, <1>4, <1>5, <1>6, <1>7, <1>8 DEF Core, Typed

\* A deletion ends; nobody's rollback point was still intact.
LEMMA RemovalEndsCore ==
  ASSUME Core, NEW b \in Names, RemovalEnds(b) PROVE Core'
<1>1. /\ UNCHANGED <<op, next>> /\ backups[b].doomed
      /\ backups' = [backups EXCEPT ![b] = Removed(backups[b])]
  BY DEF RemovalEnds
<1>2. /\ backups' \in [Names -> Backup]
      /\ ~backups'[b].dir /\ ~backups'[b].meta /\ ~backups'[b].doomed /\ ~backups'[b].intact
      /\ \A c \in Names : c # b => backups'[c] = backups[c]
  BY <1>1 DEF Core, Removed, Backup
<1>3. ~backups[b].intact
  BY <1>1 DEF Core, Sound
<1>4. ASSUME NEW c \in Actors PROVE Sane(op[c])'
  <2>1. op[c] \in OpOf(c) /\ Sane(op[c])
    BY DEF Core, Typed
  <2>2. op[c].snap \in Names \cup {0}
    BY <2>1 DEF OpOf, QueueOp, ImportOp
  <2>3. CASE op[c].snap = b
    BY <1>1, <1>2, <1>3, <2>1, <2>3 DEF Sane, Depends, Kept0, MayGo
  <2>4. CASE op[c].snap # b
    BY <1>1, <1>2, <2>1, <2>2, <2>4 DEF Sane, Depends, Kept0, MayGo
  <2> QED BY <2>3, <2>4
<1>5. ASSUME NEW c \in Names PROVE Sound(c)'
  BY <1>1, <1>2 DEF Core, Sound
<1> QED BY <1>1, <1>2, <1>4, <1>5 DEF Core, Apart

\* Everybody is idle after a crash.
LEMMA CrashCore == Core /\ Crash => Core'
<1> SUFFICES ASSUME Core, Crash PROVE Core'
  OBVIOUS
<1>1. op' = [a \in Actors |-> Idle] /\ UNCHANGED <<backups, next>>
  BY DEF Crash
<1>2. Typed(op')
  BY <1>1, IdleOp DEF Typed
<1>3. ASSUME NEW a \in Actors PROVE Sane(op[a])'
  BY <1>1, IdleIsSane DEF Sane, Depends, Kept0, MayGo, Idle
<1>4. Apart'
  BY <1>1 DEF Apart, Actors, Idle
<1> QED BY <1>1, <1>2, <1>3, <1>4 DEF Core, Sound

-----------------------------------------------------------------------------
(* The operations begin                                                     *)

LEMMA StartsCore ==
  ASSUME Core, NEW a \in Actors, NEW r \in OpOf(a), op' = [op EXCEPT ![a] = r],
         r.pc \in {"stop", "snapshot"}, r.snap = 0, ~r.back,
         r.kind = "restore" => r.target # 0, UNCHANGED <<backups, next>>
  PROVE  Core'
<1>1. Sane(r)
  BY DEF Core, Sane, Depends
<1> QED BY <1>1, OpStep

LEMMA BackupStartsCore == Core /\ BackupStarts => Core'
<1> SUFFICES ASSUME Core, BackupStarts PROVE Core'
  OBVIOUS
<1> DEFINE r == [Idle EXCEPT !.kind = "backup", !.pc = "snapshot"]
<1>1. r \in OpOf("queue") /\ r.pc = "snapshot" /\ r.snap = 0 /\ ~r.back /\ r.kind = "backup"
  BY DEF Idle, OpOf, QueueOp, Points
<1>2. op' = [op EXCEPT !["queue"] = r] /\ UNCHANGED <<backups, next>>
  BY DEF BackupStarts
<1> HIDE DEF r
<1> QED BY <1>1, <1>2, StartsCore DEF Actors

LEMMA RestoreStartsCore ==
  ASSUME Core, NEW b \in Names, RestoreStarts(b) PROVE Core'
<1>1. PICK p \in {"stop", "snapshot"} : p = IF server = "offline" THEN "snapshot" ELSE "stop"
  OBVIOUS
<1>2. PICK s \in Saved \cup {None} : s = backups[b].saved
  BY DEF Core, Backup
<1> DEFINE r == [Idle EXCEPT !.kind = "restore", !.target = b, !.want = s, !.pc = p]
<1>3. /\ r \in OpOf("queue") /\ r.pc = p /\ r.snap = 0 /\ ~r.back
      /\ r.target = b
  BY DEF Idle, OpOf, QueueOp, Points
<1>4. op' = [op EXCEPT !["queue"] = r] /\ UNCHANGED <<backups, next>>
  BY <1>1, <1>2 DEF RestoreStarts
<1> HIDE DEF r
<1>5. b # 0
  BY DEF Names
<1> QED BY <1>3, <1>4, <1>5, StartsCore DEF Actors

LEMMA ImportStartsCore == Core /\ ImportStarts => Core'
<1> SUFFICES ASSUME Core, ImportStarts PROVE Core'
  OBVIOUS
<1>1. PICK w \in Imports :
        op' = [op EXCEPT !["import"] =
                 [Idle EXCEPT !.kind = "import", !.pc = "snapshot", !.want = w]]
  BY DEF ImportStarts
<1> DEFINE r == [Idle EXCEPT !.kind = "import", !.pc = "snapshot", !.want = w]
<1>2. r \in OpOf("import") /\ r.pc = "snapshot" /\ r.snap = 0 /\ ~r.back /\ r.kind = "import"
  BY DEF Idle, OpOf, ImportOp, Points, Content
<1>3. op' = [op EXCEPT !["import"] = r] /\ UNCHANGED <<backups, next>>
  BY <1>1 DEF ImportStarts
<1> HIDE DEF r
<1> QED BY <1>2, <1>3, StartsCore DEF Actors

-----------------------------------------------------------------------------
(* The steps of a restore                                                   *)

LEMMA StopCore == Core /\ RestoreStopsServer => Core'
<1> SUFFICES ASSUME Core, RestoreStopsServer PROVE Core'
  OBVIOUS
<1> DEFINE r == [op["queue"] EXCEPT !.pc = "snapshot"]
<1>1. op["queue"] \in OpOf("queue") /\ Sane(op["queue"]) /\ op["queue"].pc = "stop"
  BY DEF Core, Typed, Actors, RestoreStopsServer
<1>2. r \in OpOf("queue")
  BY <1>1, OpRecords DEF Points, Actors
<1>3. /\ r.pc = "snapshot" /\ r.snap = op["queue"].snap /\ r.kind = op["queue"].kind
      /\ r.target = op["queue"].target /\ r.back = op["queue"].back
  BY <1>1 DEF OpOf, QueueOp
<1>4. op' = [op EXCEPT !["queue"] = r] /\ UNCHANGED <<backups, next>>
  BY DEF RestoreStopsServer, Goes
<1> HIDE DEF r
<1>5. Sane(r)
  BY <1>1, <1>3 DEF Sane, Depends
<1> QED BY <1>2, <1>3, <1>4, <1>5, OpStep DEF Actors

LEMMA ReplaceFailsCore ==
  ASSUME Core, op["queue"].pc \in {"stage", "swap"}, ReplaceFails, UNCHANGED <<backups, next>>
  PROVE  Core'
<1> DEFINE o == op["queue"]
           r == [o EXCEPT !.pc = "stage", !.back = TRUE, !.staged = None, !.moved = None]
<1>1. CASE ~(~o.back /\ o.snap # 0)
  BY <1>1, OpEnds DEF ReplaceFails, Actors
<1>2. CASE ~o.back /\ o.snap # 0
  <2>1. o \in OpOf("queue") /\ Sane(o)
    BY DEF Core, Typed, Actors
  <2>2. r \in OpOf("queue")
    BY <2>1 DEF OpOf, QueueOp, Points
  <2>3. /\ r.pc = "stage" /\ r.kind = o.kind /\ r.snap = o.snap /\ r.target = o.target
        /\ r.meddled = o.meddled
    BY <2>1 DEF OpOf, QueueOp
  <2>4. op' = [op EXCEPT !["queue"] = r]
    BY <1>2 DEF ReplaceFails
  <2> HIDE DEF r
  <2>5. Sane(r)
    BY <1>2, <2>1, <2>2, <2>3, Alters DEF Actors
  <2> QED BY <2>2, <2>3, <2>4, <2>5, OpStep DEF Actors
<1> QED BY <1>1, <1>2

\* The source of a replacement is a backup that exists or existed.
LEMMA SourceTyped == Core /\ op["queue"].kind = "restore" => Source \in Backup
<1> SUFFICES ASSUME Core, op["queue"].kind = "restore" PROVE Source \in Backup
  OBVIOUS
<1> DEFINE n == IF op["queue"].back THEN op["queue"].snap ELSE op["queue"].target
<1>1. op["queue"] \in QueueOp /\ Sane(op["queue"])
  BY DEF Core, Typed, Actors, OpOf
<1>2. n # 0
  BY <1>1 DEF Sane
<1>3. n \in Names \cup {0}
  BY <1>1 DEF QueueOp
<1> QED BY <1>2, <1>3 DEF Source, Core

LEMMA RestoreStagesCore == Core /\ RestoreStages => Core'
<1> SUFFICES ASSUME Core, RestoreStages PROVE Core'
  OBVIOUS
<1> DEFINE o == op["queue"]
<1>1. PICK s \in Saved \cup {None} : s = IF Source.intact THEN Source.saved ELSE Fresh(Torn)
  <2>1. Source.saved \in Saved \cup {None}
    BY SourceTyped DEF RestoreStages, Restoring, Backup
  <2> QED BY <2>1, Contents
<1> DEFINE r == [o EXCEPT !.pc = "aside", !.staged = s]
<1>2. o \in OpOf("queue") /\ Sane(o) /\ o.pc = "stage"
  BY DEF Core, Typed, Actors, RestoreStages, Restoring
<1>3. r \in OpOf("queue")
  BY <1>2, OpRecords DEF Points, Actors
<1>4. /\ r.pc = "aside" /\ r.kind = o.kind /\ r.snap = o.snap /\ r.target = o.target
      /\ r.back = o.back /\ r.meddled = o.meddled
  BY <1>2 DEF OpOf, QueueOp
<1>5. op' = [op EXCEPT !["queue"] = r] /\ UNCHANGED <<backups, next>>
  BY <1>1 DEF RestoreStages, Stages
<1> HIDE DEF r
<1>6. Sane(r)
  BY <1>2, <1>3, <1>4, Alters DEF Actors
<1> QED BY <1>3, <1>4, <1>5, <1>6, OpStep DEF Actors

LEMMA RestoreMovesAsideCore == Core /\ World /\ RestoreMovesAside => Core'
<1> SUFFICES ASSUME Core, World, RestoreMovesAside PROVE Core'
  OBVIOUS
<1> DEFINE o == op["queue"]
           r == [o EXCEPT !.pc = "swap", !.moved = live]
<1>1. o \in OpOf("queue") /\ Sane(o) /\ o.pc = "aside"
  BY DEF Core, Typed, Actors, RestoreMovesAside, Restoring
<1>2. r \in OpOf("queue")
  BY <1>1 DEF World, OpOf, QueueOp, Points
<1>3. /\ r.pc = "swap" /\ r.kind = o.kind /\ r.snap = o.snap /\ r.target = o.target
      /\ r.back = o.back /\ r.meddled = o.meddled
  BY <1>1 DEF OpOf, QueueOp
<1>4. op' = [op EXCEPT !["queue"] = r] /\ UNCHANGED <<backups, next>>
  BY DEF RestoreMovesAside
<1> HIDE DEF r
<1>5. Sane(r)
  BY <1>1, <1>2, <1>3, Alters DEF Actors
<1> QED BY <1>2, <1>3, <1>4, <1>5, OpStep DEF Actors

LEMMA RestoreCore == Core /\ World /\ Restore => Core'
<1> SUFFICES ASSUME Core, World, Restore PROVE Core'
  OBVIOUS
<1> USE DEF Actors
<1>1. CASE RestoreStopsServer
  BY <1>1, StopCore
<1>2. CASE RestoreStages
  BY <1>2, RestoreStagesCore
<1>3. CASE RestoreCannotStage
  BY <1>3, ReplaceFailsCore DEF RestoreCannotStage, Restoring
<1>4. CASE RestoreMovesAside
  BY <1>4, RestoreMovesAsideCore
<1>5. CASE RestoreCannotMoveAside
  BY <1>5, OpEnds DEF RestoreCannotMoveAside
<1>6. CASE RestoreSwaps
  BY <1>6, OpGoes DEF RestoreSwaps, Restoring
<1>7. CASE RestorePutsBack
  BY <1>7, ReplaceFailsCore DEF RestorePutsBack, Restoring
<1>8. CASE RestoreCannotPutBack
  BY <1>8, ReplaceFailsCore DEF RestoreCannotPutBack, Restoring
<1>9. CASE RestoreCleans
  BY <1>9, OpEnds DEF RestoreCleans
<1> QED BY <1>1, <1>2, <1>3, <1>4, <1>5, <1>6, <1>7, <1>8, <1>9 DEF Restore

-----------------------------------------------------------------------------
(* The steps of an import                                                   *)

\* What an import does to the world is remembered by the operation in the queue.
LEMMA MeddlesCore ==
  ASSUME Core, NEW r \in ImportOp, Sane(r), r.pc # "copying", Meddles(r),
         UNCHANGED <<backups, next>>
  PROVE  Core'
<1> DEFINE o == op["queue"]
<1>1. o \in QueueOp /\ Sane(o)
  BY DEF Core, Typed, Actors, OpOf
<1>2. PICK m \in BOOLEAN : m = (o.pc # "idle")
  OBVIOUS
<1> DEFINE q == [o EXCEPT !.meddled = m]
<1>3. /\ q \in QueueOp /\ q.pc = o.pc /\ q.kind = o.kind /\ q.snap = o.snap
      /\ q.target = o.target /\ q.back = o.back /\ q.meddled = m
  BY <1>1 DEF QueueOp
<1>4. op' = [op EXCEPT !["import"] = r, !["queue"] = q]
  BY <1>2 DEF Meddles
<1> HIDE DEF q
<1>5. op' = [a \in Actors |-> op'[a]] /\ op'["import"] = r /\ op'["queue"] = q
  BY <1>4 DEF Core, Typed, Actors
<1>6. Typed(op')
  BY <1>3, <1>5 DEF Typed, Actors, OpOf
<1>7. Sane(q)
  BY <1>1, <1>2, <1>3 DEF Sane, Depends, Kept0, MayGo
<1>8. ASSUME NEW c \in Actors PROVE Sane(op[c])'
  BY <1>5, <1>7 DEF Actors, Sane, Depends, Kept0, MayGo
<1>9. Apart'
  BY <1>5 DEF Apart
<1> QED BY <1>6, <1>8, <1>9 DEF Core, Sound

LEMMA ImportMovesAsideCore == Core /\ World /\ ImportMovesAside => Core'
<1> SUFFICES ASSUME Core, World, ImportMovesAside PROVE Core'
  OBVIOUS
<1> DEFINE o == op["import"]
<1>1. PICK s \in Content : s = Slot(live)
  BY Contents DEF World, Slot, Saved
<1> DEFINE r == [o EXCEPT !.pc = "swap", !.moved = s]
<1>2. o \in OpOf("import") /\ Sane(o) /\ o.pc = "aside"
  BY DEF Core, Typed, Actors, ImportMovesAside, Importing
<1>3. r \in OpOf("import") /\ r \in ImportOp
  BY <1>2 DEF OpOf, ImportOp, Points
<1>4. /\ r.pc = "swap" /\ r.kind = o.kind /\ r.snap = o.snap /\ r.target = o.target
      /\ r.back = o.back /\ r.meddled = o.meddled
  BY <1>2 DEF OpOf, ImportOp
<1>5. Meddles(r) /\ UNCHANGED <<backups, next>>
  BY <1>1 DEF ImportMovesAside
<1> HIDE DEF r
<1>6. Sane(r)
  BY <1>2, <1>3, <1>4, Alters DEF Actors
<1> QED BY <1>3, <1>4, <1>5, <1>6, MeddlesCore

LEMMA ImportSwapsCore == Core /\ ImportSwaps => Core'
<1> SUFFICES ASSUME Core, ImportSwaps PROVE Core'
  OBVIOUS
<1> DEFINE o == op["import"]
           r == [o EXCEPT !.pc = "clean"]
<1>1. o \in OpOf("import") /\ Sane(o) /\ o.pc = "swap"
  BY DEF Core, Typed, Actors, ImportSwaps, Importing
<1>2. r \in OpOf("import") /\ r \in ImportOp
  BY <1>1 DEF OpOf, ImportOp, Points
<1>3. /\ r.pc = "clean" /\ r.kind = o.kind /\ r.snap = o.snap /\ r.target = o.target
      /\ r.back = o.back /\ r.meddled = o.meddled
  BY <1>1 DEF OpOf, ImportOp
<1>4. Meddles(r) /\ UNCHANGED <<backups, next>>
  BY DEF ImportSwaps
<1> HIDE DEF r
<1>5. Sane(r)
  BY <1>1, <1>2, <1>3, Alters DEF Actors
<1> QED BY <1>2, <1>3, <1>4, <1>5, MeddlesCore

LEMMA ImportPutsBackCore == Core /\ ImportPutsBack => Core'
<1>1. Core => Sane(Idle) /\ Idle \in ImportOp /\ Idle.pc # "copying"
  BY IdleOp, IdleIsSane DEF Actors, OpOf
<1>2. ImportPutsBack => Meddles(Idle) /\ UNCHANGED <<backups, next>>
  BY DEF ImportPutsBack
<1> QED BY <1>1, <1>2, MeddlesCore

LEMMA ImportCore == Core /\ World /\ Import => Core'
<1> SUFFICES ASSUME Core, World, Import PROVE Core'
  OBVIOUS
<1> USE DEF Actors
<1>1. CASE ImportStarts
  BY <1>1, ImportStartsCore
<1>2. CASE ImportStages
  BY <1>2, OpGoes DEF ImportStages, Importing
<1>3. CASE ImportCannotStage
  BY <1>3, OpEnds DEF ImportCannotStage
<1>4. CASE ImportMovesAside
  BY <1>4, ImportMovesAsideCore
<1>5. CASE ImportCannotMoveAside
  BY <1>5, OpEnds DEF ImportCannotMoveAside
<1>6. CASE ImportSwaps
  BY <1>6, ImportSwapsCore
<1>7. CASE ImportPutsBack
  BY <1>7, ImportPutsBackCore
<1>8. CASE ImportCleans
  BY <1>8, OpEnds DEF ImportCleans
<1>9. CASE ImportCannotPutBack
  <2>1. Sane(Idle) /\ Idle \in ImportOp /\ Idle.pc # "copying"
    BY IdleOp, IdleIsSane DEF OpOf
  <2>2. Meddles(Idle) /\ UNCHANGED <<backups, next>>
    BY <1>9 DEF ImportCannotPutBack
  <2> QED BY <2>1, <2>2, MeddlesCore
<1> QED BY <1>1, <1>2, <1>3, <1>4, <1>5, <1>6, <1>7, <1>8, <1>9 DEF Import

-----------------------------------------------------------------------------
(* Every step                                                               *)

LEMMA SnapshotCore ==
  ASSUME Core, World, NEW a \in Actors, Snapshot(a) PROVE Core'
<1>1. CASE NothingToCopy(a)
  <2>1. op[a].pc = "snapshot" /\ UNCHANGED <<backups, next>>
    BY <1>1 DEF NothingToCopy
  <2>2. Ends(a) \/ Goes(a, "stage")
    BY <1>1 DEF NothingToCopy
  <2> QED BY <2>1, <2>2, OpEnds, OpGoes
<1>2. CASE CopyStarts(a)
  BY <1>2, CopyStartsCore
<1>3. CASE CopyEnds(a)
  BY <1>3, CopyEndsCore
<1>4. CASE CopyFails(a)
  BY <1>4, OpEnds DEF CopyFails
<1>5. CASE PruneStarts(a)
  BY <1>5, PruneStartsCore
<1>6. CASE PruneEnds(a)
  BY <1>6, PruneEndsCore
<1> QED BY <1>1, <1>2, <1>3, <1>4, <1>5, <1>6 DEF Snapshot

LEMMA IdleStepCore == Core /\ UNCHANGED <<op, backups, next>> => Core'
BY DEF Core, Typed, Sane, Depends, Kept0, MayGo, Sound, Apart

LEMMA CoreStep == Core /\ World /\ [Next]_vars => Core'
<1> SUFFICES ASSUME Core, World, [Next]_vars PROVE Core'
  OBVIOUS
<1>1. CASE BackupStarts
  BY <1>1, BackupStartsCore
<1>2. ASSUME NEW b \in Names, RestoreStarts(b) PROVE Core'
  BY <1>2, RestoreStartsCore
<1>3. ASSUME NEW b \in Names, DeleteStarts(b) PROVE Core'
  BY <1>3, DeleteStartsCore
<1>4. ASSUME NEW b \in Names, RemovalEnds(b) PROVE Core'
  BY <1>4, RemovalEndsCore
<1>5. ASSUME NEW a \in Actors, Snapshot(a) PROVE Core'
  BY <1>5, SnapshotCore
<1>6. CASE Restore
  BY <1>6, RestoreCore
<1>7. CASE Import
  BY <1>7, ImportCore
<1>8. CASE ServerStarts
  <2>1. (op' = Played \/ op' = op) /\ UNCHANGED <<backups, next>>
    BY <1>8 DEF ServerStarts
  <2> QED BY <2>1, PlayedRemembers, RemembersCore, IdleStepCore
<1>9. CASE GameSaves
  BY <1>9, PlayedRemembers, RemembersCore DEF GameSaves
<1>10. CASE ServerStops
  BY <1>10, IdleStepCore DEF ServerStops
<1>11. CASE Crash
  BY <1>11, CrashCore
<1>12. CASE UNCHANGED vars
  BY <1>12, IdleStepCore DEF vars
<1> QED BY <1>1, <1>2, <1>3, <1>4, <1>5, <1>6, <1>7, <1>8, <1>9, <1>10, <1>11, <1>12 DEF Next

-----------------------------------------------------------------------------
(* The directories and the counters                                         *)

Counters ==
  /\ begun \in 0..MaxOps
  /\ faults \in 0..MaxFaults
  /\ crashes \in 0..MaxCrashes

LEMMA Counted ==
  ASSUME Counters, Begins \/ UNCHANGED begun,
         crashes' = crashes \/ (crashes < MaxCrashes /\ crashes' = crashes + 1),
         \/ UNCHANGED faults \/ Fault
         \/ faults + 1 <= MaxFaults /\ faults' = faults + 1
         \/ faults + 2 <= MaxFaults /\ faults' = faults + 2
  PROVE  Counters'
BY BackupsAssumption DEF Counters, Begins, Fault

LEMMA RestoreCounters == Counters /\ Restore => Counters'
<1> SUFFICES ASSUME Counters, Restore PROVE Counters'
  OBVIOUS
<1>1. begun' = begun /\ crashes' = crashes
  BY DEF Restore, RestoreStopsServer, RestoreStages, RestoreCannotStage, RestoreMovesAside,
         RestoreCannotMoveAside, RestoreSwaps, RestorePutsBack, RestoreCannotPutBack, RestoreCleans
<1>2. \/ UNCHANGED faults \/ Fault
      \/ faults + 1 <= MaxFaults /\ faults' = faults + 1
      \/ faults + 2 <= MaxFaults /\ faults' = faults + 2
  BY DEF Restore, RestoreStopsServer, RestoreStages, RestoreCannotStage, RestoreMovesAside,
         RestoreCannotMoveAside, RestoreSwaps, RestorePutsBack, RestoreCannotPutBack, RestoreCleans,
         NoFault
<1> QED BY <1>1, <1>2, Counted

LEMMA ImportCounters == Counters /\ Import => Counters'
<1> SUFFICES ASSUME Counters, Import PROVE Counters'
  OBVIOUS
<1>1. (Begins \/ UNCHANGED begun) /\ crashes' = crashes
  BY DEF Import, ImportStarts, ImportStages, ImportCannotStage, ImportMovesAside,
         ImportCannotMoveAside, ImportSwaps, ImportPutsBack, ImportCannotPutBack, ImportCleans
<1>2. \/ UNCHANGED faults \/ Fault
      \/ faults + 1 <= MaxFaults /\ faults' = faults + 1
      \/ faults + 2 <= MaxFaults /\ faults' = faults + 2
  BY DEF Import, ImportStarts, ImportStages, ImportCannotStage, ImportMovesAside,
         ImportCannotMoveAside, ImportSwaps, ImportPutsBack, ImportCannotPutBack, ImportCleans, NoFault
<1> QED BY <1>1, <1>2, Counted

LEMMA SnapshotCounters ==
  ASSUME Counters, NEW a \in Actors, Snapshot(a) PROVE Counters'
<1>1. begun' = begun /\ crashes' = crashes /\ (UNCHANGED faults \/ Fault)
  BY DEF Snapshot, NothingToCopy, CopyStarts, CopyEnds, CopyFails, PruneStarts, PruneEnds, NoFault
<1> QED BY <1>1, Counted

LEMMA CountersStep == Counters /\ [Next]_vars => Counters'
<1> SUFFICES ASSUME Counters, [Next]_vars PROVE Counters'
  OBVIOUS
<1>1. CASE BackupStarts
  BY <1>1, Counted DEF BackupStarts
<1>2. ASSUME NEW b \in Names, RestoreStarts(b) \/ DeleteStarts(b) \/ RemovalEnds(b)
      PROVE  Counters'
  BY <1>2, Counted DEF RestoreStarts, DeleteStarts, RemovalEnds
<1>3. CASE ServerStarts \/ GameSaves \/ ServerStops
  BY <1>3, Counted DEF ServerStarts, GameSaves, ServerStops
<1>4. CASE Crash
  BY <1>4, Counted DEF Crash
<1>5. CASE UNCHANGED vars
  BY <1>5, Counted DEF vars
<1> QED BY <1>1, <1>2, <1>3, <1>4, <1>5, SnapshotCounters, RestoreCounters, ImportCounters
    DEF Next

Disk == live \in Saved \cup {None} /\ aside \subseteq Saved

\* The parts of the Saved directory that the steps of an import replace.
LEMMA Parts ==
  ASSUME NEW s \in Saved, NEW w \in Content, NEW v \in Content
  PROVE  /\ s.slot \in Content /\ s.half \in Content /\ s.old \subseteq Content
         /\ [s EXCEPT !.half = w] \in Saved
         /\ [s EXCEPT !.slot = w] \in Saved
         /\ [s EXCEPT !.slot = w, !.half = v] \in Saved
         /\ \A old \in SUBSET Content :
              /\ [s EXCEPT !.old = old] \in Saved
              /\ [s EXCEPT !.slot = w, !.old = old] \in Saved
              /\ [s EXCEPT !.slot = w, !.old = old, !.half = v] \in Saved
BY DEF Saved

LEMMA RestoreDisk == Core /\ Disk /\ Restore => Disk'
<1> SUFFICES ASSUME Core, Disk, Restore PROVE Disk'
  OBVIOUS
<1> USE Contents DEF Disk
<1>1. op["queue"].staged \in Saved \cup {None} /\ op["queue"].moved \in Saved \cup {None}
  BY DEF Core, Typed, Actors, OpOf, QueueOp
<1>2. CASE RestoreStopsServer
  BY <1>2 DEF RestoreStopsServer
<1>3. CASE RestoreStages
  BY <1>3 DEF RestoreStages
<1>4. CASE RestoreCannotStage
  BY <1>4 DEF RestoreCannotStage
<1>5. CASE RestoreMovesAside
  BY <1>5 DEF RestoreMovesAside
<1>6. CASE RestoreCannotMoveAside
  BY <1>6 DEF RestoreCannotMoveAside
<1>7. CASE RestoreSwaps
  BY <1>1, <1>7 DEF RestoreSwaps
<1>8. CASE RestorePutsBack
  BY <1>1, <1>8 DEF RestorePutsBack
<1>9. CASE RestoreCannotPutBack
  BY <1>9 DEF RestoreCannotPutBack
<1>10. CASE RestoreCleans
  BY <1>10 DEF RestoreCleans
<1> QED BY <1>2, <1>3, <1>4, <1>5, <1>6, <1>7, <1>8, <1>9, <1>10 DEF Restore

LEMMA ImportDisk == Core /\ Disk /\ Import => Disk'
<1> SUFFICES ASSUME Core, Disk, Import PROVE Disk'
  OBVIOUS
<1> USE Contents DEF Disk
<1>1. op["import"].want \in Content /\ op["import"].moved \in Content
  BY DEF Core, Typed, Actors, OpOf, ImportOp
<1>2. CASE ImportStarts
  BY <1>2 DEF ImportStarts
<1>3. CASE ImportStages
  BY <1>1, <1>3, Parts DEF ImportStages
<1>4. CASE ImportCannotStage
  BY <1>4 DEF ImportCannotStage
<1>5. CASE ImportMovesAside
  BY <1>5, Parts DEF ImportMovesAside, Slot
<1>6. CASE ImportCannotMoveAside
  BY <1>6 DEF ImportCannotMoveAside
<1>7. CASE ImportSwaps
  BY <1>7, Parts DEF ImportSwaps, Swappable
<1>8. CASE ImportPutsBack
  BY <1>1, <1>8, Parts DEF ImportPutsBack
<1>9. CASE ImportCleans
  BY <1>9, Parts DEF ImportCleans
<1>10. CASE ImportCannotPutBack
  BY <1>10, Parts DEF ImportCannotPutBack
<1> QED BY <1>2, <1>3, <1>4, <1>5, <1>6, <1>7, <1>8, <1>9, <1>10 DEF Import

LEMMA DiskStep == Core /\ Disk /\ [Next]_vars => Disk'
<1> SUFFICES ASSUME Core, Disk, [Next]_vars PROVE Disk'
  OBVIOUS
<1> USE Contents DEF Disk
<1>1. CASE BackupStarts
  BY <1>1 DEF BackupStarts
<1>2. ASSUME NEW b \in Names, RestoreStarts(b) \/ DeleteStarts(b) \/ RemovalEnds(b) PROVE Disk'
  BY <1>2 DEF RestoreStarts, DeleteStarts, RemovalEnds
<1>3. ASSUME NEW a \in Actors, Snapshot(a) PROVE Disk'
  BY <1>3 DEF Snapshot, NothingToCopy, CopyStarts, CopyEnds, CopyFails, PruneStarts, PruneEnds
<1>4. \A w \in Worlds : w \in Content
  BY DEF Content
<1>5. CASE ServerStarts
  BY <1>4, <1>5, Parts DEF ServerStarts
<1>6. CASE GameSaves
  BY <1>4, <1>6, Parts DEF GameSaves
<1>7. CASE ServerStops
  BY <1>7 DEF ServerStops
<1>8. CASE Crash
  BY <1>8, Parts DEF Crash
<1>9. CASE UNCHANGED vars
  BY <1>9 DEF vars
<1> QED BY <1>1, <1>2, <1>3, <1>5, <1>6, <1>7, <1>8, <1>9, RestoreDisk, ImportDisk DEF Next

LEMMA ServerStep == server \in {"offline", "tracked", "adopted"} /\ [Next]_vars
                      => server' \in {"offline", "tracked", "adopted"}
<1> SUFFICES ASSUME server \in {"offline", "tracked", "adopted"}, [Next]_vars
             PROVE  server' \in {"offline", "tracked", "adopted"}
  OBVIOUS
<1>1. CASE Restore
  BY <1>1 DEF Restore, RestoreStopsServer, RestoreStages, RestoreCannotStage, RestoreMovesAside,
         RestoreCannotMoveAside, RestoreSwaps, RestorePutsBack, RestoreCannotPutBack, RestoreCleans
<1>2. CASE Import
  BY <1>2 DEF Import, ImportStarts, ImportStages, ImportCannotStage, ImportMovesAside,
         ImportCannotMoveAside, ImportSwaps, ImportPutsBack, ImportCannotPutBack, ImportCleans
<1>3. ASSUME NEW a \in Actors, Snapshot(a) PROVE server' = server
  BY <1>3 DEF Snapshot, NothingToCopy, CopyStarts, CopyEnds, CopyFails, PruneStarts, PruneEnds
<1>4. ASSUME NEW b \in Names, RestoreStarts(b) \/ DeleteStarts(b) \/ RemovalEnds(b)
      PROVE  server' = server
  BY <1>4 DEF RestoreStarts, DeleteStarts, RemovalEnds
<1>5. CASE BackupStarts \/ ServerStarts \/ GameSaves \/ ServerStops
  BY <1>5 DEF BackupStarts, ServerStarts, GameSaves, ServerStops
<1>6. CASE Crash
  BY <1>6 DEF Crash
<1>7. CASE UNCHANGED vars
  BY <1>7 DEF vars
<1> QED BY <1>1, <1>2, <1>3, <1>4, <1>5, <1>6, <1>7 DEF Next

-----------------------------------------------------------------------------
(* Theorems                                                                 *)

LEMMA Initially == Init => IInv
<1> SUFFICES ASSUME Init PROVE IInv
  OBVIOUS
<1> USE BackupsAssumption
<1>1. Typed(op)
  BY IdleOp DEF Init, Typed
<1>2. backups \in [Names -> Backup]
  BY DEF Init, Backup, NoBackup
<1>3. \A a \in Actors : Sane(op[a])
  BY DEF Init, Sane, Depends, Idle
<1>4. \A b \in Names : Sound(b)
  BY DEF Init, Sound, NoBackup
<1>5. Apart
  BY DEF Init, Apart, Actors, Idle
<1>6. World
  BY Contents DEF Init, World, Content
<1>7. next \in 1..(MaxBackups + 1)
  BY DEF Init
<1> QED BY <1>1, <1>2, <1>3, <1>4, <1>5, <1>6, <1>7 DEF IInv, Core

LEMMA Preserved == IInv /\ [Next]_vars => IInv'
<1>1. World <=> Disk /\ Counters /\ server \in {"offline", "tracked", "adopted"}
  BY DEF World, Disk, Counters
<1>2. World' <=> Disk' /\ Counters' /\ server' \in {"offline", "tracked", "adopted"}
  BY DEF World, Disk, Counters
<1> QED BY <1>1, <1>2, CoreStep, DiskStep, CountersStep, ServerStep DEF IInv

LEMMA Invariant == Spec => []IInv
BY Initially, Preserved, PTL DEF Spec

\* The state of backup_service.py, safe_replace.py and save_import_service.py
\* stays in the form the model gives it.
THEOREM BackupsTypeCorrect == Spec => []TypeOK
BY Invariant, ImpliesTypeOK, PTL

\* A backup with a meta.json is whole until somebody deletes it: _create_snapshot
\* writes meta.json last, under a name no other operation copies to.
THEOREM ListedBackupsAreWhole == Spec => []ListedIsWhole
BY Invariant, ImpliesListedIsWhole, PTL

\* apply_retention never takes the snapshot of a restore that may still need it
\* to go back, unless as many newer backups as are kept were made meanwhile:
\* the count spares the newest, whatever else is in the directory.
THEOREM RollbackPointSurvives == Spec => []RollbackPointKept
BY Invariant, ImpliesRollbackPointKept, PTL

-----------------------------------------------------------------------------
(* What a restore promises, and what becomes of the world that it found.    *)

\* The world that a restore found, as its snapshot keeps it.
Before(o) == backups[o.snap].saved.slot
LiesAside(w) == \E s \in aside : s.slot = w

\* A user, an import or the retention of another operation has hit what it needs.
Disturbed(o) == o.meddled \/ o.robbed

\* The retention of the operation itself is at it.
Leaving(o, b) == o.pc = "pruning" /\ b \in o.pruned /\ backups[b].doomed

\* While only the restore works on the world: where the world is that it found,
\* and what a second attempt, from the snapshot, puts in its place.
Tracks(o) ==
  /\ o.pc = "copying" => Slot(live) = o.staged.slot /\ ~Hit(o.snap)
  /\ o.pc \in {"prune", "pruning"} => Slot(live) = Before(o)
  /\ o.pc \in {"stage", "aside"} => Slot(live) = Before(o) \/ LiesAside(Before(o))
  /\ o.pc = "swap" => /\ Slot(live) = None
                      /\ o.moved # None => o.moved \in aside
                      /\ Slot(o.moved) = Before(o) \/ LiesAside(Before(o))
  /\ o.back /\ o.pc \in {"aside", "swap"} => Slot(o.staged) = Before(o)
  /\ o.back /\ o.pc = "clean" => Slot(live) = Before(o)
  /\ o.pc # "copying" /\ backups[o.snap].dir => backups[o.snap].intact \/ Leaving(o, o.snap)

\* The backup that a restore verified stays what it was until it is removed, and
\* is what the restore puts in place.
Promise(o) ==
  /\ o.pc # "idle" /\ o.target < next /\ o.want # None
  /\ ~Disturbed(o) =>
       /\ backups[o.target].dir => /\ backups[o.target].saved = o.want
                                  /\ (backups[o.target].intact \/ Leaving(o, o.target))
       /\ ~o.back /\ o.pc \in {"aside", "swap", "clean"} => o.staged = o.want
       /\ ~o.back /\ o.pc = "clean" => o.played \/ Slot(live) = o.want.slot
  /\ o.snap # 0 /\ ~o.played /\ ~Disturbed(o) => Tracks(o)

Whole == \A b \in Names : backups[b].intact => backups[b].saved # None

\* The actors have snapshots of their own, and nobody copies into the backup
\* that is restored.
Foreign ==
  /\ op["queue"].snap # 0 => op["queue"].snap # op["import"].snap
  /\ op["queue"].kind = "restore" =>
       \A a \in Actors : op[a].pc = "copying" => op[a].snap # op["queue"].target

Faith == Whole /\ Foreign /\ (op["queue"].kind = "restore" => Promise(op["queue"]))

-----------------------------------------------------------------------------
LEMMA CopyIsSaved ==
  ASSUME NEW s, NEW r \in Saved PROVE CopyOf(s, r) \in Saved /\ CopyOf(s, r) # None
<1>1. r.slot \in Content /\ Torn \in Content /\ None \in Content /\ r.old \subseteq Content
  BY DEF Saved, Content
<1>2. s.old \cap r.old \subseteq Content
  BY <1>1
<1> QED BY <1>1, <1>2, NoneIsNoDirectory DEF CopyOf, Saved

\* What a step does to the backups: one is begun or completed, the removal of some
\* begins, or that of one ends.
Gone(b) == backups[b].doomed /\ ~backups'[b].dir
Left(b) ==
  /\ backups'[b].saved = backups[b].saved /\ backups'[b].taken = backups[b].taken
  /\ backups'[b].intact => backups[b].intact

LEMMA PruneLeaves ==
  ASSUME Core, NEW a \in Actors, PruneStarts(a) \/ PruneEnds(a), NEW b \in Names
  PROVE  Left(b) /\ (backups'[b] = backups[b] \/ (PruneStarts(a) /\ b \in Surplus))
BY PruneStartsHalves DEF PruneEnds, Left

LEMMA DeleteLeaves ==
  ASSUME Core, NEW d \in Names, NEW b \in Names, DeleteStarts(d) \/ RemovalEnds(d)
  PROVE  /\ Left(b)
         /\ backups'[b] = backups[b] \/ Gone(b) \/ (b = d /\ DeleteStarts(d))
<1>1. backups[b] \in Backup /\ backups[d] \in Backup /\ backups \in [Names -> Backup]
  BY DEF Core
<1>2. CASE DeleteStarts(d)
  <2>1. PICK m \in BOOLEAN : backups' = [backups EXCEPT ![d] = HalfRemoved(backups[d], m)]
    BY <1>2 DEF DeleteStarts
  <2>2. CASE b = d
    <3>1. backups'[b] = HalfRemoved(backups[b], m)
      BY <1>1, <2>1, <2>2
    <3> QED BY <1>1, <1>2, <2>2, <3>1 DEF HalfRemoved, Backup, Left
  <2>3. CASE b # d
    BY <1>1, <2>1, <2>3 DEF Left
  <2> QED BY <2>2, <2>3
<1>3. CASE RemovalEnds(d)
  <2>1. backups' = [backups EXCEPT ![d] = Removed(backups[d])] /\ backups[d].doomed
    BY <1>3 DEF RemovalEnds
  <2>2. CASE b = d
    <3>1. backups'[b] = Removed(backups[b])
      BY <1>1, <2>1, <2>2
    <3> QED BY <1>1, <2>1, <2>2, <3>1 DEF Removed, Backup, Left, Gone
  <2>3. CASE b # d
    BY <1>1, <2>1, <2>3 DEF Left
  <2> QED BY <2>2, <2>3
<1> QED BY <1>2, <1>3

LEMMA PruneEndsMoves ==
  ASSUME Core, NEW a \in Actors, PruneEnds(a)
  PROVE  \E m \in BOOLEAN :
           \/ op' = [op EXCEPT ![a] = Idle]
           \/ op' = [op EXCEPT ![a] = [op[a] EXCEPT !.pc = "stage", !.pruned = {}, !.robbed = m]]
<1>1. op[a].robbed \in BOOLEAN
  BY DEF Core, Typed, OpOf, QueueOp, ImportOp
<1> QED BY <1>1 DEF PruneEnds, Ends

LEMMA CopyStartsBackups ==
  ASSUME Core, NEW a \in Actors, CopyStarts(a)
  PROVE  /\ next \in Names
         /\ ~backups'[next].intact /\ backups'[next].dir /\ ~backups'[next].doomed
         /\ \A b \in Names : b # next => backups'[b] = backups[b]
<1>1. next \in Names
  BY BackupsAssumption DEF Core, CopyStarts, Names
<1>2. backups' = [backups EXCEPT ![next] = [NoBackup EXCEPT !.dir = TRUE]]
  BY DEF CopyStarts
<1>3. backups'[next] = [NoBackup EXCEPT !.dir = TRUE]
  BY <1>1, <1>2 DEF Core
<1> QED BY <1>1, <1>2, <1>3 DEF Core, NoBackup

LEMMA CopyEndsBackups ==
  ASSUME Core, World, NEW a \in Actors, CopyEnds(a)
  PROVE  /\ op[a].snap \in Names /\ live \in Saved
         /\ backups'[op[a].snap].intact <=> ~backups[op[a].snap].doomed
         /\ backups'[op[a].snap].dir
         /\ backups'[op[a].snap].doomed <=> backups[op[a].snap].doomed
         /\ backups'[op[a].snap].saved \in {Fresh(Torn), CopyOf(op[a].staged, live)}
         /\ ~Hit(op[a].snap) => backups'[op[a].snap].saved = CopyOf(op[a].staged, live)
         /\ backups'[op[a].snap].taken = CopyOf(op[a].staged, live)
         /\ \A b \in Names : b # op[a].snap => backups'[b] = backups[b]
<1> DEFINE n == op[a].snap
           s == CopyOf(op[a].staged, live)
           t == IF Hit(n) THEN Fresh(Torn) ELSE s
           e == ~backups[n].doomed
<1>1. op[a] \in OpOf(a) /\ Sane(op[a]) /\ op[a].pc = "copying" /\ live \in Saved
  BY DEF Core, Typed, CopyEnds, World
<1>2. n \in Names
  BY <1>1 DEF Sane, OpOf, QueueOp, ImportOp
<1>3. backups' = [backups EXCEPT ![n] =
        [dir |-> TRUE, meta |-> TRUE, intact |-> e, doomed |-> backups[n].doomed,
         saved |-> t, taken |-> s]]
  BY DEF CopyEnds
<1>4. t \in {Fresh(Torn), s} /\ (~Hit(n) => t = s)
  OBVIOUS
<1> HIDE DEF s, t, e
<1>5. backups'[n] = [dir |-> TRUE, meta |-> TRUE, intact |-> e, doomed |-> backups[n].doomed,
                     saved |-> t, taken |-> s]
  BY <1>2, <1>3 DEF Core
<1>6. \A b \in Names : b # n => backups'[b] = backups[b]
  BY <1>2, <1>3 DEF Core
<1>7. /\ backups'[n].intact = e /\ backups'[n].dir /\ backups'[n].saved = t
      /\ backups'[n].taken = s /\ backups'[n].doomed = backups[n].doomed
  BY <1>5
<1>8. backups'[n].intact <=> ~backups[n].doomed
  BY <1>7 DEF e
<1> QED BY <1>1, <1>2, <1>4, <1>6, <1>7, <1>8 DEF s

\* The steps that change the backups.
LEMMA BackupsChange ==
  ASSUME [Next]_vars
  PROVE  \/ UNCHANGED <<backups, next>>
         \/ \E a \in Actors : CopyStarts(a) \/ CopyEnds(a) \/ PruneStarts(a)
         \/ \E b \in Names : DeleteStarts(b) \/ RemovalEnds(b)
<1>1. Restore => UNCHANGED <<backups, next>>
  BY DEF Restore, RestoreStopsServer, RestoreStages, RestoreCannotStage, RestoreMovesAside,
       RestoreCannotMoveAside, RestoreSwaps, RestorePutsBack, RestoreCannotPutBack, RestoreCleans
<1>2. Import => UNCHANGED <<backups, next>>
  BY DEF Import, ImportStarts, ImportStages, ImportCannotStage, ImportMovesAside,
       ImportCannotMoveAside, ImportSwaps, ImportPutsBack, ImportCannotPutBack, ImportCleans
<1>3. ASSUME NEW a \in Actors, Snapshot(a)
      PROVE  UNCHANGED <<backups, next>> \/ CopyStarts(a) \/ CopyEnds(a) \/ PruneStarts(a)
  BY <1>3 DEF Snapshot, NothingToCopy, CopyFails, PruneEnds
<1> QED BY <1>1, <1>2, <1>3
        DEF Next, BackupStarts, RestoreStarts, ServerStarts, GameSaves, ServerStops, Crash, vars

LEMMA WholeStep == Core /\ World /\ Whole /\ [Next]_vars => Whole'
<1> SUFFICES ASSUME Core, World, Whole, [Next]_vars PROVE Whole'
  OBVIOUS
<1>1. CASE backups' = backups
  BY <1>1 DEF Whole
<1>2. ASSUME NEW a \in Actors, CopyStarts(a) PROVE Whole'
  BY <1>2, CopyStartsBackups DEF Whole
<1>3. ASSUME NEW a \in Actors, CopyEnds(a) PROVE Whole'
  <2>1. Fresh(Torn) # None
    BY Contents, NoneIsNoDirectory
  <2> QED BY <1>3, <2>1, CopyEndsBackups, CopyIsSaved DEF Whole
<1>4. ASSUME NEW a \in Actors, PruneStarts(a) PROVE Whole'
  BY <1>4, PruneLeaves DEF Whole, Left
<1>5. ASSUME NEW b \in Names, DeleteStarts(b) \/ RemovalEnds(b) PROVE Whole'
  BY <1>5, DeleteLeaves DEF Whole, Left
<1> QED BY <1>1, <1>2, <1>3, <1>4, <1>5, BackupsChange

-----------------------------------------------------------------------------
(* How the operation of an actor goes on                                    *)

\* Unless a copy or a restore begins, an operation keeps its snapshot and its
\* backup, or is over.
Follows(p, q) ==
  /\ q.snap \in {p.snap, 0}
  /\ q.pc = "copying" => p.pc = "copying" /\ q.snap = p.snap
  /\ q.kind = "restore" => p.kind = "restore" /\ q.target = p.target

LEMMA FollowsItself ==
  /\ \A p : Follows(p, p)
  /\ \A p : Follows(p, Idle)
BY DEF Follows, Idle

\* One actor's record changes.
LEMMA OneFollows ==
  ASSUME Core, NEW a \in Actors, NEW r, op' = [op EXCEPT ![a] = r], Follows(op[a], r)
  PROVE  \A c \in Actors : Follows(op[c], op'[c])
<1>1. \A c \in Actors : op'[c] = IF c = a THEN r ELSE op[c]
  BY DEF Core, Typed
<1> QED BY <1>1, FollowsItself

LEMMA GoesFollows ==
  ASSUME Core, NEW a \in Actors, NEW p \in Points \ {"copying"}, Goes(a, p)
  PROVE  \A c \in Actors : Follows(op[c], op'[c])
<1> DEFINE r == [op[a] EXCEPT !.pc = p]
<1>1. op[a] \in OpOf(a)
  BY DEF Core, Typed
<1>2. op' = [op EXCEPT ![a] = r]
  BY DEF Goes
<1>3. r.pc = p /\ r.snap = op[a].snap /\ r.kind = op[a].kind /\ r.target = op[a].target
  BY <1>1 DEF OpOf, QueueOp, ImportOp
<1> HIDE DEF r
<1> QED BY <1>2, <1>3, OneFollows DEF Follows

LEMMA EndsFollows ==
  ASSUME Core, NEW a \in Actors, Ends(a) PROVE \A c \in Actors : Follows(op[c], op'[c])
BY OneFollows, FollowsItself DEF Ends

LEMMA MeddlesFollows ==
  ASSUME Core, NEW r, Meddles(r), Follows(op["import"], r)
  PROVE  /\ \A c \in Actors : Follows(op[c], op'[c])
         /\ op'["queue"] = [op["queue"] EXCEPT !.meddled = (op["queue"].pc # "idle")]
<1> DEFINE q == [op["queue"] EXCEPT !.meddled = (op["queue"].pc # "idle")]
<1>1. op["queue"] \in QueueOp
  BY DEF Core, Typed, Actors, OpOf
<1>2. op' = [op EXCEPT !["import"] = r, !["queue"] = q]
  BY DEF Meddles
<1>3. q.pc = op["queue"].pc /\ q.snap = op["queue"].snap /\ q.kind = op["queue"].kind
      /\ q.target = op["queue"].target
  BY <1>1 DEF QueueOp
<1> HIDE DEF q
<1>4. op'["import"] = r /\ op'["queue"] = q
  BY <1>2 DEF Core, Typed, Actors
<1> QED BY <1>3, <1>4 DEF Actors, Follows, q

LEMMA ReplaceFailsFollows ==
  ASSUME Core, ReplaceFails PROVE \A c \in Actors : Follows(op[c], op'[c])
<1> DEFINE o == op["queue"]
           r == [o EXCEPT !.pc = "stage", !.back = TRUE, !.staged = None, !.moved = None]
<1>1. CASE ~(~o.back /\ o.snap # 0)
  BY <1>1, EndsFollows DEF ReplaceFails, Actors
<1>2. CASE ~o.back /\ o.snap # 0
  <2>1. o \in QueueOp
    BY DEF Core, Typed, Actors, OpOf
  <2>2. r.pc = "stage" /\ r.snap = o.snap /\ r.kind = o.kind /\ r.target = o.target
    BY <2>1 DEF QueueOp
  <2>3. op' = [op EXCEPT !["queue"] = r]
    BY <1>2 DEF ReplaceFails
  <2> HIDE DEF r
  <2> QED BY <2>2, <2>3, OneFollows DEF Actors, Follows
<1> QED BY <1>1, <1>2

LEMMA RestoreFollows == Core /\ Restore => \A c \in Actors : Follows(op[c], op'[c])
<1> SUFFICES ASSUME Core, Restore PROVE \A c \in Actors : Follows(op[c], op'[c])
  OBVIOUS
<1> DEFINE o == op["queue"]
<1>0. o \in QueueOp /\ "queue" \in Actors
  BY DEF Core, Typed, Actors, OpOf
<1>1. CASE RestoreStopsServer
  BY <1>1, <1>0, GoesFollows DEF RestoreStopsServer, Points
<1>2. CASE RestoreStages
  <2>1. PICK s : op' = [op EXCEPT !["queue"] = [o EXCEPT !.pc = "aside", !.staged = s]]
    BY <1>2 DEF RestoreStages, Stages
  <2> DEFINE r == [o EXCEPT !.pc = "aside", !.staged = s]
  <2>2. r.pc = "aside" /\ r.snap = o.snap /\ r.kind = o.kind /\ r.target = o.target
    BY <1>0 DEF QueueOp
  <2> HIDE DEF r
  <2> QED BY <1>0, <2>1, <2>2, OneFollows DEF Follows, r
<1>3. CASE RestoreCannotStage \/ RestorePutsBack \/ RestoreCannotPutBack
  BY <1>3, ReplaceFailsFollows DEF RestoreCannotStage, RestorePutsBack, RestoreCannotPutBack
<1>4. CASE RestoreMovesAside
  <2> DEFINE r == [o EXCEPT !.pc = "swap", !.moved = live]
  <2>1. op' = [op EXCEPT !["queue"] = r]
    BY <1>4 DEF RestoreMovesAside
  <2>2. r.pc = "swap" /\ r.snap = o.snap /\ r.kind = o.kind /\ r.target = o.target
    BY <1>0 DEF QueueOp
  <2> HIDE DEF r
  <2> QED BY <1>0, <2>1, <2>2, OneFollows DEF Follows
<1>5. CASE RestoreCannotMoveAside \/ RestoreCleans
  BY <1>5, <1>0, EndsFollows DEF RestoreCannotMoveAside, RestoreCleans
<1>6. CASE RestoreSwaps
  BY <1>6, <1>0, GoesFollows DEF RestoreSwaps, Points
<1> QED BY <1>1, <1>2, <1>3, <1>4, <1>5, <1>6 DEF Restore

LEMMA ImportFollows == Core /\ Import => \A c \in Actors : Follows(op[c], op'[c])
<1> SUFFICES ASSUME Core, Import PROVE \A c \in Actors : Follows(op[c], op'[c])
  OBVIOUS
<1> DEFINE o == op["import"]
<1>0. o \in ImportOp /\ "import" \in Actors /\ Sane(o)
  BY DEF Core, Typed, Actors, OpOf
<1>1. CASE ImportStarts
  <2>1. PICK w : op' = [op EXCEPT !["import"] =
                          [Idle EXCEPT !.kind = "import", !.pc = "snapshot", !.want = w]]
    BY <1>1 DEF ImportStarts
  <2> DEFINE r == [Idle EXCEPT !.kind = "import", !.pc = "snapshot", !.want = w]
  <2>2. r.pc = "snapshot" /\ r.snap = 0 /\ r.kind = "import"
    BY DEF Idle
  <2> HIDE DEF r
  <2> QED BY <1>0, <2>1, <2>2, OneFollows DEF Follows, r
<1>2. CASE ImportStages
  BY <1>0, <1>2, GoesFollows DEF ImportStages, Points
<1>3. CASE ImportCannotStage \/ ImportCannotMoveAside \/ ImportCleans
  BY <1>0, <1>3, EndsFollows DEF ImportCannotStage, ImportCannotMoveAside, ImportCleans
<1>4. CASE ImportMovesAside
  <2> DEFINE r == [o EXCEPT !.pc = "swap", !.moved = Slot(live)]
  <2>1. r.pc = "swap" /\ r.snap = o.snap /\ r.kind = o.kind /\ r.target = o.target
    BY <1>0 DEF ImportOp
  <2>2. Meddles(r)
    BY <1>4 DEF ImportMovesAside
  <2> HIDE DEF r
  <2> QED BY <2>1, <2>2, MeddlesFollows DEF Follows
<1>5. CASE ImportSwaps
  <2> DEFINE r == [o EXCEPT !.pc = "clean"]
  <2>1. r.pc = "clean" /\ r.snap = o.snap /\ r.kind = o.kind /\ r.target = o.target
    BY <1>0 DEF ImportOp
  <2>2. Meddles(r)
    BY <1>5 DEF ImportSwaps
  <2> HIDE DEF r
  <2> QED BY <2>1, <2>2, MeddlesFollows DEF Follows
<1>6. CASE ImportPutsBack \/ ImportCannotPutBack
  BY <1>6, MeddlesFollows, FollowsItself DEF ImportPutsBack, ImportCannotPutBack
<1> QED BY <1>1, <1>2, <1>3, <1>4, <1>5, <1>6 DEF Import

\* Steps of the game and of a deletion note in the records what they do.
LEMMA NotesFollow ==
  ASSUME Core, \/ op' = Played \/ op' = op
               \/ \E b \in Names : DeleteStarts(b)
  PROVE  \A c \in Actors : Follows(op[c], op'[c])
<1> SUFFICES ASSUME NEW c \in Actors PROVE Follows(op[c], op'[c])
  OBVIOUS
<1>1. op[c] \in OpOf(c)
  BY DEF Core, Typed
<1>2. CASE op' = op
  BY <1>2, FollowsItself
<1>3. CASE op' = Played
  <2>1. PICK m : op'[c] = [op[c] EXCEPT !.played = m]
    BY <1>3 DEF Played
  <2> QED BY <1>1, <2>1 DEF OpOf, QueueOp, ImportOp, Follows
<1>4. ASSUME NEW b \in Names, DeleteStarts(b) PROVE Follows(op[c], op'[c])
  <2>1. PICK m : op'[c] = [op[c] EXCEPT !.meddled = m]
    BY <1>4 DEF DeleteStarts
  <2> QED BY <1>1, <2>1 DEF OpOf, QueueOp, ImportOp, Follows
<1> QED BY <1>2, <1>3, <1>4

LEMMA SnapshotFollows ==
  ASSUME Core, NEW a \in Actors, Snapshot(a)
  PROVE  CopyStarts(a) \/ \A c \in Actors : Follows(op[c], op'[c])
<1>1. CASE NothingToCopy(a)
  <2>1. Ends(a) \/ Goes(a, "stage")
    BY <1>1 DEF NothingToCopy
  <2> QED BY <2>1, EndsFollows, GoesFollows DEF Points
<1>2. CASE CopyEnds(a)
  BY <1>2, GoesFollows DEF CopyEnds, Points
<1>3. CASE CopyFails(a)
  BY <1>3, EndsFollows DEF CopyFails
<1>4. CASE PruneStarts(a)
  <2>1. ASSUME NEW c \in Actors PROVE Follows(op[c], op'[c])
    BY <1>4, PruneStartsNotes DEF Follows
  <2> QED BY <2>1
<1>5. CASE PruneEnds(a)
  <2>1. CASE Ends(a)
    BY <2>1, EndsFollows
  <2>2. CASE ~Ends(a)
    <3>1. PICK m :
            op' = [op EXCEPT ![a] = [op[a] EXCEPT !.pc = "stage", !.pruned = {}, !.robbed = m]]
      BY <1>5, <2>2 DEF PruneEnds
    <3> DEFINE r == [op[a] EXCEPT !.pc = "stage", !.pruned = {}, !.robbed = m]
    <3>2. op[a] \in OpOf(a)
      BY DEF Core, Typed
    <3>3. r.pc = "stage" /\ r.snap = op[a].snap /\ r.kind = op[a].kind /\ r.target = op[a].target
      BY <3>2 DEF OpOf, QueueOp, ImportOp
    <3>4. op' = [op EXCEPT ![a] = r]
      BY <3>1
    <3> HIDE DEF r
    <3> QED BY <3>3, <3>4, OneFollows DEF Follows
  <2> QED BY <2>1, <2>2
<1> QED BY <1>1, <1>2, <1>3, <1>4, <1>5 DEF Snapshot

LEMMA StepFollows ==
  ASSUME Core, [Next]_vars
  PROVE  \/ \E a \in Actors : CopyStarts(a)
         \/ \E b \in Names : RestoreStarts(b)
         \/ \A c \in Actors : Follows(op[c], op'[c])
<1>1. CASE BackupStarts
  <2> DEFINE r == [Idle EXCEPT !.kind = "backup", !.pc = "snapshot"]
  <2>1. op' = [op EXCEPT !["queue"] = r]
    BY <1>1 DEF BackupStarts
  <2>2. r.pc = "snapshot" /\ r.snap = 0 /\ r.kind = "backup"
    BY DEF Idle
  <2> HIDE DEF r
  <2> QED BY <2>1, <2>2, OneFollows DEF Follows, Actors
<1>2. CASE Crash
  BY <1>2, FollowsItself DEF Crash
<1>3. CASE ServerStarts \/ GameSaves \/ ServerStops \/ UNCHANGED vars
  <2>1. op' = Played \/ op' = op
    BY <1>3 DEF ServerStarts, GameSaves, ServerStops, vars
  <2> QED BY <2>1, NotesFollow
<1>4. ASSUME NEW b \in Names, DeleteStarts(b) \/ RemovalEnds(b)
      PROVE  \A c \in Actors : Follows(op[c], op'[c])
  BY <1>4, NotesFollow DEF RemovalEnds
<1> QED BY <1>1, <1>2, <1>3, <1>4, SnapshotFollows, RestoreFollows, ImportFollows DEF Next

LEMMA ForeignStep == Core /\ Faith /\ [Next]_vars => Foreign'
<1> SUFFICES ASSUME Core, Faith, [Next]_vars PROVE Foreign'
  OBVIOUS
<1>0. /\ Foreign /\ op["queue"] \in QueueOp /\ op["import"] \in ImportOp
      /\ Sane(op["queue"]) /\ Sane(op["import"]) /\ next \in Nat
      /\ op["queue"].snap \in Nat /\ op["import"].snap \in Nat
  BY DEF Core, Typed, Actors, OpOf, Faith, QueueOp, ImportOp, Names
<1>1. CASE \A c \in Actors : Follows(op[c], op'[c])
  BY <1>0, <1>1 DEF Foreign, Follows, Actors
<1>2. ASSUME NEW a \in Actors, CopyStarts(a) PROVE Foreign'
  <2> DEFINE r == [op[a] EXCEPT !.pc = "copying", !.snap = next, !.staged = live]
  <2>1. op' = [op EXCEPT ![a] = r]
    BY <1>2 DEF CopyStarts
  <2>2. r.snap = next /\ r.kind = op[a].kind /\ r.target = op[a].target
    BY <1>0 DEF QueueOp, ImportOp, Actors
  <2> HIDE DEF r
  <2>3. \A c \in Actors : op'[c] = IF c = a THEN r ELSE op[c]
    BY <2>1 DEF Core, Typed
  <2>4. op["queue"].snap < next /\ op["import"].snap < next
    BY <1>0 DEF Sane
  <2>5. op["queue"].kind = "restore" => op["queue"].target < next /\ op["queue"].target \in Nat
    BY <1>0 DEF Faith, Promise, QueueOp, Names
  <2>6. CASE a = "queue"
    BY <1>0, <2>2, <2>3, <2>4, <2>5, <2>6 DEF Foreign, Actors
  <2>7. CASE a = "import"
    BY <1>0, <2>2, <2>3, <2>4, <2>5, <2>7 DEF Foreign, Actors
  <2> QED BY <2>6, <2>7 DEF Actors
<1>3. ASSUME NEW b \in Names, RestoreStarts(b) PROVE Foreign'
  <2>1. PICK p \in {"stop", "snapshot"} :
          op' = [op EXCEPT !["queue"] =
                   [Idle EXCEPT !.kind = "restore", !.target = b, !.want = backups[b].saved, !.pc = p]]
    BY <1>3 DEF RestoreStarts
  <2>2. /\ op'["queue"].snap = 0 /\ op'["queue"].target = b /\ op'["queue"].pc # "copying"
        /\ op'["import"] = op["import"]
    BY <2>1 DEF Core, Typed, Actors, Idle
  <2>3. op["import"].pc = "copying" => op["import"].snap # b
    BY <1>0, <1>3 DEF Sane, RestoreStarts
  <2> QED BY <2>2, <2>3 DEF Foreign, Actors
<1> QED BY <1>1, <1>2, <1>3, StepFollows

-----------------------------------------------------------------------------
(* The promise of a restore, step by step                                   *)

\* The record of the restore is the same, but for what it notes of the others.
Agrees(o, q) ==
  /\ q.kind = o.kind /\ q.pc = o.pc /\ q.target = o.target /\ q.snap = o.snap /\ q.back = o.back
  /\ q.want = o.want /\ q.staged = o.staged /\ q.moved = o.moved /\ q.pruned = o.pruned
  /\ o.played => q.played
  /\ Disturbed(o) => Disturbed(q)

\* Nobody touches a backup but to finish its removal.
Unhurt(b) == backups'[b] = backups[b] \/ (Gone(b) /\ backups'[b].saved = backups[b].saved)

\* What somebody else does leaves the promise alone: a backup that the restore
\* uses goes as a whole or is noted, and so is a change of the world.
LEMMA PromiseKept ==
  ASSUME Core, NEW o \in QueueOp, NEW q, Sane(o), o.kind = "restore", Promise(o), Agrees(o, q),
         next' \in Nat, next <= next', aside' = aside,
         o.pc \notin {"idle", "stop", "snapshot"} => q.played \/ q.meddled \/ Slot(live') = Slot(live),
         \A b \in {o.target, o.snap} \ {0} : Disturbed(q) \/ Unhurt(b)
  PROVE  Promise(q)'
<1>1. o.target # 0 /\ o.target \in Nat /\ next \in Nat /\ (o.back => o.snap # 0)
  BY DEF Core, Sane, QueueOp, Names
<1>2. q.pc # "idle" /\ q.target < next' /\ q.want # None
  BY <1>1 DEF Promise, Agrees
<1>3. ASSUME ~Disturbed(q)
      PROVE  /\ backups'[q.target].dir =>
                  /\ backups'[q.target].saved = q.want
                  /\ backups'[q.target].intact \/ Leaving(q, q.target)'
             /\ ~q.back /\ q.pc \in {"aside", "swap", "clean"} => q.staged = q.want
             /\ ~q.back /\ q.pc = "clean" => q.played \/ Slot(live') = q.want.slot
  <2>1. ~Disturbed(o) /\ Unhurt(o.target) /\ ~q.meddled
    BY <1>1, <1>3 DEF Agrees, Disturbed
  <2>2. /\ backups[o.target].dir => /\ backups[o.target].saved = o.want
                                    /\ (backups[o.target].intact \/ Leaving(o, o.target))
        /\ ~o.back /\ o.pc \in {"aside", "swap", "clean"} => o.staged = o.want
        /\ ~o.back /\ o.pc = "clean" => o.played \/ Slot(live) = o.want.slot
    BY <2>1 DEF Promise
  <2> QED BY <2>1, <2>2 DEF Agrees, Unhurt, Gone, Leaving
<1>4. ASSUME q.snap # 0, ~q.played, ~Disturbed(q) PROVE Tracks(q)'
  <2>1. o.snap # 0 /\ ~o.played /\ ~Disturbed(o) /\ Unhurt(o.snap) /\ ~q.meddled
    BY <1>4 DEF Agrees, Disturbed
  <2>2. Tracks(o) /\ Slot(live') = Slot(live)
    BY <1>4, <2>1 DEF Promise, Sane
  <2>3. o.pc = "copying" => Unhurt(o.snap) /\ ~Hit(o.snap) /\ backups'[o.snap] = backups[o.snap]
    BY <2>1, <2>2 DEF Tracks, Unhurt, Gone, Hit
  <2>4. backups'[o.snap].saved = backups[o.snap].saved
    BY <2>1 DEF Unhurt
  <2>5. o.pc # "copying" /\ backups'[o.snap].dir => backups'[o.snap].intact \/ Leaving(q, o.snap)'
    BY <2>1, <2>2 DEF Tracks, Unhurt, Gone, Agrees, Leaving
  <2>6. q.pc = o.pc /\ q.snap = o.snap /\ q.back = o.back /\ q.staged = o.staged /\ q.moved = o.moved
    BY DEF Agrees
  <2>7. o.pc = "copying" => ~(backups'[o.snap].doomed \/ ~backups'[o.snap].dir)
    BY <2>3 DEF Hit
  <2> QED BY <2>2, <2>4, <2>5, <2>6, <2>7 DEF Tracks, Before, LiesAside, Hit
<1> QED BY <1>2, <1>3, <1>4 DEF Promise

LEMMA Restores ==
  ASSUME Core, World, Faith, op["queue"].kind = "restore"
  PROVE  /\ op["queue"] \in QueueOp /\ Sane(op["queue"]) /\ Promise(op["queue"])
         /\ op["queue"].target \in Names /\ op["queue"].pc # "idle" /\ next \in Nat
         /\ op["queue"].snap \in Names \cup {0}
<1>1. op["queue"] \in QueueOp /\ Sane(op["queue"]) /\ next \in Nat
  BY DEF Core, Typed, Actors, OpOf
<1>2. Promise(op["queue"]) /\ op["queue"].pc # "idle"
  BY DEF Faith, Promise
<1>3. op["queue"].target # 0
  BY <1>1 DEF Sane
<1> QED BY <1>1, <1>2, <1>3 DEF QueueOp

\* The staged copy and the worlds moved aside are not the world in place.
LEMMA SameSlot ==
  ASSUME NEW s \in Saved
  PROVE  /\ s # None /\ Slot(s) = s.slot
         /\ \A w \in Content :
              [s EXCEPT !.half = w] # None /\ Slot([s EXCEPT !.half = w]) = s.slot
         /\ \A old \in SUBSET Content :
              [s EXCEPT !.old = old] # None /\ Slot([s EXCEPT !.old = old]) = s.slot
<1>1. \A w \in Content : [s EXCEPT !.half = w] \in Saved /\ [s EXCEPT !.half = w].slot = s.slot
  BY DEF Saved
<1>2. \A old \in SUBSET Content : [s EXCEPT !.old = old] \in Saved /\ [s EXCEPT !.old = old].slot = s.slot
  BY DEF Saved
<1> QED BY <1>1, <1>2, NoneIsNoDirectory DEF Slot

\* The other actor's steps.
LEMMA PromiseOfImport ==
  ASSUME Core, World, Faith, op["queue"].kind = "restore", Import
  PROVE  Promise(op["queue"])'
<1> DEFINE o == op["queue"]
<1>1. /\ o \in QueueOp /\ Sane(o) /\ Promise(o) /\ o.pc # "idle" /\ next \in Nat
  BY Restores
<1>2. UNCHANGED <<aside, backups, next>>
  BY DEF Import, ImportStarts, ImportStages, ImportCannotStage, ImportMovesAside,
         ImportCannotMoveAside, ImportSwaps, ImportPutsBack, ImportCannotPutBack, ImportCleans
<1>3. ASSUME op'["queue"] = o, Slot(live') = Slot(live) PROVE Promise(op["queue"])'
  <2>1. Agrees(o, op'["queue"])
    BY <1>3 DEF Agrees
  <2> QED BY <1>1, <1>2, <1>3, <2>1, PromiseKept DEF Unhurt
<1>4. ASSUME NEW r, Meddles(r), Follows(op["import"], r) PROVE Promise(op["queue"])'
  <2>1. op'["queue"] = [o EXCEPT !.meddled = (o.pc # "idle")]
    BY <1>4, MeddlesFollows
  <2>2. op'["queue"].meddled /\ Agrees(o, op'["queue"])
    BY <1>1, <2>1 DEF QueueOp, Agrees, Disturbed
  <2> QED BY <1>1, <1>2, <2>2, PromiseKept DEF Disturbed
<1> DEFINE i == op["import"]
<1>5. i \in ImportOp /\ live \in Saved \cup {None}
  BY DEF Core, World, Typed, Actors, OpOf
<1>6. ASSUME NEW r, op' = [op EXCEPT !["import"] = r] PROVE op'["queue"] = o
  BY <1>6 DEF Core, Typed, Actors
<1>7. i.want \in Content /\ Fresh(None) \in Saved /\ Fresh(None).slot = None
  BY <1>5, Contents DEF ImportOp, Fresh
<1>8. CASE ImportStarts
  BY <1>3, <1>6, <1>8 DEF ImportStarts
<1>9. CASE ImportStages
  <2>1. Slot(live') = Slot(live)
    <3> DEFINE s == IF live = None THEN Fresh(None) ELSE live
    <3>1. s \in Saved /\ s.slot = Slot(live)
      BY <1>5, <1>7 DEF Slot
    <3>2. live' = [s EXCEPT !.half = i.want]
      BY <1>9 DEF ImportStages
    <3> HIDE DEF s
    <3> QED BY <1>7, <3>1, <3>2, SameSlot
  <2> QED BY <1>3, <1>6, <1>9, <2>1 DEF ImportStages, Goes
<1>10. CASE ImportCannotStage
  <2>1. Slot(live') = Slot(live)
    BY <1>10 DEF ImportCannotStage, Slot, Fresh
  <2> QED BY <1>3, <1>6, <1>10, <2>1 DEF ImportCannotStage, Ends
<1>11. CASE ImportMovesAside
  <2> DEFINE r == [i EXCEPT !.pc = "swap", !.moved = Slot(live)]
  <2>1. Follows(i, r)
    BY <1>5 DEF ImportOp, Follows
  <2>2. Meddles(r)
    BY <1>11 DEF ImportMovesAside
  <2> HIDE DEF r
  <2> QED BY <1>4, <2>1, <2>2
<1>12. CASE ImportCannotMoveAside
  BY <1>3, <1>6, <1>12 DEF ImportCannotMoveAside, Ends
<1>13. CASE ImportSwaps
  <2> DEFINE r == [i EXCEPT !.pc = "clean"]
  <2>1. Follows(i, r)
    BY <1>5 DEF ImportOp, Follows
  <2>2. Meddles(r)
    BY <1>13 DEF ImportSwaps
  <2> HIDE DEF r
  <2> QED BY <1>4, <2>1, <2>2
<1>14. CASE ImportPutsBack \/ ImportCannotPutBack
  BY <1>4, <1>14, FollowsItself DEF ImportPutsBack, ImportCannotPutBack
<1>15. CASE ImportCleans
  <2>1. Slot(live') = Slot(live)
    <3>1. CASE live = None
      BY <1>15, <3>1 DEF ImportCleans
    <3>2. CASE live # None
      <4>1. live.old \ {i.moved} \in SUBSET Content
        BY <1>5, <3>2 DEF Saved
      <4>2. live' = [live EXCEPT !.old = live.old \ {i.moved}]
        BY <1>15, <3>2 DEF ImportCleans
      <4> QED BY <1>5, <3>2, <4>1, <4>2, SameSlot DEF Slot
    <3> QED BY <3>1, <3>2
  <2> QED BY <1>3, <1>6, <1>15, <2>1 DEF ImportCleans, Ends
<1> QED BY <1>8, <1>9, <1>10, <1>11, <1>12, <1>13, <1>14, <1>15 DEF Import

\* The game and the end of the game.
LEMMA PromiseOfGame ==
  ASSUME Core, World, Faith, op["queue"].kind = "restore", ServerStarts \/ GameSaves \/ ServerStops
  PROVE  Promise(op["queue"])'
<1> DEFINE o == op["queue"]
<1>1. /\ o \in QueueOp /\ Sane(o) /\ Promise(o) /\ o.pc # "idle" /\ next \in Nat
  BY Restores
<1>2. UNCHANGED <<aside, backups, next>>
  BY DEF ServerStarts, GameSaves, ServerStops
<1>3. \/ op' = op /\ Slot(live') = Slot(live)
      \/ op' = Played
  BY DEF ServerStarts, GameSaves, ServerStops, Slot
<1>4. CASE op' = op /\ Slot(live') = Slot(live)
  <2>1. Agrees(o, op'["queue"])
    BY <1>4 DEF Agrees
  <2> QED BY <1>1, <1>2, <1>4, <2>1, PromiseKept DEF Unhurt
<1>5. CASE op' = Played
  <2> DEFINE m == o.played \/ o.pc \notin {"idle", "stop", "snapshot"}
  <2>1. op'["queue"] = [o EXCEPT !.played = m]
    BY <1>5 DEF Played, Actors
  <2>2. /\ o.played => m
        /\ o.pc \notin {"idle", "stop", "snapshot"} => m
    OBVIOUS
  <2> HIDE DEF m
  <2>3. Agrees(o, op'["queue"]) /\ op'["queue"].played = m
    BY <1>1, <2>1, <2>2 DEF QueueOp, Agrees, Disturbed
  <2> QED BY <1>1, <1>2, <2>2, <2>3, PromiseKept DEF Unhurt
<1> QED BY <1>3, <1>4, <1>5

LEMMA PromiseOfDeletion ==
  ASSUME Core, World, Faith, op["queue"].kind = "restore",
         NEW d \in Names, DeleteStarts(d) \/ RemovalEnds(d)
  PROVE  Promise(op["queue"])'
<1> DEFINE o == op["queue"]
<1>1. /\ o \in QueueOp /\ Sane(o) /\ Promise(o) /\ o.pc # "idle" /\ next \in Nat
      /\ o.target \in Names /\ o.snap \in Names \cup {0}
  BY Restores
<1>2. UNCHANGED <<aside, next, live>>
  BY DEF DeleteStarts, RemovalEnds
<1>3. /\ Agrees(o, op'["queue"])
      /\ DeleteStarts(d) /\ d \in {o.target, o.snap} => op'["queue"].meddled
  <2>1. CASE RemovalEnds(d) /\ ~DeleteStarts(d)
    BY <2>1 DEF RemovalEnds, Agrees
  <2>2. CASE DeleteStarts(d)
    <3> DEFINE m == o.meddled \/ (o.pc # "idle" /\ d \in {o.target, o.snap})
    <3>1. op'["queue"] = [o EXCEPT !.meddled = m]
      BY <2>2 DEF DeleteStarts, Actors
    <3>2. /\ o.meddled => m
          /\ d \in {o.target, o.snap} => m
      BY <1>1
    <3> HIDE DEF m
    <3> QED BY <1>1, <3>1, <3>2 DEF QueueOp, Agrees, Disturbed
  <2> QED BY <2>1, <2>2
<1>4. ASSUME NEW b \in {o.target, o.snap} \ {0} PROVE Disturbed(op'["queue"]) \/ Unhurt(b)
  <2>1. b \in Names
    BY <1>1
  <2>2. Left(b) /\ (backups'[b] = backups[b] \/ Gone(b) \/ (b = d /\ DeleteStarts(d)))
    BY <2>1, DeleteLeaves
  <2> QED BY <1>3, <2>2 DEF Left, Unhurt, Disturbed
<1> QED BY <1>1, <1>2, <1>3, <1>4, PromiseKept

\* The snapshot of an import.
LEMMA PromiseOfOtherSnapshot ==
  ASSUME Core, World, Faith, op["queue"].kind = "restore", Snapshot("import")
  PROVE  Promise(op["queue"])'
<1> DEFINE o == op["queue"]
<1>1. /\ o \in QueueOp /\ Sane(o) /\ Promise(o) /\ o.pc # "idle" /\ next \in Nat
      /\ o.target \in Names /\ o.snap \in Names \cup {0} /\ o.snap < next /\ o.target < next
  BY Restores DEF Sane, Promise
<1>2. UNCHANGED <<aside, live>>
  BY DEF Snapshot, NothingToCopy, CopyStarts, CopyEnds, CopyFails, PruneStarts, PruneEnds
<1>3. /\ Agrees(o, op'["queue"])
      /\ PruneStarts("import") /\ (o.target \in Surplus \/ o.snap \in Surplus) => Disturbed(op'["queue"])
  <2>1. CASE PruneStarts("import")
    BY <2>1, PruneStartsNotes DEF Agrees, Disturbed, Actors
  <2>2. CASE ~PruneStarts("import")
    <3>1. op'["queue"] = o
      BY <2>2 DEF Core, Typed, Actors, Snapshot, NothingToCopy, CopyStarts, CopyEnds, CopyFails,
                  PruneEnds, Ends, Goes
    <3> QED BY <2>2, <3>1 DEF Agrees
  <2> QED BY <2>1, <2>2
<1>4. next' \in Nat /\ next <= next'
  BY <1>1 DEF Snapshot, NothingToCopy, CopyStarts, CopyEnds, CopyFails, PruneStarts, PruneEnds
<1>5. ASSUME NEW b \in {o.target, o.snap} \ {0} PROVE Disturbed(op'["queue"]) \/ Unhurt(b)
  <2>1. b \in Names /\ b # next
    BY <1>1 DEF Names
  <2>2. CASE CopyStarts("import")
    BY <2>1, <2>2, CopyStartsBackups DEF Unhurt, Actors
  <2>3. CASE CopyEnds("import")
    <3>1. op["import"].snap # b /\ op["import"].snap \in Names
      BY <2>3, CopyEndsBackups DEF Faith, Foreign, CopyEnds, Actors
    <3> QED BY <2>1, <2>3, <3>1, CopyEndsBackups DEF Unhurt, Actors
  <2>4. CASE PruneStarts("import") \/ PruneEnds("import")
    BY <1>3, <2>1, <2>4, PruneLeaves DEF Actors, Unhurt
  <2>5. CASE NothingToCopy("import") \/ CopyFails("import")
    BY <2>5 DEF NothingToCopy, CopyFails, Unhurt
  <2> QED BY <2>2, <2>3, <2>4, <2>5 DEF Snapshot
<1> QED BY <1>1, <1>2, <1>3, <1>4, <1>5, PromiseKept

-----------------------------------------------------------------------------
(* The restore's own steps                                                  *)

LEMMA RestoreStartsPromise ==
  ASSUME Core, World, Faith, NEW b \in Names, RestoreStarts(b)
  PROVE  Promise(op["queue"])'
<1>0. PICK q : q = op'["queue"]
  OBVIOUS
<1>1. PICK p \in {"stop", "snapshot"} :
        op' = [op EXCEPT !["queue"] =
                 [Idle EXCEPT !.kind = "restore", !.target = b, !.want = backups[b].saved, !.pc = p]]
  BY DEF RestoreStarts
<1>2. /\ q.pc \in {"stop", "snapshot"} /\ q.target = b /\ q.want = backups[b].saved
      /\ q.snap = 0 /\ ~q.back
  BY <1>0, <1>1 DEF Core, Typed, Actors, Idle
<1>3. UNCHANGED <<backups, next>> /\ backups[b].dir /\ backups[b].intact
  BY DEF RestoreStarts
<1>4. b < next /\ backups[b].saved # None
  BY <1>3 DEF Core, Sound, Faith, Whole, Names
<1>5. Promise(q)'
  BY <1>2, <1>3, <1>4 DEF Promise
<1> QED BY <1>0, <1>5

\* The restore goes on with the same backup and snapshot.
LEMMA PromiseMoves ==
  ASSUME NEW o, NEW q, Promise(o), UNCHANGED <<backups, next>>,
         o.pc # "pruning", q.target = o.target, q.want = o.want, q.snap = o.snap, q.pc # "idle",
         q.played = o.played, q.meddled = o.meddled, q.robbed = o.robbed,
         ~Disturbed(o) /\ ~q.back =>
           /\ q.pc \in {"aside", "swap", "clean"} => q.staged = o.want
           /\ q.pc = "clean" => o.played \/ Slot(live') = o.want.slot,
         o.snap # 0 /\ ~o.played /\ ~Disturbed(o) => Tracks(q)'
  PROVE  Promise(q)'
BY DEF Promise, Disturbed, Leaving

\* What a failing attempt leaves is what the next one finds.
LEMMA ReplaceFailsPromise ==
  ASSUME Core, World, Faith, op["queue"].kind = "restore", op["queue"].pc \in {"stage", "swap"},
         ReplaceFails, UNCHANGED <<backups, next>>,
         LET o == op["queue"] IN
           o.snap # 0 /\ ~o.played /\ ~Disturbed(o)
             => Slot(live') = Before(o) \/ \E s \in aside' : s.slot = Before(o)
  PROVE  op'["queue"].kind = "restore" => Promise(op["queue"])'
<1> DEFINE o == op["queue"]
<1>1. o \in QueueOp /\ Sane(o) /\ Promise(o)
  BY Restores
<1>0. PICK r : r = [o EXCEPT !.pc = "stage", !.back = TRUE, !.staged = None, !.moved = None]
  OBVIOUS
<1>2. CASE ~(~o.back /\ o.snap # 0)
  BY <1>2 DEF ReplaceFails, Ends, Core, Typed, Actors, Idle
<1>3. CASE ~o.back /\ o.snap # 0
  <2>1. op' = [op EXCEPT !["queue"] = r]
    BY <1>0, <1>3 DEF ReplaceFails
  <2>2. /\ r.target = o.target /\ r.want = o.want /\ r.snap = o.snap /\ r.pc = "stage" /\ r.back
        /\ r.played = o.played /\ r.meddled = o.meddled /\ r.robbed = o.robbed
    BY <1>0, <1>1 DEF QueueOp
  <2>3. op'["queue"] = r
    BY <2>1 DEF Core, Typed, Actors
  <2>4. o.snap # 0 /\ ~o.played /\ ~Disturbed(o) => Tracks(r)'
    <3> SUFFICES ASSUME o.snap # 0, ~o.played, ~Disturbed(o) PROVE Tracks(r)'
      OBVIOUS
    <3>1. Tracks(o) /\ o.pc # "copying"
      BY <1>1 DEF Promise
    <3>2. Slot(live') = Before(o) \/ \E s \in aside' : s.slot = Before(o)
      OBVIOUS
    <3> QED BY <2>2, <3>1, <3>2 DEF Tracks, Before, LiesAside, Leaving
  <2>5. Promise(r)'
    BY <1>1, <2>2, <2>4, PromiseMoves
  <2> QED BY <2>3, <2>5
<1> QED BY <1>2, <1>3

LEMMA RestoreStopsPromise ==
  ASSUME Core, World, Faith, op["queue"].kind = "restore", RestoreStopsServer
  PROVE  Promise(op["queue"])'
<1> DEFINE o == op["queue"]
<1>0. PICK r : r = [o EXCEPT !.pc = "snapshot"]
  OBVIOUS
<1>1. o \in QueueOp /\ Sane(o) /\ Promise(o) /\ o.pc = "stop"
  BY Restores DEF RestoreStopsServer
<1>2. op' = [op EXCEPT !["queue"] = r] /\ UNCHANGED <<backups, next>>
  BY <1>0 DEF RestoreStopsServer, Goes
<1>3. /\ r.target = o.target /\ r.want = o.want /\ r.snap = o.snap /\ r.pc = "snapshot"
      /\ r.played = o.played /\ r.meddled = o.meddled /\ r.robbed = o.robbed
  BY <1>0, <1>1 DEF QueueOp
<1>4. op'["queue"] = r
  BY <1>2 DEF Core, Typed, Actors
<1>5. o.snap = 0
  BY <1>1 DEF Sane
<1>6. Promise(r)'
  BY <1>1, <1>2, <1>3, <1>5, PromiseMoves
<1> QED BY <1>4, <1>6

LEMMA RestoreStagesPromise ==
  ASSUME Core, World, Faith, op["queue"].kind = "restore", RestoreStages
  PROVE  Promise(op["queue"])'
<1> DEFINE o == op["queue"]
           s == IF Source.intact THEN Source.saved ELSE Fresh(Torn)
<1>0. PICK r : r = [o EXCEPT !.pc = "aside", !.staged = s]
  OBVIOUS
<1>1. o \in QueueOp /\ Sane(o) /\ Promise(o) /\ o.pc = "stage" /\ Source.dir
      /\ o.target \in Names /\ o.snap \in Names \cup {0}
  BY Restores DEF RestoreStages, Restoring
<1>2. op' = [op EXCEPT !["queue"] = r] /\ UNCHANGED <<backups, next, live, aside>>
  BY <1>0 DEF RestoreStages, Stages
<1> HIDE DEF s
<1>3. /\ r.target = o.target /\ r.want = o.want /\ r.snap = o.snap /\ r.pc = "aside"
      /\ r.played = o.played /\ r.meddled = o.meddled /\ r.robbed = o.robbed /\ r.back = o.back /\ r.staged = s
      /\ r.moved = o.moved
  BY <1>0, <1>1 DEF QueueOp
<1>4. op'["queue"] = r
  BY <1>2 DEF Core, Typed, Actors
<1>5. ~Disturbed(o) /\ ~o.back => s = o.want
  BY <1>1 DEF Promise, Source, s, Leaving
<1>6. ASSUME o.snap # 0, ~o.played, ~Disturbed(o) PROVE Tracks(r)'
  <2>1. Tracks(o)
    BY <1>1, <1>6 DEF Promise
  <2>2. o.back => Slot(s) = Before(o)
    <3> SUFFICES ASSUME o.back PROVE Slot(s) = Before(o)
      OBVIOUS
    <3>1. Source = backups[o.snap] /\ o.snap \in Names
      BY <1>1, <1>6 DEF Source
    <3>2. backups[o.snap].intact
      BY <1>1, <2>1, <3>1 DEF Tracks, Leaving
    <3>3. backups[o.snap].saved # None
      BY <3>1, <3>2 DEF Faith, Whole
    <3> QED BY <3>1, <3>2, <3>3 DEF s, Slot, Before
  <2> QED BY <1>1, <1>2, <1>3, <2>1, <2>2 DEF Tracks, Before, LiesAside, Leaving
<1>7. Promise(r)'
  BY <1>1, <1>2, <1>3, <1>5, <1>6, PromiseMoves
<1> QED BY <1>4, <1>7

LEMMA RestoreMovesAsidePromise ==
  ASSUME Core, World, Faith, op["queue"].kind = "restore", RestoreMovesAside
  PROVE  Promise(op["queue"])'
<1> DEFINE o == op["queue"]
<1>0. PICK r : r = [o EXCEPT !.pc = "swap", !.moved = live]
  OBVIOUS
<1>1. o \in QueueOp /\ Sane(o) /\ Promise(o) /\ o.pc = "aside"
  BY Restores DEF RestoreMovesAside, Restoring
<1>2. /\ op' = [op EXCEPT !["queue"] = r] /\ UNCHANGED <<backups, next>> /\ live' = None
      /\ aside' = IF live = None THEN aside ELSE aside \cup {live}
  BY <1>0 DEF RestoreMovesAside
<1>3. /\ r.target = o.target /\ r.want = o.want /\ r.snap = o.snap /\ r.pc = "swap"
      /\ r.played = o.played /\ r.meddled = o.meddled /\ r.robbed = o.robbed /\ r.back = o.back /\ r.staged = o.staged
      /\ r.moved = live
  BY <1>0, <1>1 DEF QueueOp
<1>4. op'["queue"] = r
  BY <1>2 DEF Core, Typed, Actors
<1>5. ~Disturbed(o) /\ ~o.back => o.staged = o.want
  BY <1>1 DEF Promise
<1>6. ASSUME o.snap # 0, ~o.played, ~Disturbed(o) PROVE Tracks(r)'
  <2>1. Tracks(o)
    BY <1>1, <1>6 DEF Promise
  <2>2. Slot(live') = None
    BY <1>2 DEF Slot
  <2> QED BY <1>1, <1>2, <1>3, <2>1, <2>2 DEF Tracks, Before, LiesAside, Leaving
<1>7. Promise(r)'
  BY <1>1, <1>2, <1>3, <1>5, <1>6, PromiseMoves
<1> QED BY <1>4, <1>7

LEMMA RestoreSwapsPromise ==
  ASSUME Core, World, Faith, op["queue"].kind = "restore", RestoreSwaps
  PROVE  Promise(op["queue"])'
<1> DEFINE o == op["queue"]
<1>0. PICK r : r = [o EXCEPT !.pc = "clean"]
  OBVIOUS
<1>1. o \in QueueOp /\ Sane(o) /\ Promise(o) /\ o.pc = "swap"
  BY Restores DEF RestoreSwaps, Restoring
<1>2. /\ op' = [op EXCEPT !["queue"] = r] /\ UNCHANGED <<backups, next, aside>> /\ live' = o.staged
  BY <1>0 DEF RestoreSwaps, Goes
<1>3. /\ r.target = o.target /\ r.want = o.want /\ r.snap = o.snap /\ r.pc = "clean"
      /\ r.played = o.played /\ r.meddled = o.meddled /\ r.robbed = o.robbed /\ r.back = o.back /\ r.staged = o.staged
  BY <1>0, <1>1 DEF QueueOp
<1>4. op'["queue"] = r
  BY <1>2 DEF Core, Typed, Actors
<1>5. ~Disturbed(o) /\ ~o.back => o.staged = o.want /\ Slot(live') = o.want.slot
  BY <1>1, <1>2 DEF Promise, Slot
<1>6. ASSUME o.snap # 0, ~o.played, ~Disturbed(o) PROVE Tracks(r)'
  <2>1. Tracks(o)
    BY <1>1, <1>6 DEF Promise
  <2> QED BY <1>1, <1>2, <1>3, <2>1 DEF Tracks, Before, LiesAside, Leaving
<1>7. Promise(r)'
  BY <1>1, <1>2, <1>3, <1>5, <1>6, PromiseMoves
<1> QED BY <1>4, <1>7

\* An attempt that fails leaves the world that the restore found in place or
\* aside.
LEMMA FailsSafely ==
  ASSUME Core, World, Faith, op["queue"].kind = "restore",
         RestoreCannotStage \/ RestorePutsBack \/ RestoreCannotPutBack \/ RestoreCannotMoveAside,
         op["queue"].snap # 0, ~op["queue"].played, ~Disturbed(op["queue"])
  PROVE  \/ Slot(live') = Before(op["queue"])
         \/ \E s \in aside' : s.slot = Before(op["queue"])
<1> DEFINE o == op["queue"]
<1>1. o \in QueueOp /\ Promise(o) /\ live \in Saved \cup {None} /\ aside \subseteq Saved
  BY Restores DEF World
<1>2. Tracks(o)
  BY <1>1 DEF Promise
<1>3. Fresh(None) # None /\ Slot(Fresh(None)) = None
  BY Contents, NoneIsNoDirectory DEF Slot, Fresh
<1>4. CASE RestoreCannotStage
  <2>1. Slot(live') = Slot(live) /\ aside' = aside /\ o.pc = "stage"
    BY <1>3, <1>4 DEF RestoreCannotStage, Slot, Restoring
  <2> QED BY <1>2, <2>1 DEF Tracks, LiesAside
<1>5. CASE RestoreCannotMoveAside
  <2>1. live' = live /\ aside' = aside /\ o.pc = "aside"
    BY <1>5 DEF RestoreCannotMoveAside, Restoring
  <2> QED BY <1>2, <2>1 DEF Tracks, LiesAside
<1>6. CASE RestorePutsBack
  <2>1. /\ Slot(live) = None /\ o.moved # None => o.moved \in aside
        /\ Slot(o.moved) = Before(o) \/ LiesAside(Before(o))
    BY <1>2, <1>6 DEF Tracks, RestorePutsBack, Restoring
  <2>2. CASE o.moved = None
    <3>1. Slot(o.moved) = None
      BY <2>2 DEF Slot
    <3>2. live' = live /\ aside' = aside /\ Slot(live) = None
      BY <1>2, <1>6, <2>2 DEF RestorePutsBack, Restoring, Tracks
    <3> QED BY <2>1, <3>1, <3>2 DEF LiesAside
  <2>3. CASE o.moved # None
    <3>1. live' = o.moved /\ aside' = aside \ {o.moved} /\ Slot(o.moved) = o.moved.slot
      BY <1>6, <2>3 DEF RestorePutsBack, Slot
    <3> QED BY <2>1, <3>1 DEF LiesAside
  <2> QED BY <2>2, <2>3
<1>7. CASE RestoreCannotPutBack
  <2>1. /\ o.moved # None /\ o.moved \in aside /\ aside' = aside
        /\ Slot(o.moved) = Before(o) \/ LiesAside(Before(o))
    BY <1>2, <1>7 DEF Tracks, RestoreCannotPutBack, Restoring
  <2> QED BY <2>1 DEF LiesAside, Slot
<1> QED BY <1>4, <1>5, <1>6, <1>7

LEMMA PromiseOfRestore ==
  ASSUME Core, World, Faith, op["queue"].kind = "restore", Restore
  PROVE  op'["queue"].kind = "restore" => Promise(op["queue"])'
<1>1. CASE RestoreCannotStage \/ RestorePutsBack \/ RestoreCannotPutBack
  <2>1. /\ op["queue"].pc \in {"stage", "swap"} /\ ReplaceFails /\ UNCHANGED <<backups, next>>
    BY <1>1 DEF RestoreCannotStage, RestorePutsBack, RestoreCannotPutBack, Restoring
  <2> QED BY <1>1, <2>1, FailsSafely, ReplaceFailsPromise
<1>2. CASE RestoreCannotMoveAside \/ RestoreCleans
  BY <1>2 DEF RestoreCannotMoveAside, RestoreCleans, Ends, Core, Typed, Actors, Idle
<1> QED BY <1>1, <1>2, RestoreStopsPromise, RestoreStagesPromise, RestoreMovesAsidePromise,
           RestoreSwapsPromise DEF Restore

\* The snapshot that the restore takes first.
LEMMA PromiseOfSnapshot ==
  ASSUME Core, World, Faith, op["queue"].kind = "restore", Snapshot("queue")
  PROVE  op'["queue"].kind = "restore" => Promise(op["queue"])'
<1> DEFINE o == op["queue"]
<1>1. /\ o \in QueueOp /\ Sane(o) /\ Promise(o) /\ o.pc # "idle" /\ next \in Nat
      /\ o.target \in Names /\ o.snap \in Names \cup {0} /\ o.target < next
      /\ backups \in [Names -> Backup] /\ "queue" \in Actors
  BY Restores DEF Promise, Core, Actors
<1>2. CASE NothingToCopy("queue")
  <2>0. PICK r : r = [o EXCEPT !.pc = "stage"]
    OBVIOUS
  <2>1. op' = [op EXCEPT !["queue"] = r] /\ UNCHANGED <<backups, next>> /\ o.snap = 0
    BY <2>0, <1>1, <1>2 DEF NothingToCopy, Goes, Sane
  <2>5. o.pc = "snapshot"
    BY <1>2 DEF NothingToCopy
  <2>2. /\ r.target = o.target /\ r.want = o.want /\ r.snap = o.snap /\ r.pc = "stage"
        /\ r.played = o.played /\ r.meddled = o.meddled /\ r.robbed = o.robbed
    BY <2>0, <1>1 DEF QueueOp
  <2>3. op'["queue"] = r
    BY <2>1 DEF Core, Typed, Actors
  <2>4. Promise(r)'
    BY <1>1, <2>1, <2>2, <2>5, PromiseMoves
  <2> QED BY <2>3, <2>4
<1>3. CASE CopyStarts("queue")
  <2>0. PICK r : r = [o EXCEPT !.pc = "copying", !.snap = next, !.staged = live]
    OBVIOUS
  <2>1. op' = [op EXCEPT !["queue"] = r] /\ UNCHANGED live /\ next' = next + 1 /\ live # None
    BY <2>0, <1>3 DEF CopyStarts
  <2>2. /\ r.target = o.target /\ r.want = o.want /\ r.snap = next /\ r.pc = "copying"
        /\ r.played = o.played /\ r.meddled = o.meddled /\ r.robbed = o.robbed /\ r.staged = live
    BY <2>0, <1>1 DEF QueueOp
  <2>3. op'["queue"] = r
    BY <2>1 DEF Core, Typed, Actors
  <2>4. backups'[o.target] = backups[o.target]
    BY <1>1, <1>3, CopyStartsBackups DEF Names
  <2>5. Slot(live') = live.slot
    BY <2>1 DEF Slot
  <2>10. backups'[next].dir /\ ~backups'[next].doomed
    BY <1>1, <1>3, CopyStartsBackups
  <2>6. Tracks(r)'
    <3>1. r.snap = next /\ r.pc = "copying" /\ Slot(live') = r.staged.slot
      BY <2>2, <2>5
    <3>2. ~(backups'[r.snap].doomed \/ ~backups'[r.snap].dir)
      BY <2>10, <3>1
    <3> QED BY <3>1, <3>2 DEF Tracks, Hit
  <2>7. r.target < next' /\ r.pc # "idle" /\ r.want # None
    BY <1>1, <2>1, <2>2 DEF Names, Promise
  <2>8. ~Disturbed(r) => (backups'[r.target].dir => /\ backups'[r.target].saved = r.want
                                                   /\ backups'[r.target].intact)
    BY <1>1, <1>3, <2>2, <2>4 DEF Promise, Disturbed, Leaving, CopyStarts
  <2>9. Promise(r)'
    BY <2>2, <2>6, <2>7, <2>8 DEF Promise, Disturbed
  <2> QED BY <2>3, <2>9
<1>4. CASE CopyEnds("queue")
  <2>0. PICK r : r = [o EXCEPT !.pc = "prune"]
    OBVIOUS
  <2>1. op' = [op EXCEPT !["queue"] = r] /\ UNCHANGED <<live, next>> /\ o.pc = "copying" /\ live # None
    BY <2>0, <1>4 DEF CopyEnds, Goes
  <2>2. /\ r.target = o.target /\ r.want = o.want /\ r.snap = o.snap /\ r.pc = "prune"
        /\ r.played = o.played /\ r.meddled = o.meddled /\ r.robbed = o.robbed /\ r.back = o.back
    BY <2>0, <1>1 DEF QueueOp
  <2>3. op'["queue"] = r
    BY <2>1 DEF Core, Typed, Actors
  <2>4. /\ o.snap \in Names /\ (backups'[o.snap].intact <=> ~backups[o.snap].doomed)
        /\ ~Hit(o.snap) => backups'[o.snap].saved = CopyOf(o.staged, live)
        /\ \A b \in Names : b # o.snap => backups'[b] = backups[b]
    BY <1>1, <1>4, CopyEndsBackups
  <2>5. o.target # o.snap
    BY <1>1, <2>1 DEF Faith, Foreign
  <2>6. ASSUME ~o.played, ~Disturbed(o) PROVE Tracks(r)'
    <3>1. Slot(live) = o.staged.slot /\ ~Hit(o.snap)
      BY <1>1, <2>1, <2>4, <2>6 DEF Promise, Tracks, Names
    <3>2. backups'[o.snap].saved.slot = live.slot /\ Slot(live') = live.slot
      BY <2>1, <2>4, <3>1 DEF Slot, CopyOf
    <3>3. backups'[r.snap].saved.slot = Slot(live') /\ backups'[r.snap].intact
      BY <2>2, <2>4, <3>1, <3>2 DEF Hit
    <3> QED BY <2>2, <3>3 DEF Tracks, Before
  <2>7. r.target < next' /\ r.pc # "idle" /\ r.want # None
    BY <1>1, <2>1, <2>2 DEF Promise
  <2>8. ~Disturbed(r) => (backups'[r.target].dir => /\ backups'[r.target].saved = r.want
                                                   /\ backups'[r.target].intact)
    BY <1>1, <2>1, <2>2, <2>4, <2>5 DEF Promise, Disturbed, Leaving
  <2>9. Promise(r)'
    BY <2>2, <2>6, <2>7, <2>8 DEF Promise, Disturbed
  <2> QED BY <2>3, <2>9
<1>5. CASE CopyFails("queue")
  BY <1>5 DEF CopyFails, Ends, Core, Typed, Actors, Idle
<1>6. CASE PruneStarts("queue")
  <2>0. PICK r : r = op'["queue"]
    OBVIOUS
  <2>1. UNCHANGED <<live, next, aside>> /\ o.pc = "prune"
    BY <1>6 DEF PruneStarts
  <2>2. /\ r.target = o.target /\ r.want = o.want /\ r.snap = o.snap /\ r.pc = "pruning"
        /\ r.played = o.played /\ r.meddled = o.meddled /\ r.robbed = o.robbed /\ r.back = o.back
        /\ r.pruned = Surplus
    BY <1>1, <1>6, <2>0, PruneStartsNotes
  <2> DEFINE Half(b) == b \in r.pruned /\ backups'[b].doomed
  <2> HIDE DEF Surplus
  <2>3. ASSUME NEW b \in Names, backups[b].intact \/ ~backups[b].dir
        PROVE  /\ backups'[b].saved = backups[b].saved
               /\ backups'[b].dir => backups[b].dir /\ (backups'[b].intact \/ Half(b))
    BY <1>1, <1>6, <2>2, <2>3, PruneStartsHalves
  <2>4. backups'[o.target].saved = backups[o.target].saved
    BY <1>1, <1>6, PruneStartsHalves
  <2>5. ASSUME o.snap # 0, ~o.played, ~Disturbed(o) PROVE Tracks(r)'
    <3>1. Tracks(o) /\ o.snap \in Names
      BY <1>1, <2>5 DEF Promise
    <3>2. backups[o.snap].intact \/ ~backups[o.snap].dir
      BY <2>1, <3>1 DEF Tracks, Leaving
    <3>3. backups'[o.snap].saved = backups[o.snap].saved
          /\ (backups'[o.snap].dir => backups'[o.snap].intact \/ Half(o.snap))
      BY <2>3, <3>1, <3>2
    <3>4. backups'[o.snap].dir => backups'[o.snap].intact \/ Half(o.snap)
      BY <3>3
    <3> QED BY <2>1, <2>2, <3>1, <3>3, <3>4 DEF Tracks, Before, LiesAside, Leaving
  <2>6. r.target < next' /\ r.pc # "idle" /\ r.want # None
    BY <1>1, <2>1, <2>2 DEF Promise
  <2>7. ~Disturbed(r) =>
          (backups'[r.target].dir => /\ backups'[r.target].saved = r.want
                                     /\ backups'[r.target].intact \/ Half(r.target))
    <3> SUFFICES ASSUME ~Disturbed(r), backups'[r.target].dir
                 PROVE  /\ backups'[r.target].saved = r.want
                        /\ backups'[r.target].intact \/ Half(r.target)
      OBVIOUS
    <3>1. backups[o.target].dir => /\ backups[o.target].saved = o.want
                                  /\ backups[o.target].intact
      BY <1>1, <2>1, <2>2 DEF Promise, Disturbed, Leaving
    <3>2. backups[o.target].intact \/ ~backups[o.target].dir
      BY <3>1
    <3> QED BY <1>1, <2>2, <2>3, <3>1, <3>2
  <2>8. Promise(r)'
    BY <2>2, <2>5, <2>6, <2>7 DEF Promise, Disturbed, Leaving
  <2> QED BY <2>0, <2>8
<1>7. CASE PruneEnds("queue")
  <2> DEFINE stay == {b \in o.pruned : backups[b].doomed}
             m == o.robbed \/ {o.target, o.snap} \cap stay # {}
  <2>0. PICK r : r = [o EXCEPT !.pc = "stage", !.pruned = {}, !.robbed = m]
    OBVIOUS
  <2>1. /\ op' = [op EXCEPT !["queue"] = r] /\ UNCHANGED <<live, next, aside, backups>>
        /\ o.pc = "pruning"
    BY <2>0, <1>7 DEF PruneEnds
  <2>2. /\ r.target = o.target /\ r.want = o.want /\ r.snap = o.snap /\ r.pc = "stage"
        /\ r.played = o.played /\ r.meddled = o.meddled /\ r.robbed = m /\ r.back = o.back
    BY <2>0, <1>1 DEF QueueOp
  <2>3. op'["queue"] = r
    BY <2>1 DEF Core, Typed, Actors
  <2>4. ~Disturbed(r) => ~Disturbed(o) /\ ~Leaving(o, o.target) /\ ~Leaving(o, o.snap)
    BY <2>2 DEF Disturbed, Leaving
  <2> HIDE DEF m
  <2>5. ASSUME o.snap # 0, ~o.played, ~Disturbed(r) PROVE Tracks(r)'
    <3>1. Tracks(o) /\ ~Leaving(o, o.snap)
      BY <1>1, <2>4, <2>5 DEF Promise
    <3> QED BY <2>1, <2>2, <3>1 DEF Tracks, Before, LiesAside
  <2>6. r.target < next' /\ r.pc # "idle" /\ r.want # None
    BY <1>1, <2>1, <2>2 DEF Promise
  <2>7. ~Disturbed(r) => (backups'[r.target].dir => /\ backups'[r.target].saved = r.want
                                                   /\ backups'[r.target].intact)
    BY <1>1, <2>1, <2>2, <2>4 DEF Promise
  <2>8. Promise(r)'
    BY <2>2, <2>5, <2>6, <2>7 DEF Promise, Disturbed
  <2> QED BY <2>3, <2>8
<1> QED BY <1>2, <1>3, <1>4, <1>5, <1>6, <1>7 DEF Snapshot

-----------------------------------------------------------------------------
LEMMA FaithStep == Core /\ World /\ Faith /\ [Next]_vars => Faith'
<1> SUFFICES ASSUME Core, World, Faith, [Next]_vars PROVE Faith'
  OBVIOUS
<1>1. Whole' /\ Foreign'
  BY WholeStep, ForeignStep DEF Faith
<1>2. ASSUME NEW b \in Names, RestoreStarts(b) PROVE Promise(op["queue"])'
  BY <1>2, RestoreStartsPromise
<1>3. ASSUME op'["queue"].kind = "restore", ~\E b \in Names : RestoreStarts(b)
      PROVE  Promise(op["queue"])'
  <2>1. op["queue"].kind = "restore"
    <3>1. CASE \E a \in Actors : CopyStarts(a)
      BY <1>3, <3>1 DEF CopyStarts, Core, Typed, Actors, OpOf, QueueOp
    <3>2. CASE \A c \in Actors : Follows(op[c], op'[c])
      BY <1>3, <3>2 DEF Follows, Actors
    <3> QED BY <1>3, <3>1, <3>2, StepFollows
  <2>2. CASE BackupStarts
    BY <1>3, <2>2 DEF BackupStarts, Core, Typed, Actors, Idle
  <2>3. CASE Crash
    BY <1>3, <2>3 DEF Crash, Actors, Idle
  <2>4. CASE UNCHANGED vars
    BY <2>1, <2>4 DEF vars, Faith, Promise, Tracks, Before, LiesAside, Disturbed, Leaving, Hit
  <2>5. ASSUME NEW a \in Actors, Snapshot(a) PROVE Promise(op["queue"])'
    BY <1>3, <2>1, <2>5, PromiseOfSnapshot, PromiseOfOtherSnapshot DEF Actors
  <2> QED BY <1>3, <2>1, <2>2, <2>3, <2>4, <2>5, PromiseOfRestore, PromiseOfImport, PromiseOfGame,
             PromiseOfDeletion DEF Next
<1> QED BY <1>1, <1>2, <1>3 DEF Faith

\* Nobody but the restore itself, or a crash, ends it once its snapshot is taken.
LEMMA OnlyRestoreEnds ==
  ASSUME Core, World, Next, op["queue"].kind = "restore",
         op["queue"].pc \in {"stage", "aside", "swap", "clean"},
         op'["queue"].kind = "none", crashes' = crashes
  PROVE  \/ RestoreCannotStage \/ RestorePutsBack \/ RestoreCannotPutBack \/ RestoreCannotMoveAside
         \/ RestoreCleans
<1> DEFINE o == op["queue"]
<1>1. o \in QueueOp /\ op["import"] \in ImportOp /\ op = [a \in Actors |-> op[a]]
  BY DEF Core, Typed, Actors, OpOf
<1>2. ASSUME NEW r, op' = [op EXCEPT !["queue"] = r], r.kind = o.kind PROVE FALSE
  BY <1>1, <1>2 DEF Actors
<1>3. ASSUME op'["queue"] = o PROVE FALSE
  BY <1>3
<1>4. CASE Import
  <2>1. ASSUME NEW r, Meddles(r), Follows(op["import"], r) PROVE FALSE
    <3>1. op'["queue"] = [o EXCEPT !.meddled = (o.pc # "idle")]
      BY <2>1, MeddlesFollows
    <3> QED BY <1>1, <3>1 DEF QueueOp
  <2>2. CASE ImportMovesAside
    <3> DEFINE r == [op["import"] EXCEPT !.pc = "swap", !.moved = Slot(live)]
    <3>1. Meddles(r) /\ Follows(op["import"], r)
      BY <1>1, <2>2 DEF ImportMovesAside, ImportOp, Follows
    <3> HIDE DEF r
    <3> QED BY <2>1, <3>1
  <2>3. CASE ImportSwaps
    <3> DEFINE r == [op["import"] EXCEPT !.pc = "clean"]
    <3>1. Meddles(r) /\ Follows(op["import"], r)
      BY <1>1, <2>3 DEF ImportSwaps, ImportOp, Follows
    <3> HIDE DEF r
    <3> QED BY <2>1, <3>1
  <2>4. CASE ImportPutsBack \/ ImportCannotPutBack
    BY <2>1, <2>4, FollowsItself DEF ImportPutsBack, ImportCannotPutBack
  <2>5. CASE ImportStarts \/ ImportStages \/ ImportCannotStage \/ ImportCannotMoveAside \/ ImportCleans
    BY <1>1, <1>3, <2>5
       DEF ImportStarts, ImportStages, ImportCannotStage, ImportCannotMoveAside, ImportCleans,
           Goes, Ends, Actors
  <2> QED BY <1>4, <2>2, <2>3, <2>4, <2>5 DEF Import
<1>5. ASSUME NEW a \in Actors, Snapshot(a) PROVE FALSE
  <2>1. CASE a = "queue"
    BY <1>5, <2>1 DEF Snapshot, NothingToCopy, CopyStarts, CopyEnds, CopyFails, PruneStarts, PruneEnds
  <2>2. CASE a = "import" /\ ~PruneStarts(a)
    BY <1>1, <1>3, <1>5, <2>2
       DEF Snapshot, NothingToCopy, CopyStarts, CopyEnds, CopyFails, PruneEnds, Goes, Ends, Actors
  <2>3. CASE PruneStarts(a)
    <3>1. op'["queue"].kind = o.kind
      BY <2>3, PruneStartsNotes DEF Actors
    <3> QED BY <3>1
  <2> QED BY <2>1, <2>2, <2>3 DEF Actors
<1>6. CASE ServerStarts \/ GameSaves \/ ServerStops
  <2>1. op' = op \/ op' = Played
    BY <1>6 DEF ServerStarts, GameSaves, ServerStops
  <2> QED BY <1>3, <2>1, PlayedRemembers DEF Remembers, Actors
<1>7. ASSUME NEW b \in Names, DeleteStarts(b) \/ RemovalEnds(b) PROVE FALSE
  <2>1. CASE RemovalEnds(b)
    BY <1>3, <2>1 DEF RemovalEnds
  <2>2. CASE DeleteStarts(b)
    <3>1. PICK m : op'["queue"] = [o EXCEPT !.meddled = m]
      BY <2>2 DEF DeleteStarts, Actors
    <3> QED BY <1>1, <3>1 DEF QueueOp
  <2> QED BY <1>7, <2>1, <2>2
<1>8. CASE RestoreStopsServer \/ RestoreSwaps
  BY <1>1, <1>8 DEF RestoreStopsServer, RestoreSwaps, Goes, Actors, QueueOp
<1>9. CASE RestoreStages
  <2>1. PICK s : op' = [op EXCEPT !["queue"] = [o EXCEPT !.pc = "aside", !.staged = s]]
    BY <1>9 DEF RestoreStages, Stages
  <2> QED BY <1>1, <1>2, <2>1 DEF QueueOp
<1>10. CASE RestoreMovesAside
  BY <1>1, <1>10 DEF RestoreMovesAside, Actors, QueueOp
<1>11. CASE BackupStarts \/ \E b \in Names : RestoreStarts(b)
  BY <1>11 DEF BackupStarts, RestoreStarts
<1>12. CASE Crash
  BY <1>12 DEF Crash, World
<1> QED BY <1>4, <1>5, <1>6, <1>7, <1>8, <1>9, <1>10, <1>11, <1>12 DEF Next, Restore

LEMMA FaithInitially == Init => Faith
BY DEF Init, Faith, Whole, Foreign, NoBackup, Idle, Actors

LEMMA FaithAlways == Spec => []Faith
BY FaithInitially, FaithStep, Invariant, PTL DEF Spec, IInv

\* A restore that has replaced the live directory has put there the world that
\* it verified, whatever failed, crashed or was copied meanwhile, unless its
\* backup was deleted, by a user or by the retention, or an import changed the
\* world (backup_service.py: restore_backup; safe_replace.py).
THEOREM RestoresWhatItVerified == Spec => []RestoredIsVerified
<1>1. IInv /\ Faith => RestoredIsVerified
  <2> SUFFICES ASSUME IInv, Faith, Restoring("clean"), ~op["queue"].back, ~Disturbed(op["queue"])
               PROVE  /\ op["queue"].staged = op["queue"].want
                      /\ op["queue"].played \/ Slot(live) = op["queue"].want.slot
    BY DEF RestoredIsVerified, Disturbed
  <2> QED BY DEF Faith, Promise, Restoring
<1> QED BY <1>1, Invariant, FaithAlways, PTL

\* A restore ends with the world that was asked for or the one that was there,
\* in place or aside, whichever of its steps fails (restore_backup,
\* safe_replace_dir and the second attempt from the snapshot).
THEOREM RestoreIsAllOrNothing == Spec => AllOrNothing
<1>1. IInv /\ Faith /\ [Next]_vars =>
        [LET o == op["queue"]
             before == backups[o.snap].saved.slot IN
         (/\ o.kind = "restore" /\ o.snap # 0 /\ o.pc \in {"stage", "aside", "swap", "clean"}
          /\ op'["queue"].kind = "none" /\ crashes' = crashes
          /\ ~o.played /\ ~o.meddled /\ ~o.robbed)
         => \/ Slot(live') \in {o.want.slot, before}
            \/ \E s \in aside' : s.slot = before]_vars
  <2> DEFINE o == op["queue"]
  <2> SUFFICES ASSUME Core, World, Faith, Next, o.kind = "restore", o.snap # 0,
                      o.pc \in {"stage", "aside", "swap", "clean"},
                      op'["queue"].kind = "none", crashes' = crashes, ~o.played, ~Disturbed(o)
               PROVE  \/ Slot(live') \in {o.want.slot, Before(o)}
                      \/ \E s \in aside' : s.slot = Before(o)
    BY DEF IInv, Before, Disturbed
  <2>1. o \in QueueOp /\ Promise(o) /\ o.pc # "idle"
    BY Restores
  <2>2. CASE RestoreCannotStage \/ RestorePutsBack \/ RestoreCannotPutBack \/ RestoreCannotMoveAside
    BY <2>2, FailsSafely
  <2>3. CASE RestoreCleans
    <3>1. o.pc = "clean" /\ live' = live
      BY <2>3 DEF RestoreCleans, Restoring
    <3>2. o.back => Slot(live) = Before(o)
      BY <2>1, <3>1 DEF Promise, Tracks
    <3>3. ~o.back => Slot(live) = o.want.slot
      BY <2>1, <3>1 DEF Promise
    <3> QED BY <3>1, <3>2, <3>3
  <2> QED BY <2>1, <2>2, <2>3, OnlyRestoreEnds
<1> QED BY <1>1, Invariant, FaithAlways, PTL DEF Spec, AllOrNothing


-----------------------------------------------------------------------------
(* The last copy of a world.  Which worlds some backup has held             *)

Backed == UNION {In(backups[b].taken) : b \in Names}

\* A backup is written once, from Saved without what an import stages there, and
\* an import brings a world from outside.
Written ==
  /\ \A b \in Names : b >= next => backups[b].taken = None
  /\ \A b \in Names : backups[b].saved \in {None, Fresh(Torn), backups[b].taken}
  /\ \A b \in Names : backups[b].taken # None => backups[b].taken.half = None
  /\ \A a \in Actors : op[a].pc = "copying" => backups[op[a].snap].taken = None

LEMMA InBacked ==
  ASSUME NEW b \in Names, backups[b].taken # None
  PROVE  /\ backups[b].taken.slot \in Backed /\ backups[b].taken.old \subseteq Backed
BY DEF Backed, In

LEMMA OpAt ==
  ASSUME Core, NEW a \in Actors, NEW r, op' = [op EXCEPT ![a] = r]
  PROVE  \A c \in Actors : op'[c] = IF c = a THEN r ELSE op[c]
BY DEF Core, Typed

\* A backup that has been written keeps what it holds, even when it is removed.
LEMMA SavedStays ==
  ASSUME Core, World, Written, [Next]_vars, NEW b \in Names, backups[b].taken # None
  PROVE  backups'[b].taken = backups[b].taken
<1>1. ASSUME NEW a \in Actors, CopyStarts(a) PROVE backups'[b].taken = backups[b].taken
  <2>1. next \in Nat /\ b \in Nat
    BY DEF Core, Names
  <2>2. b # next
    BY <2>1 DEF Written
  <2> QED BY <1>1, <2>2, CopyStartsBackups
<1>2. ASSUME NEW a \in Actors, CopyEnds(a) PROVE backups'[b].taken = backups[b].taken
  <2>1. b # op[a].snap
    BY <1>2 DEF Written, CopyEnds
  <2> QED BY <1>2, <2>1, CopyEndsBackups
<1>3. ASSUME NEW a \in Actors, PruneStarts(a) PROVE backups'[b].taken = backups[b].taken
  BY <1>3, PruneLeaves DEF Left
<1>4. ASSUME NEW d \in Names, DeleteStarts(d) \/ RemovalEnds(d)
      PROVE  backups'[b].taken = backups[b].taken
  BY <1>4, DeleteLeaves DEF Left
<1> QED BY <1>1, <1>2, <1>3, <1>4, BackupsChange

LEMMA BackedGrows ==
  ASSUME Core, World, Written, [Next]_vars PROVE Backed \subseteq Backed'
<1> SUFFICES ASSUME NEW w \in Backed PROVE w \in Backed'
  OBVIOUS
<1>1. PICK b \in Names : w \in In(backups[b].taken)
  BY DEF Backed
<1>2. backups[b].taken # None
  BY <1>1 DEF In
<1>3. In(backups'[b].taken) = In(backups[b].taken)
  BY <1>2, SavedStays
<1> QED BY <1>1, <1>3 DEF Backed

LEMMA WrittenStep == Core /\ World /\ Written /\ [Next]_vars => Written'
<1> SUFFICES ASSUME Core, World, Written, [Next]_vars PROVE Written'
  OBVIOUS
<1>0. next \in Nat /\ Names \subseteq Nat
  BY DEF Core, Names
<1>1. ASSUME NEW a \in Actors, CopyStarts(a) PROVE Written'
  <2> DEFINE r == [op[a] EXCEPT !.pc = "copying", !.snap = next, !.staged = live]
  <2>1. op[a] \in OpOf(a)
    BY DEF Core, Typed
  <2>2. r.snap = next
    BY <2>1 DEF OpOf, QueueOp, ImportOp
  <2>3. op' = [op EXCEPT ![a] = r] /\ next' = next + 1
    BY <1>1 DEF CopyStarts
  <2> HIDE DEF r
  <2>4. backups' = [backups EXCEPT ![next] = [NoBackup EXCEPT !.dir = TRUE]] /\ next \in Names
    BY <1>1, CopyStartsBackups DEF CopyStarts
  <2>5. backups'[next].taken = None /\ \A b \in Names : b # next => backups'[b] = backups[b]
    BY <2>4 DEF Core, NoBackup
  <2>6. ASSUME NEW b \in Names, b >= next' PROVE backups'[b].taken = None
    <3>1. b # next /\ b >= next
      BY <1>0, <2>3, <2>6
    <3> QED BY <2>5, <3>1 DEF Written
  <2>7. \A b \in Names : backups'[b].taken # None => backups'[b].taken.half = None
    BY <2>5 DEF Written
  <2>8. ASSUME NEW c \in Actors, op'[c].pc = "copying" PROVE backups'[op'[c].snap].taken = None
    <3>1. CASE c = a
      <4>1. \A d \in Actors : op'[d] = IF d = a THEN r ELSE op[d]
        BY <2>3, OpAt
      <4>2. op'[c] = r
        BY <3>1, <4>1
      <4> QED BY <2>2, <2>5, <4>2
    <3>2. CASE c # a
      <4>1. op'[c] = op[c]
        BY <2>3, <3>2, OpAt
      <4>2. op[c] \in OpOf(c) /\ Sane(op[c])
        BY DEF Core, Typed
      <4>3. op[c].snap < next /\ op[c].snap # 0 /\ op[c].snap \in Names
        BY <2>8, <4>1, <4>2 DEF Sane, OpOf, QueueOp, ImportOp
      <4> QED BY <1>0, <2>5, <2>8, <4>1, <4>3 DEF Written
    <3> QED BY <3>1, <3>2
  <2>9. \A b \in Names : backups'[b].saved \in {None, Fresh(Torn), backups'[b].taken}
    <3>1. backups'[next].saved = None
      BY <2>4 DEF Core, NoBackup
    <3> QED BY <2>5, <3>1 DEF Written
  <2> QED BY <2>6, <2>7, <2>8, <2>9 DEF Written
<1>2. ASSUME ~\E a \in Actors : CopyStarts(a) PROVE Written'
  <2>1. ASSUME NEW c \in Actors, op'[c].pc = "copying"
        PROVE  op[c].pc = "copying" /\ op'[c].snap = op[c].snap
    <3>1. CASE \A d \in Actors : Follows(op[d], op'[d])
      BY <2>1, <3>1 DEF Follows
    <3>2. ASSUME NEW b \in Names, RestoreStarts(b)
          PROVE  op[c].pc = "copying" /\ op'[c].snap = op[c].snap
      <4> DEFINE r == [Idle EXCEPT !.kind = "restore", !.target = b, !.want = backups[b].saved,
                                   !.pc = IF server = "offline" THEN "snapshot" ELSE "stop"]
      <4>1. op' = [op EXCEPT !["queue"] = r]
        BY <3>2 DEF RestoreStarts
      <4>2. r.pc # "copying"
        BY DEF Idle
      <4> HIDE DEF r
      <4>3. op'[c] = op[c]
        BY <2>1, <4>1, <4>2, OpAt DEF Actors
      <4> QED BY <2>1, <4>3
    <3> QED BY <1>2, <3>1, <3>2, StepFollows
  <2>2. ASSUME NEW b \in Names,
               \/ backups[b].taken = None
               \/ backups'[b].taken # backups[b].taken
        PROVE  \/ backups'[b].taken = None
               \/ \E a \in Actors : CopyEnds(a) /\ b = op[a].snap
    <3>1. ASSUME NEW a \in Actors, CopyEnds(a), b # op[a].snap
          PROVE  backups'[b].taken = backups[b].taken
      BY <3>1, CopyEndsBackups
    <3>2. ASSUME NEW a \in Actors, PruneStarts(a) PROVE backups'[b].taken = backups[b].taken
      BY <3>2, PruneLeaves DEF Left
    <3>3. ASSUME NEW d \in Names, DeleteStarts(d) \/ RemovalEnds(d)
          PROVE  backups'[b].taken = backups[b].taken
      BY <3>3, DeleteLeaves DEF Left
    <3> QED BY <1>2, <2>2, <3>1, <3>2, <3>3, BackupsChange
  <2>3. next' = next
    BY <1>2, BackupsChange DEF CopyEnds, PruneStarts, DeleteStarts, RemovalEnds
  <2>4. ASSUME NEW b \in Names, b >= next' PROVE backups'[b].taken = None
    <3>1. ASSUME NEW a \in Actors, CopyEnds(a), b = op[a].snap PROVE FALSE
      <4>1. Sane(op[a]) /\ op[a] \in OpOf(a)
        BY DEF Core, Typed
      <4> QED BY <1>0, <2>3, <2>4, <3>1, <4>1 DEF Sane
    <3> QED BY <2>2, <2>3, <2>4, <3>1 DEF Written
  <2>5. ASSUME NEW b \in Names, backups'[b].taken # None PROVE backups'[b].taken.half = None
    <3>1. ASSUME NEW a \in Actors, CopyEnds(a), b = op[a].snap
          PROVE  backups'[b].taken.half = None
      <4>1. backups'[b].taken = CopyOf(op[a].staged, live)
        BY <3>1, CopyEndsBackups
      <4> QED BY <4>1 DEF CopyOf
    <3> QED BY <2>2, <2>5, <3>1 DEF Written
  <2>6. ASSUME NEW c \in Actors, op'[c].pc = "copying" PROVE backups'[op'[c].snap].taken = None
    <3>1. op[c].pc = "copying" /\ op'[c].snap = op[c].snap
      BY <2>1, <2>6
    <3>2. op[c] \in OpOf(c) /\ Sane(op[c])
      BY DEF Core, Typed
    <3>3. op[c].snap \in Names
      BY <3>1, <3>2 DEF Sane, OpOf, QueueOp, ImportOp
    <3>4. ASSUME NEW a \in Actors, CopyEnds(a), op[c].snap = op[a].snap PROVE FALSE
      <4>1. op[a].pc = "copying" /\ Goes(a, "prune")
        BY <3>4 DEF CopyEnds
      <4>2. a # c
        <5>1. op[a] \in OpOf(a)
          BY DEF Core, Typed
        <5> DEFINE r == [op[a] EXCEPT !.pc = "prune"]
        <5>2. r.pc = "prune"
          BY <5>1 DEF OpOf, QueueOp, ImportOp
        <5>3. op' = [op EXCEPT ![a] = r]
          BY <4>1 DEF Goes
        <5> HIDE DEF r
        <5>4. \A d \in Actors : op'[d] = IF d = a THEN r ELSE op[d]
          BY <5>3, OpAt
        <5> QED BY <2>6, <5>2, <5>4
      <4> QED BY <3>1, <3>4, <4>1, <4>2 DEF Core, Apart, Actors
    <3> QED BY <2>2, <3>1, <3>3, <3>4 DEF Written
  <2>7. ASSUME NEW b \in Names
        PROVE  backups'[b].saved \in {None, Fresh(Torn), backups'[b].taken}
    <3>1. ASSUME NEW a \in Actors, CopyEnds(a)
          PROVE  backups'[b].saved \in {None, Fresh(Torn), backups'[b].taken}
      <4>1. CASE b = op[a].snap
        BY <3>1, <4>1, CopyEndsBackups
      <4>2. CASE b # op[a].snap
        <5>1. backups'[b] = backups[b]
          BY <3>1, <4>2, CopyEndsBackups
        <5> QED BY <5>1 DEF Written
      <4> QED BY <4>1, <4>2
    <3>2. CASE Left(b)
      BY <3>2 DEF Left, Written
    <3>3. ASSUME NEW a \in Actors, PruneStarts(a) PROVE Left(b)
      BY <3>3, PruneLeaves
    <3>4. ASSUME NEW d \in Names, DeleteStarts(d) \/ RemovalEnds(d) PROVE Left(b)
      BY <3>4, DeleteLeaves
    <3>5. CASE UNCHANGED backups
      BY <3>5 DEF Written
    <3> QED BY <1>2, <3>1, <3>2, <3>3, <3>4, <3>5, BackupsChange
  <2> QED BY <2>4, <2>5, <2>6, <2>7 DEF Written
<1> QED BY <1>1, <1>2

-----------------------------------------------------------------------------
(* Beside imports, without the game: a world of which no backup was made is *)
(* still in its place, and no operation has got past its snapshot.          *)

Holds(s, w) == s # None /\ (s.slot = w \/ s.half = w \/ w \in s.old)

\* The operations have read the Saved directory at most, as it still is.
Early(s) ==
  \A a \in Actors : /\ op[a].pc \in {"idle", "stop", "snapshot", "copying"}
                    /\ op[a].pc = "copying" => /\ op[a].staged # None
                                               /\ op[a].staged.slot = s.slot
                                               /\ op[a].staged.old = s.old

InPlace(w) == live # None /\ w \in In(live) /\ Early(live)

Nowhere(w) ==
  /\ ~Holds(live, w)
  /\ \A s \in aside : ~Holds(s, w)
  /\ op["queue"].pc \in {"aside", "swap"} => ~Holds(op["queue"].staged, w)
  /\ op["queue"].pc = "swap" => ~Holds(op["queue"].moved, w)

Brings == op["import"].kind = "import" => op["import"].want \in Imports

Beside ==
  /\ server = "offline" /\ Brings
  /\ \A w \in (Worlds \ Imports) \ Backed : Nowhere(w) \/ InPlace(w)

\* An operation of which the others know nothing goes on before its snapshot.
LEMMA OneEarly ==
  ASSUME Core, live # None, Early(live), live' # None, live'.slot = live.slot, live'.old = live.old,
         NEW a \in Actors, NEW r, op' = [op EXCEPT ![a] = r],
         r.pc \in {"idle", "stop", "snapshot"}
  PROVE  Early(live)'
<1>1. \A c \in Actors : op'[c] = IF c = a THEN r ELSE op[c]
  BY OpAt
<1> QED BY <1>1 DEF Early

\* As long as no operation is past its snapshot, the Saved directory stays: until
\* a backup has been made of it.
LEMMA EarlyStep ==
  ASSUME Core, World, "server" \notin Ops, server = "offline", live # None, Early(live), [Next]_vars
  PROVE  /\ live' # None /\ live'.slot = live.slot /\ live'.old = live.old
         /\ Early(live)' \/ \E a \in Actors : CopyEnds(a)
<1> DEFINE Stays == live' # None /\ live'.slot = live.slot /\ live'.old = live.old
<1>0. /\ live \in Saved
      /\ \A a \in Actors : op[a] \in OpOf(a) /\ op[a].pc \in {"idle", "stop", "snapshot", "copying"}
  BY DEF World, Core, Typed, Early
<1>1. CASE BackupStarts
  <2> DEFINE r == [Idle EXCEPT !.kind = "backup", !.pc = "snapshot"]
  <2>1. op' = [op EXCEPT !["queue"] = r] /\ live' = live
    BY <1>1 DEF BackupStarts
  <2>2. r.pc = "snapshot"
    BY DEF Idle
  <2> HIDE DEF r
  <2> QED BY <2>1, <2>2, OneEarly DEF Actors
<1>2. ASSUME NEW b \in Names, RestoreStarts(b) PROVE Stays /\ Early(live)'
  <2> DEFINE r == [Idle EXCEPT !.kind = "restore", !.target = b, !.want = backups[b].saved,
                               !.pc = IF server = "offline" THEN "snapshot" ELSE "stop"]
  <2>1. op' = [op EXCEPT !["queue"] = r] /\ live' = live
    BY <1>2 DEF RestoreStarts
  <2>2. r.pc \in {"stop", "snapshot"}
    BY DEF Idle
  <2> HIDE DEF r
  <2> QED BY <2>1, <2>2, OneEarly DEF Actors
<1>3. CASE RestoreStopsServer
  <2> DEFINE r == [op["queue"] EXCEPT !.pc = "snapshot"]
  <2>1. op' = [op EXCEPT !["queue"] = r] /\ live' = live
    BY <1>3 DEF RestoreStopsServer, Goes
  <2>2. r.pc = "snapshot"
    BY <1>0 DEF Actors, OpOf, QueueOp
  <2> HIDE DEF r
  <2> QED BY <2>1, <2>2, OneEarly DEF Actors
<1>4. CASE ImportStarts
  <2>1. PICK w \in Imports :
          /\ op' = [op EXCEPT !["import"] =
               [Idle EXCEPT !.kind = "import", !.pc = "snapshot", !.want = w]]
          /\ live' = live
    BY <1>4 DEF ImportStarts
  <2> DEFINE r == [Idle EXCEPT !.kind = "import", !.pc = "snapshot", !.want = w]
  <2>2. r.pc = "snapshot" /\ op' = [op EXCEPT !["import"] = r]
    BY <2>1 DEF Idle
  <2> HIDE DEF r
  <2> QED BY <2>1, <2>2, OneEarly DEF Actors
<1>5. ASSUME NEW a \in Actors, CopyStarts(a) PROVE Stays /\ Early(live)'
  <2> DEFINE r == [op[a] EXCEPT !.pc = "copying", !.snap = next, !.staged = live]
  <2>1. op' = [op EXCEPT ![a] = r] /\ live' = live
    BY <1>5 DEF CopyStarts
  <2>2. r.pc = "copying" /\ r.staged = live
    BY <1>0 DEF OpOf, QueueOp, ImportOp
  <2> HIDE DEF r
  <2>3. \A c \in Actors : op'[c] = IF c = a THEN r ELSE op[c]
    BY <2>1, OpAt
  <2> QED BY <2>1, <2>2, <2>3 DEF Early
<1>6. ASSUME NEW a \in Actors, CopyFails(a) PROVE Stays /\ Early(live)'
  BY <1>6, OneEarly, IdleOp DEF CopyFails, Ends
<1>7. ASSUME NEW a \in Actors, NothingToCopy(a) \/ PruneStarts(a) \/ PruneEnds(a) PROVE FALSE
  BY <1>0, <1>7 DEF NothingToCopy, PruneStarts, PruneEnds
<1>8. ASSUME NEW b \in Names, DeleteStarts(b) \/ RemovalEnds(b) PROVE Stays /\ Early(live)'
  <2>1. \A c \in Actors : op'[c].pc = op[c].pc /\ op'[c].staged = op[c].staged
    <3>1. CASE RemovalEnds(b)
      BY <3>1 DEF RemovalEnds
    <3>2. CASE DeleteStarts(b)
      <4> SUFFICES ASSUME NEW c \in Actors
                   PROVE  op'[c].pc = op[c].pc /\ op'[c].staged = op[c].staged
        OBVIOUS
      <4>1. PICK m : op'[c] = [op[c] EXCEPT !.meddled = m]
        BY <3>2 DEF DeleteStarts
      <4> QED BY <1>0, <4>1 DEF OpOf, QueueOp, ImportOp
    <3> QED BY <1>8, <3>1, <3>2
  <2> QED BY <1>8, <2>1 DEF DeleteStarts, RemovalEnds, Early
<1>9. CASE Crash
  <2>1. \A a \in Actors : op'[a].pc = "idle"
    BY <1>9 DEF Crash, Idle
  <2>2. live' = [live EXCEPT !.half = None]
    BY <1>9 DEF Crash
  <2>3. Stays
    BY <1>0, <2>2, NoneIsNoDirectory, Parts, Contents DEF Saved
  <2> QED BY <2>1, <2>3 DEF Early
<1>10. Restore => RestoreStopsServer
  BY <1>0 DEF Restore, RestoreStages, RestoreCannotStage, RestoreMovesAside, RestoreCannotMoveAside,
              RestoreSwaps, RestorePutsBack, RestoreCannotPutBack, RestoreCleans, Restoring, Actors
<1>11. Import => ImportStarts
  BY <1>0 DEF Import, ImportStages, ImportCannotStage, ImportMovesAside, ImportCannotMoveAside,
              ImportSwaps, ImportPutsBack, ImportCannotPutBack, ImportCleans, Importing, Actors
<1>12. ~ServerStarts /\ ~GameSaves /\ ~ServerStops
  BY DEF ServerStarts, GameSaves, ServerStops
<1>13. CASE UNCHANGED vars
  BY <1>13 DEF vars, Early
<1>14. ASSUME NEW a \in Actors, CopyEnds(a) PROVE Stays
  BY <1>14 DEF CopyEnds
<1> QED BY <1>1, <1>2, <1>3, <1>4, <1>5, <1>6, <1>7, <1>8, <1>9, <1>10, <1>11, <1>12, <1>13, <1>14
        DEF Next, Snapshot

LEMMA InPlaceStep ==
  ASSUME Core, World, "server" \notin Ops, server = "offline", [Next]_vars, NEW w, InPlace(w)
  PROVE  InPlace(w)' \/ w \in Backed'
<1>1. /\ live' # None /\ live'.slot = live.slot /\ live'.old = live.old
      /\ Early(live)' \/ \E a \in Actors : CopyEnds(a)
  BY EarlyStep DEF InPlace
<1>2. w \in In(live')
  BY <1>1 DEF InPlace, In
<1>3. ASSUME NEW a \in Actors, CopyEnds(a) PROVE w \in Backed'
  <2>1. /\ op[a].snap \in Names
        /\ backups'[op[a].snap].taken = CopyOf(op[a].staged, live)
        /\ CopyOf(op[a].staged, live) # None
    BY <1>3, CopyEndsBackups, CopyIsSaved
  <2>2. op[a].staged.slot = live.slot /\ op[a].staged.old = live.old
    BY <1>3 DEF InPlace, Early, CopyEnds
  <2>3. w \in In(CopyOf(op[a].staged, live))
    <3> DEFINE c == CopyOf(op[a].staged, live)
    <3>1. c.slot = live.slot /\ c.old = live.old
      BY <2>2 DEF CopyOf
    <3>2. w = live.slot \/ w \in live.old
      BY DEF InPlace, In
    <3> HIDE DEF c
    <3> QED BY <2>1, <3>1, <3>2 DEF In, c
  <2> QED BY <2>1, <2>3 DEF Backed
<1> QED BY <1>1, <1>2, <1>3 DEF InPlace

\* What is nowhere does not come up: the steps move and copy what is there, a
\* backup, or what is imported.
LEMMA NowhereInRestore ==
  ASSUME Core, World, Written, NEW w \in Worlds, w \notin Backed, Nowhere(w), Restore
  PROVE  Nowhere(w)'
<1> DEFINE o == op["queue"]
<1>0. /\ o \in QueueOp /\ o.staged \in Saved \cup {None} /\ o.moved \in Saved \cup {None}
      /\ op = [a \in Actors |-> op[a]] /\ "queue" \in Actors
  BY DEF Core, Typed, Actors, OpOf, QueueOp
<1>1. w # None /\ w # Torn
  BY BackupsAssumption
<1>2. ~Holds(Fresh(None), w) /\ ~Holds(Fresh(Torn), w) /\ ~Holds(None, w)
  BY <1>1 DEF Holds, Fresh
<1>3. ASSUME NEW r, op' = [op EXCEPT !["queue"] = r] PROVE op'["queue"] = r
  BY <1>0, <1>3
<1>4. ASSUME Ends("queue") PROVE op'["queue"].pc = "idle"
  BY <1>3, <1>4 DEF Ends, Idle
<1>5. ASSUME ReplaceFails PROVE op'["queue"].pc \in {"idle", "stage"}
  <2> DEFINE r == [o EXCEPT !.pc = "stage", !.back = TRUE, !.staged = None, !.moved = None]
  <2>1. CASE ~(~o.back /\ o.snap # 0)
    BY <1>4, <1>5, <2>1 DEF ReplaceFails
  <2>2. CASE ~o.back /\ o.snap # 0
    <3>1. op' = [op EXCEPT !["queue"] = r] /\ r.pc = "stage"
      BY <1>0, <1>5, <2>2 DEF ReplaceFails, QueueOp
    <3> HIDE DEF r
    <3> QED BY <1>3, <3>1
  <2> QED BY <2>1, <2>2
<1>6. CASE RestoreStopsServer
  <2> DEFINE r == [o EXCEPT !.pc = "snapshot"]
  <2>1. op' = [op EXCEPT !["queue"] = r] /\ r.pc = "snapshot" /\ UNCHANGED <<live, aside>>
    BY <1>0, <1>6 DEF RestoreStopsServer, Goes, QueueOp
  <2> HIDE DEF r
  <2>2. op'["queue"].pc = "snapshot"
    BY <1>3, <2>1
  <2> QED BY <2>1, <2>2 DEF Nowhere
<1>7. CASE RestoreStages
  <2> DEFINE s == IF Source.intact THEN Source.saved ELSE Fresh(Torn)
             r == [o EXCEPT !.pc = "aside", !.staged = s]
  <2>1. op' = [op EXCEPT !["queue"] = r] /\ UNCHANGED <<live, aside>>
    BY <1>7 DEF RestoreStages, Stages
  <2>2. r.pc = "aside" /\ r.staged = s
    BY <1>0 DEF QueueOp
  <2> HIDE DEF r
  <2>3. op'["queue"] = r
    BY <1>3, <2>1
  <2>4. ~Holds(s, w)
    <3>1. PICK b \in Names : Source = backups[b]
      <4>1. o.kind = "restore" /\ Sane(o)
        BY <1>7 DEF RestoreStages, Restoring, Core, Actors
      <4>2. o.target \in Names /\ (o.back => o.snap \in Names)
        BY <1>0, <4>1 DEF Sane, QueueOp
      <4> QED BY <4>2 DEF Source
    <3>2. ASSUME backups[b].taken # None PROVE ~Holds(backups[b].taken, w)
      <4>1. /\ backups[b].taken.slot \in Backed /\ backups[b].taken.old \subseteq Backed
            /\ backups[b].taken.half = None
        BY <3>2, InBacked DEF Written
      <4> QED BY <1>1, <4>1 DEF Holds
    <3>3. backups[b].saved \in {None, Fresh(Torn), backups[b].taken}
      BY DEF Written
    <3> QED BY <1>2, <3>1, <3>2, <3>3
  <2> HIDE DEF s
  <2> QED BY <2>1, <2>2, <2>3, <2>4 DEF Nowhere
<1>8. CASE RestoreCannotStage
  <2>1. live' \in {live, Fresh(None)} /\ aside' = aside /\ op'["queue"].pc \in {"idle", "stage"}
    BY <1>5, <1>8 DEF RestoreCannotStage
  <2> QED BY <1>2, <2>1 DEF Nowhere
<1>9. CASE RestoreMovesAside
  <2> DEFINE r == [o EXCEPT !.pc = "swap", !.moved = live]
  <2>1. op' = [op EXCEPT !["queue"] = r]
    BY <1>9 DEF RestoreMovesAside
  <2>2. r.pc = "swap" /\ r.moved = live /\ r.staged = o.staged
    BY <1>0 DEF QueueOp
  <2> HIDE DEF r
  <2>3. op'["queue"] = r
    BY <1>3, <2>1
  <2>4. live' = None /\ aside' \subseteq aside \cup {live} /\ o.pc = "aside"
    BY <1>9 DEF RestoreMovesAside, Restoring
  <2> QED BY <1>2, <2>2, <2>3, <2>4 DEF Nowhere
<1>10. CASE RestoreCannotMoveAside
  BY <1>4, <1>10 DEF RestoreCannotMoveAside, Nowhere
<1>11. CASE RestoreSwaps
  <2> DEFINE r == [o EXCEPT !.pc = "clean"]
  <2>1. op' = [op EXCEPT !["queue"] = r] /\ r.pc = "clean"
    BY <1>0, <1>11 DEF RestoreSwaps, Goes, QueueOp
  <2> HIDE DEF r
  <2>2. op'["queue"].pc = "clean"
    BY <1>3, <2>1
  <2>3. live' = o.staged /\ aside' = aside /\ o.pc = "swap"
    BY <1>11 DEF RestoreSwaps, Restoring
  <2> QED BY <2>2, <2>3 DEF Nowhere
<1>12. CASE RestorePutsBack
  <2>1. live' \in {live, o.moved} /\ aside' \subseteq aside /\ o.pc = "swap"
    BY <1>12 DEF RestorePutsBack, Restoring
  <2>2. op'["queue"].pc \in {"idle", "stage"}
    BY <1>5, <1>12 DEF RestorePutsBack
  <2> QED BY <2>1, <2>2 DEF Nowhere
<1>13. CASE RestoreCannotPutBack
  <2>1. live' = None /\ aside' = aside /\ op'["queue"].pc \in {"idle", "stage"}
    BY <1>5, <1>13 DEF RestoreCannotPutBack
  <2> QED BY <1>2, <2>1 DEF Nowhere
<1>14. CASE RestoreCleans
  <2>1. live' = live /\ aside' \subseteq aside /\ op'["queue"].pc = "idle"
    BY <1>4, <1>14 DEF RestoreCleans
  <2> QED BY <2>1 DEF Nowhere
<1> QED BY <1>6, <1>7, <1>8, <1>9, <1>10, <1>11, <1>12, <1>13, <1>14 DEF Restore

LEMMA NowhereInImport ==
  ASSUME Core, World, Brings, NEW w \in Worlds \ Imports, Nowhere(w), Import
  PROVE  Nowhere(w)'
<1> DEFINE i == op["import"]
<1>0. /\ op["queue"] \in QueueOp /\ i \in ImportOp /\ op = [a \in Actors |-> op[a]]
      /\ live \in Saved \cup {None}
  BY DEF Core, Typed, Actors, OpOf, World
<1>1. w # None /\ w # Torn
  BY BackupsAssumption
<1>2. /\ op'["queue"].pc = op["queue"].pc /\ op'["queue"].staged = op["queue"].staged
      /\ op'["queue"].moved = op["queue"].moved
  <2>1. ASSUME NEW r, op' = [op EXCEPT !["import"] = r] PROVE op'["queue"] = op["queue"]
    BY <1>0, <2>1 DEF Actors
  <2>2. ASSUME NEW r, Meddles(r)
        PROVE  /\ op'["queue"].pc = op["queue"].pc /\ op'["queue"].staged = op["queue"].staged
               /\ op'["queue"].moved = op["queue"].moved
    <3> DEFINE m == (op["queue"].pc # "idle")
               q == [op["queue"] EXCEPT !.meddled = m]
    <3>1. op' = [op EXCEPT !["import"] = r, !["queue"] = q]
      BY <2>2 DEF Meddles
    <3>2. q.pc = op["queue"].pc /\ q.staged = op["queue"].staged /\ q.moved = op["queue"].moved
      BY <1>0 DEF QueueOp
    <3> HIDE DEF q
    <3>3. op'["queue"] = q
      BY <1>0, <3>1 DEF Actors
    <3> QED BY <3>2, <3>3
  <2> QED BY <2>1, <2>2
          DEF Import, ImportStarts, ImportStages, ImportCannotStage, ImportMovesAside,
              ImportCannotMoveAside, ImportSwaps, ImportPutsBack, ImportCannotPutBack, ImportCleans, Goes, Ends
<1>3. aside' = aside
  BY DEF Import, ImportStarts, ImportStages, ImportCannotStage, ImportMovesAside,
         ImportCannotMoveAside, ImportSwaps, ImportPutsBack, ImportCannotPutBack, ImportCleans
<1>4. SUFFICES ~Holds(live, w)'
  BY <1>2, <1>3 DEF Nowhere
<1>5. live # None => live.slot # w /\ live.half # w /\ w \notin live.old
  BY DEF Nowhere, Holds
<1>6. CASE ImportStarts \/ ImportCannotMoveAside
  BY <1>6 DEF ImportStarts, ImportCannotMoveAside, Nowhere, Holds
<1>7. CASE ImportStages
  <2>1. i.want # w
    BY <1>7 DEF ImportStages, Importing, Brings
  <2> DEFINE s == IF live = None THEN Fresh(None) ELSE live
  <2>2. s \in Saved /\ s.slot # w /\ w \notin s.old
    BY <1>0, <1>1, <1>5, Contents DEF Fresh
  <2>3. live' = [s EXCEPT !.half = i.want]
    BY <1>7 DEF ImportStages
  <2> HIDE DEF s
  <2>4. live'.slot = s.slot /\ live'.half = i.want /\ live'.old = s.old
    BY <2>2, <2>3 DEF Saved
  <2> QED BY <2>1, <2>2, <2>4 DEF Holds
<1>8. CASE ImportCannotStage
  BY <1>1, <1>5, <1>8 DEF ImportCannotStage, Fresh, Holds
<1>9. CASE ImportMovesAside
  <2>1. CASE Slot(live) = None
    BY <1>5, <1>9, <2>1 DEF ImportMovesAside, Holds
  <2>2. CASE Slot(live) # None
    <3>1. live \in Saved /\ live' = [live EXCEPT !.slot = None, !.old = live.old \cup {live.slot}]
      BY <1>0, <1>9, <2>2 DEF ImportMovesAside, Slot
    <3>2. live'.slot = None /\ live'.half = live.half /\ live'.old = live.old \cup {live.slot}
      BY <3>1 DEF Saved
    <3> QED BY <1>0, <1>1, <1>5, <3>1, <3>2, NoneIsNoDirectory DEF Holds
  <2> QED BY <2>1, <2>2
<1>10. CASE ImportSwaps
  <2>1. live \in Saved /\ live # None /\ live' = [live EXCEPT !.slot = live.half, !.half = None]
    BY <1>0, <1>10 DEF ImportSwaps, Swappable
  <2>2. live'.slot = live.half /\ live'.half = None /\ live'.old = live.old
    BY <2>1 DEF Saved
  <2> QED BY <1>1, <1>5, <2>1, <2>2 DEF Holds
<1>11. CASE ImportPutsBack
  <2> DEFINE was == i.moved
  <2>1. CASE live = None
    BY <1>11, <2>1 DEF ImportPutsBack, Holds
  <2>2. CASE live # None /\ was = None
    <3>1. live \in Saved /\ live' = [live EXCEPT !.half = None]
      BY <1>0, <1>11, <2>2 DEF ImportPutsBack
    <3>2. live'.slot = live.slot /\ live'.half = None /\ live'.old = live.old
      BY <3>1 DEF Saved
    <3> QED BY <1>1, <1>5, <2>2, <3>2 DEF Holds
  <2>3. CASE live # None /\ was # None /\ was \in live.old
    <3>1. live \in Saved /\ live' = [live EXCEPT !.slot = was, !.old = live.old \ {was}, !.half = None]
      BY <1>0, <1>11, <2>3 DEF ImportPutsBack
    <3>2. live'.slot = was /\ live'.half = None /\ live'.old = live.old \ {was}
      BY <3>1 DEF Saved
    <3> QED BY <1>1, <1>5, <2>3, <3>2 DEF Holds
  <2>4. CASE live # None /\ was # None /\ was \notin live.old
    <3>1. live \in Saved /\ live' = [live EXCEPT !.slot = None]
      BY <1>0, <1>11, <2>4 DEF ImportPutsBack
    <3>2. live'.slot = None /\ live'.half = live.half /\ live'.old = live.old
      BY <3>1 DEF Saved
    <3> QED BY <1>1, <1>5, <2>4, <3>2 DEF Holds
  <2> QED BY <2>1, <2>2, <2>3, <2>4
<1>12. CASE ImportCleans
  <2>1. CASE live = None
    BY <1>12, <2>1 DEF ImportCleans, Holds
  <2>2. CASE live # None
    <3>1. live \in Saved /\ live' = [live EXCEPT !.old = live.old \ {i.moved}]
      BY <1>0, <1>12, <2>2 DEF ImportCleans
    <3>2. live'.slot = live.slot /\ live'.half = live.half /\ live'.old = live.old \ {i.moved}
      BY <3>1 DEF Saved
    <3> QED BY <1>5, <2>2, <3>2 DEF Holds
  <2> QED BY <2>1, <2>2
<1>13. CASE ImportCannotPutBack
  <2>1. live \in Saved /\ live # None /\ live' = [live EXCEPT !.slot = None]
    BY <1>0, <1>13 DEF ImportCannotPutBack
  <2>2. live'.slot = None /\ live'.half = live.half /\ live'.old = live.old
    BY <2>1 DEF Saved
  <2> QED BY <1>1, <1>5, <2>1, <2>2 DEF Holds
<1> QED BY <1>6, <1>7, <1>8, <1>9, <1>10, <1>11, <1>12, <1>13 DEF Import

\* The operation of the queue and the directories, as the other steps leave them.
LEMMA NowhereInOthers ==
  ASSUME Core, World, NEW w \in Worlds, w \notin Backed, Nowhere(w), server = "offline",
         "server" \notin Ops, [Next]_vars, ~Restore, ~Import
  PROVE  Nowhere(w)'
<1> DEFINE o == op["queue"]
<1>0. /\ \A a \in Actors : op[a] \in OpOf(a)
      /\ o \in QueueOp /\ "queue" \in Actors /\ op = [a \in Actors |-> op[a]]
  BY DEF Core, Typed, Actors, OpOf
<1>1. ASSUME UNCHANGED <<live, aside>>, op'["queue"].pc \notin {"aside", "swap"} PROVE Nowhere(w)'
  BY <1>1 DEF Nowhere
<1>2. ASSUME UNCHANGED <<live, aside>>, op'["queue"].pc = o.pc, op'["queue"].staged = o.staged,
             op'["queue"].moved = o.moved
      PROVE  Nowhere(w)'
  BY <1>2 DEF Nowhere
<1>3. CASE BackupStarts
  BY <1>0, <1>1, <1>3 DEF BackupStarts, Idle
<1>4. ASSUME NEW b \in Names, RestoreStarts(b) PROVE Nowhere(w)'
  BY <1>0, <1>1, <1>4 DEF RestoreStarts, Idle
<1>5. ASSUME NEW b \in Names, DeleteStarts(b) \/ RemovalEnds(b) PROVE Nowhere(w)'
  <2>1. CASE RemovalEnds(b)
    BY <1>2, <2>1 DEF RemovalEnds
  <2>2. CASE DeleteStarts(b)
    <3>1. PICK m : op'["queue"] = [o EXCEPT !.meddled = m]
      BY <1>0, <2>2 DEF DeleteStarts
    <3>2. op'["queue"].pc = o.pc /\ op'["queue"].staged = o.staged /\ op'["queue"].moved = o.moved
      BY <1>0, <3>1 DEF QueueOp
    <3> QED BY <1>2, <2>2, <3>2 DEF DeleteStarts
  <2> QED BY <1>5, <2>1, <2>2
<1>6. ASSUME NEW a \in Actors, Snapshot(a) PROVE Nowhere(w)'
  <2>1. UNCHANGED <<live, aside>>
    BY <1>6 DEF Snapshot, NothingToCopy, CopyStarts, CopyEnds, CopyFails, PruneStarts, PruneEnds
  <2>0. CASE PruneStarts(a)
    <3>1. /\ op'["queue"].staged = o.staged /\ op'["queue"].moved = o.moved
          /\ op'["queue"].pc \in {o.pc, "pruning"}
      BY <1>0, <2>0, PruneStartsNotes
    <3> QED BY <1>1, <1>2, <2>1, <3>1
  <2>2. ASSUME ~PruneStarts(a)
        PROVE  \E r : op' = [op EXCEPT ![a] = r] /\ r.pc \in {"idle", "stage", "copying", "prune"}
    <3>5. CASE PruneEnds(a)
      <4>1. PICK m \in BOOLEAN :
              \/ op' = [op EXCEPT ![a] = Idle]
              \/ op' = [op EXCEPT ![a] = [op[a] EXCEPT !.pc = "stage", !.pruned = {}, !.robbed = m]]
        BY <3>5, PruneEndsMoves
      <4>3. CASE op' = [op EXCEPT ![a] = Idle]
        BY <4>3, IdleOp
      <4> DEFINE q == [op[a] EXCEPT !.pc = "stage", !.pruned = {}, !.robbed = m]
      <4>2. q.pc = "stage"
        BY <1>0 DEF OpOf, QueueOp, ImportOp
      <4>4. op' = [op EXCEPT ![a] = Idle] \/ op' = [op EXCEPT ![a] = q]
        BY <4>1
      <4> HIDE DEF q
      <4> QED BY <4>2, <4>3, <4>4
    <3>1. CASE NothingToCopy(a)
      <4> DEFINE q == [op[a] EXCEPT !.pc = "stage"]
      <4>1. op' = [op EXCEPT ![a] = Idle] \/ op' = [op EXCEPT ![a] = q]
        BY <3>1 DEF NothingToCopy, Ends, Goes
      <4>2. q.pc = "stage" /\ Idle.pc = "idle"
        BY <1>0 DEF OpOf, QueueOp, ImportOp, Idle
      <4> HIDE DEF q
      <4> QED BY <4>1, <4>2
    <3>2. CASE CopyStarts(a)
      <4> DEFINE q == [op[a] EXCEPT !.pc = "copying", !.snap = next, !.staged = live]
      <4>1. op' = [op EXCEPT ![a] = q]
        BY <3>2 DEF CopyStarts
      <4>2. q.pc = "copying"
        BY <1>0 DEF OpOf, QueueOp, ImportOp
      <4> HIDE DEF q
      <4> QED BY <4>1, <4>2
    <3>3. CASE CopyEnds(a)
      <4> DEFINE q == [op[a] EXCEPT !.pc = "prune"]
      <4>1. op' = [op EXCEPT ![a] = q]
        BY <3>3 DEF CopyEnds, Goes
      <4>2. q.pc = "prune"
        BY <1>0 DEF OpOf, QueueOp, ImportOp
      <4> HIDE DEF q
      <4> QED BY <4>1, <4>2
    <3>4. CASE CopyFails(a)
      BY <3>4, IdleOp DEF CopyFails, Ends
    <3> QED BY <1>6, <2>2, <3>1, <3>2, <3>3, <3>4, <3>5 DEF Snapshot
  <2>3. CASE ~PruneStarts(a)
    <3>1. PICK r : op' = [op EXCEPT ![a] = r] /\ r.pc \in {"idle", "stage", "copying", "prune"}
      BY <2>2, <2>3
    <3>2. op'["queue"] = IF a = "queue" THEN r ELSE o
      BY <1>0, <3>1
    <3> QED BY <1>1, <1>2, <2>1, <3>1, <3>2
  <2> QED BY <2>0, <2>3
<1>7. ~ServerStarts /\ ~GameSaves /\ ~ServerStops
  BY DEF ServerStarts, GameSaves, ServerStops
<1>8. CASE Crash
  <2>1. op'["queue"].pc = "idle" /\ aside' = aside
    BY <1>0, <1>8 DEF Crash, Idle
  <2>2. ~Holds(live, w)'
    <3>1. CASE live = None
      BY <1>8, <3>1 DEF Crash, Holds
    <3>2. CASE live # None
      <4>1. live \in Saved /\ live' = [live EXCEPT !.half = None]
        BY <1>8, <3>2 DEF Crash, World
      <4>2. live'.slot = live.slot /\ live'.half = None /\ live'.old = live.old
        BY <4>1 DEF Saved
      <4>3. w # None
        BY BackupsAssumption
      <4> QED BY <3>2, <4>2, <4>3 DEF Nowhere, Holds
    <3> QED BY <3>1, <3>2
  <2> QED BY <2>1, <2>2 DEF Nowhere
<1>9. CASE UNCHANGED vars
  BY <1>2, <1>9 DEF vars
<1> QED BY <1>3, <1>4, <1>5, <1>6, <1>7, <1>8, <1>9 DEF Next

\* What an import brings is chosen when it starts.
LEMMA BringsStep == Core /\ Brings /\ [Next]_vars => Brings'
<1> SUFFICES ASSUME Core, Brings, [Next]_vars PROVE Brings'
  OBVIOUS
<1> DEFINE i == op["import"]
           Keeps(r) == (r.kind = i.kind /\ r.want = i.want) \/ r.kind = "none"
<1>0. i \in ImportOp /\ op = [a \in Actors |-> op[a]] /\ "import" \in Actors /\ "queue" \in Actors
  BY DEF Core, Typed, Actors, OpOf
<1>1. ASSUME Keeps(op'["import"]) PROVE Brings'
  BY <1>1 DEF Brings
<1>2. ASSUME NEW r, op' = [op EXCEPT !["queue"] = r] PROVE Brings'
  BY <1>0, <1>2 DEF Brings
<1>3. ASSUME NEW r, op' = [op EXCEPT !["import"] = r], Keeps(r) PROVE Brings'
  BY <1>0, <1>1, <1>3
<1>4. Keeps(Idle) /\ \A p : Keeps([i EXCEPT !.pc = p])
  BY <1>0 DEF Idle, ImportOp
<1>5. CASE Restore
  BY <1>2, <1>5
     DEF Restore, RestoreStopsServer, RestoreStages, RestoreCannotStage, RestoreMovesAside,
         RestoreCannotMoveAside, RestoreSwaps, RestorePutsBack, RestoreCannotPutBack, RestoreCleans,
         Goes, Ends, Stages, ReplaceFails
<1>6. CASE Import
  <2>1. CASE ImportStarts
    <3>1. PICK w \in Imports : op' = [op EXCEPT !["import"] =
                                 [Idle EXCEPT !.kind = "import", !.pc = "snapshot", !.want = w]]
      BY <2>1 DEF ImportStarts
    <3>2. op'["import"] = [Idle EXCEPT !.kind = "import", !.pc = "snapshot", !.want = w]
      BY <1>0, <3>1
    <3> QED BY <3>1, <3>2 DEF Brings, Idle
  <2>2. CASE ImportStages \/ ImportCannotStage \/ ImportCannotMoveAside \/ ImportCleans
    BY <1>3, <1>4, <2>2
       DEF ImportStages, ImportCannotStage, ImportCannotMoveAside, ImportCleans, Goes, Ends
  <2>3. ASSUME NEW r, Meddles(r), Keeps(r) PROVE Brings'
    BY <1>0, <1>1, <2>3 DEF Meddles
  <2>4. CASE ImportMovesAside
    <3> DEFINE r == [i EXCEPT !.pc = "swap", !.moved = Slot(live)]
    <3>1. Meddles(r) /\ Keeps(r)
      BY <1>0, <2>4 DEF ImportMovesAside, ImportOp
    <3> QED BY <2>3, <3>1
  <2>5. CASE ImportSwaps \/ ImportPutsBack \/ ImportCannotPutBack
    BY <1>4, <2>3, <2>5 DEF ImportSwaps, ImportPutsBack, ImportCannotPutBack
  <2> QED BY <1>6, <2>1, <2>2, <2>4, <2>5 DEF Import
<1>7. ASSUME NEW a \in Actors, Snapshot(a) PROVE Brings'
  <2>0. CASE PruneStarts(a)
    BY <1>0, <1>1, <2>0, PruneStartsNotes
  <2>3. ASSUME PruneEnds(a) PROVE Brings'
    <3>1. PICK m \in BOOLEAN :
            \/ op' = [op EXCEPT ![a] = Idle]
            \/ op' = [op EXCEPT ![a] = [op[a] EXCEPT !.pc = "stage", !.pruned = {}, !.robbed = m]]
      BY <2>3, PruneEndsMoves
    <3>2. CASE a = "queue"
      BY <1>2, <3>1, <3>2
    <3>3. CASE a = "import"
      <4>1. Keeps([i EXCEPT !.pc = "stage", !.pruned = {}, !.robbed = m])
        BY <1>0 DEF ImportOp
      <4> QED BY <1>3, <1>4, <3>1, <3>3, <4>1
    <3> QED BY <3>2, <3>3 DEF Actors
  <2>1. CASE a = "queue" /\ ~PruneStarts(a)
    BY <1>2, <1>7, <2>1, <2>3
       DEF Snapshot, NothingToCopy, CopyStarts, CopyEnds, CopyFails, Goes, Ends
  <2>2. CASE a = "import" /\ ~PruneStarts(a)
    <3>1. CASE CopyStarts(a)
      <4> DEFINE r == [i EXCEPT !.pc = "copying", !.snap = next, !.staged = live]
      <4>1. op' = [op EXCEPT !["import"] = r] /\ Keeps(r)
        BY <1>0, <2>2, <3>1 DEF CopyStarts, ImportOp
      <4> QED BY <1>3, <4>1
    <3>2. CASE NothingToCopy(a) \/ CopyEnds(a) \/ CopyFails(a)
      BY <1>3, <1>4, <2>2, <3>2 DEF NothingToCopy, CopyEnds, CopyFails, Goes, Ends
    <3> QED BY <1>7, <2>2, <2>3, <3>1, <3>2 DEF Snapshot
  <2> QED BY <2>0, <2>1, <2>2 DEF Actors
<1>8. CASE ServerStarts \/ GameSaves \/ ServerStops \/ \E b \in Names : DeleteStarts(b) \/ RemovalEnds(b)
  <2>1. CASE op' = op
    BY <2>1 DEF Brings
  <2>2. CASE op' = Played
    <3>1. PICK m : op'["import"] = [i EXCEPT !.played = m]
      BY <1>0, <2>2 DEF Played
    <3> QED BY <1>0, <1>1, <3>1 DEF ImportOp
  <2>3. ASSUME NEW b \in Names, DeleteStarts(b) PROVE Brings'
    <3>1. PICK m : op'["import"] = [i EXCEPT !.meddled = m]
      BY <1>0, <2>3 DEF DeleteStarts
    <3> QED BY <1>0, <1>1, <3>1 DEF ImportOp
  <2> QED BY <1>8, <2>1, <2>2, <2>3 DEF ServerStarts, GameSaves, ServerStops, RemovalEnds
<1>9. CASE Crash
  BY <1>9 DEF Crash, Actors, Idle, Brings
<1>10. CASE BackupStarts \/ \E b \in Names : RestoreStarts(b)
  BY <1>2, <1>10 DEF BackupStarts, RestoreStarts
<1>11. CASE UNCHANGED vars
  BY <1>11 DEF vars, Brings
<1> QED BY <1>5, <1>6, <1>7, <1>8, <1>9, <1>10, <1>11 DEF Next

LEMMA BesideStep ==
  ASSUME Core, World, Written, "server" \notin Ops, Beside, [Next]_vars PROVE Beside'
<1>1. server' = "offline"
  <2>1. Restore => server' = "offline"
    BY DEF Beside, Restore, RestoreStopsServer, RestoreStages, RestoreCannotStage, RestoreMovesAside,
           RestoreCannotMoveAside, RestoreSwaps, RestorePutsBack, RestoreCannotPutBack, RestoreCleans
  <2>2. Import => server' = "offline"
    BY DEF Beside, Import, ImportStarts, ImportStages, ImportCannotStage, ImportMovesAside,
           ImportCannotMoveAside, ImportSwaps, ImportPutsBack, ImportCannotPutBack, ImportCleans
  <2>3. \A a \in Actors : Snapshot(a) => server' = "offline"
    BY DEF Beside, Snapshot, NothingToCopy, CopyStarts, CopyEnds, CopyFails, PruneStarts, PruneEnds
  <2> QED BY <2>1, <2>2, <2>3
          DEF Beside, Next, BackupStarts, RestoreStarts, DeleteStarts, RemovalEnds, ServerStarts,
              GameSaves, ServerStops, Crash, vars
<1>2. Brings'
  BY BringsStep DEF Beside
<1>3. ASSUME NEW w \in (Worlds \ Imports) \ Backed' PROVE Nowhere(w)' \/ InPlace(w)'
  <2>1. w \notin Backed /\ (Nowhere(w) \/ InPlace(w))
    BY BackedGrows DEF Beside
  <2>2. CASE InPlace(w)
    BY <2>2, InPlaceStep DEF Beside
  <2>3. CASE Nowhere(w)
    BY <2>1, <2>3, NowhereInRestore, NowhereInImport, NowhereInOthers DEF Beside
  <2> QED BY <2>1, <2>2, <2>3
<1> QED BY <1>1, <1>2, <1>3 DEF Beside

-----------------------------------------------------------------------------
(* Without imports: unless the game has played since, the snapshot of a     *)
(* restore holds the world that the restore replaces.                       *)

Backs(s) == In(s) \cap Worlds \subseteq Backed

Safe(o) ==
  (o.kind = "restore" /\ ~o.played) =>
    /\ o.pc = "copying" => /\ live # None /\ o.staged # None
                           /\ o.staged.slot = live.slot /\ o.staged.old = live.old
    /\ o.pc \in {"prune", "pruning", "stage", "aside", "swap"} => Backs(live)
    /\ o.pc \in {"swap", "clean"} => Backs(o.moved)

Alone == op["import"].pc = "idle" /\ Safe(op["queue"])

LEMMA ImportStaysIdle ==
  ASSUME Core, "import" \notin Ops, op["import"].pc = "idle", [Next]_vars
  PROVE  op'["import"].pc = "idle" /\ ~Import /\ ~Snapshot("import")
<1> DEFINE i == op["import"]
<1>0. i \in ImportOp /\ op = [a \in Actors |-> op[a]] /\ "import" \in Actors /\ "queue" \in Actors
  BY DEF Core, Typed, Actors, OpOf
<1>1. ~Import
  BY <1>0 DEF Import, ImportStarts, ImportStages, ImportCannotStage, ImportMovesAside,
              ImportCannotMoveAside, ImportSwaps, ImportPutsBack, ImportCannotPutBack, ImportCleans, Importing
<1>2. ~Snapshot("import")
  BY <1>0 DEF Snapshot, NothingToCopy, CopyStarts, CopyEnds, CopyFails, PruneStarts, PruneEnds
<1> SUFFICES op'["import"].pc = "idle"
  BY <1>1, <1>2
<1>3. ASSUME NEW r, op' = [op EXCEPT !["queue"] = r] PROVE op'["import"] = i
  BY <1>0, <1>3
<1>4. CASE Restore
  BY <1>3, <1>4
     DEF Restore, RestoreStopsServer, RestoreStages, RestoreCannotStage, RestoreMovesAside,
         RestoreCannotMoveAside, RestoreSwaps, RestorePutsBack, RestoreCannotPutBack, RestoreCleans,
         Goes, Ends, Stages, ReplaceFails
<1>5. CASE Snapshot("queue")
  <2>1. CASE PruneStarts("queue")
    BY <1>0, <2>1, PruneStartsNotes
  <2>2. CASE PruneEnds("queue")
    BY <1>0, <1>3, <2>2, PruneEndsMoves
  <2> QED BY <1>3, <1>5, <2>1, <2>2
          DEF Snapshot, NothingToCopy, CopyStarts, CopyEnds, CopyFails, Goes, Ends
<1>6. CASE op' = Played
  <2>1. PICK m : op'["import"] = [i EXCEPT !.played = m]
    BY <1>0, <1>6 DEF Played
  <2> QED BY <1>0, <2>1 DEF ImportOp
<1>7. ASSUME NEW b \in Names, DeleteStarts(b) PROVE op'["import"].pc = "idle"
  <2>1. PICK m : op'["import"] = [i EXCEPT !.meddled = m]
    BY <1>0, <1>7 DEF DeleteStarts
  <2> QED BY <1>0, <2>1 DEF ImportOp
<1>8. CASE Crash
  BY <1>8 DEF Crash, Actors, Idle
<1>9. CASE BackupStarts \/ \E b \in Names : RestoreStarts(b)
  BY <1>3, <1>9 DEF BackupStarts, RestoreStarts
<1>10. CASE op' = op
  BY <1>10
<1> QED BY <1>1, <1>2, <1>4, <1>5, <1>6, <1>7, <1>8, <1>9, <1>10
        DEF Next, ServerStarts, GameSaves, ServerStops, RemovalEnds, vars, Actors

\* Nothing that a restore depends on changes.
LEMMA SafeStays ==
  ASSUME Safe(op["queue"]), Backed \subseteq Backed', live' = live,
         op'["queue"].kind = op["queue"].kind, op'["queue"].pc = op["queue"].pc,
         op'["queue"].played = op["queue"].played, op'["queue"].staged = op["queue"].staged,
         op'["queue"].moved = op["queue"].moved
  PROVE  Safe(op["queue"])'
BY DEF Safe, Backs

LEMMA SafeInGame ==
  ASSUME Core, Safe(op["queue"]), Backed \subseteq Backed', ServerStarts \/ GameSaves \/ ServerStops
  PROVE  Safe(op["queue"])'
<1> DEFINE o == op["queue"]
<1>0. o \in QueueOp /\ "queue" \in Actors
  BY DEF Core, Typed, Actors, OpOf
<1>1. CASE op' = Played
  <2> DEFINE m == o.played \/ o.pc \notin {"idle", "stop", "snapshot"}
  <2>1. op'["queue"] = [o EXCEPT !.played = m]
    BY <1>0, <1>1 DEF Played
  <2>2. op'["queue"].pc = o.pc /\ (op'["queue"].played <=> m)
    <3>1. m \in BOOLEAN
      BY <1>0 DEF QueueOp
    <3> HIDE DEF m
    <3> QED BY <1>0, <2>1, <3>1 DEF QueueOp
  <2> QED BY <2>2 DEF Safe
<1>2. CASE op' = op /\ live' = live
  BY <1>2, SafeStays
<1>3. (op' = op /\ live' = live) \/ op' = Played
  BY DEF ServerStarts, GameSaves, ServerStops, Slot
<1> QED BY <1>1, <1>2, <1>3

LEMMA SafeInSnapshot ==
  ASSUME Core, World, Written, Safe(op["queue"]), Backed \subseteq Backed', Snapshot("queue")
  PROVE  Safe(op["queue"])'
<1> DEFINE o == op["queue"]
<1>0. /\ o \in QueueOp /\ op = [a \in Actors |-> op[a]] /\ "queue" \in Actors
  BY DEF Core, Typed, Actors, OpOf
<1>1. live' = live
  BY DEF Snapshot, NothingToCopy, CopyStarts, CopyEnds, CopyFails, PruneStarts, PruneEnds
<1>2. ASSUME NEW r, op' = [op EXCEPT !["queue"] = r] PROVE op'["queue"] = r
  BY <1>0, <1>2
<1>3. ASSUME Ends("queue") PROVE Safe(op["queue"])'
  <2>1. op'["queue"] = Idle
    BY <1>2, <1>3 DEF Ends
  <2> QED BY <2>1 DEF Safe, Idle
<1>4. ASSUME NEW p, Goes("queue", p)
      PROVE  /\ op'["queue"].pc = p /\ op'["queue"].kind = o.kind /\ op'["queue"].played = o.played
             /\ op'["queue"].moved = o.moved
  <2>1. op'["queue"] = [o EXCEPT !.pc = p]
    BY <1>2, <1>4 DEF Goes
  <2> QED BY <1>0, <2>1 DEF QueueOp
<1>5. CASE NothingToCopy("queue")
  <2>1. live = None /\ (Ends("queue") \/ Goes("queue", "stage"))
    BY <1>5 DEF NothingToCopy
  <2>2. CASE Goes("queue", "stage")
    <3>1. op'["queue"].pc = "stage"
      BY <1>4, <2>2
    <3> QED BY <1>1, <2>1, <3>1 DEF Safe, Backs, In
  <2> QED BY <1>3, <2>1, <2>2
<1>6. CASE CopyStarts("queue")
  <2> DEFINE r == [o EXCEPT !.pc = "copying", !.snap = next, !.staged = live]
  <2>1. op' = [op EXCEPT !["queue"] = r] /\ live # None
    BY <1>6 DEF CopyStarts
  <2>2. r.pc = "copying" /\ r.staged = live
    BY <1>0 DEF QueueOp
  <2> HIDE DEF r
  <2>3. op'["queue"] = r
    BY <1>2, <2>1
  <2> QED BY <1>1, <2>1, <2>2, <2>3 DEF Safe
<1>7. CASE CopyEnds("queue")
  <2>1. o.pc = "copying" /\ Goes("queue", "prune")
    BY <1>7 DEF CopyEnds
  <2>2. op'["queue"].pc = "prune" /\ op'["queue"].kind = o.kind /\ op'["queue"].played = o.played
    BY <1>4, <2>1
  <2>3. ASSUME o.kind = "restore", ~o.played PROVE Backs(live)'
    <3> DEFINE c == CopyOf(o.staged, live)
    <3>1. o.staged.slot = live.slot /\ o.staged.old = live.old /\ live # None
      BY <2>1, <2>3 DEF Safe
    <3>2. c.slot = live.slot /\ c.old = live.old
      BY <3>1 DEF CopyOf
    <3>3. o.snap \in Names /\ backups'[o.snap].taken = c /\ c # None
      BY <1>0, <1>7, CopyEndsBackups, CopyIsSaved
    <3> HIDE DEF c
    <3>4. In(live) = In(c)
      BY <3>1, <3>2, <3>3 DEF In
    <3>5. In(backups'[o.snap].taken) \subseteq Backed'
      BY <3>3 DEF Backed
    <3> QED BY <1>1, <3>3, <3>4, <3>5 DEF Backs
  <2> QED BY <2>2, <2>3 DEF Safe
<1>8. CASE CopyFails("queue")
  BY <1>3, <1>8 DEF CopyFails
<1>9. CASE PruneStarts("queue")
  <2>1. /\ op'["queue"].pc = "pruning" /\ op'["queue"].kind = o.kind
        /\ op'["queue"].played = o.played /\ o.pc = "prune"
    BY <1>0, <1>9, PruneStartsNotes DEF PruneStarts
  <2> QED BY <1>1, <2>1 DEF Safe, Backs
<1>10. CASE PruneEnds("queue")
  <2>1. PICK m \in BOOLEAN :
          \/ op' = [op EXCEPT !["queue"] = Idle]
          \/ op' = [op EXCEPT !["queue"] = [o EXCEPT !.pc = "stage", !.pruned = {}, !.robbed = m]]
    BY <1>0, <1>10, PruneEndsMoves
  <2> DEFINE r == [o EXCEPT !.pc = "stage", !.pruned = {}, !.robbed = m]
  <2>2. r.pc = "stage" /\ r.kind = o.kind /\ r.played = o.played /\ o.pc = "pruning"
    BY <1>0, <1>10 DEF QueueOp, PruneEnds
  <2> HIDE DEF r
  <2>3. CASE op' = [op EXCEPT !["queue"] = r]
    <3>1. op'["queue"] = r
      BY <1>2, <2>3
    <3> QED BY <1>1, <2>2, <3>1 DEF Safe, Backs
  <2> QED BY <1>3, <2>1, <2>3 DEF Ends, r
<1> QED BY <1>5, <1>6, <1>7, <1>8, <1>9, <1>10 DEF Snapshot

LEMMA SafeInRestore ==
  ASSUME Core, World, Safe(op["queue"]), Backed \subseteq Backed', Restore
  PROVE  Safe(op["queue"])'
<1> DEFINE o == op["queue"]
<1>0. /\ o \in QueueOp /\ op = [a \in Actors |-> op[a]] /\ "queue" \in Actors
  BY DEF Core, Typed, Actors, OpOf
<1>1. Backs(None)' /\ Backs(Fresh(None))'
  BY BackupsAssumption DEF Backs, In, Fresh
<1>2. ASSUME NEW r, op' = [op EXCEPT !["queue"] = r] PROVE op'["queue"] = r
  BY <1>0, <1>2
<1>3. ASSUME Ends("queue") PROVE Safe(op["queue"])'
  <2>1. op'["queue"] = Idle
    BY <1>2, <1>3 DEF Ends
  <2> QED BY <2>1 DEF Safe, Idle
<1>4. ASSUME NEW p, Goes("queue", p)
      PROVE  /\ op'["queue"].pc = p /\ op'["queue"].kind = o.kind /\ op'["queue"].played = o.played
             /\ op'["queue"].moved = o.moved
  <2>1. op'["queue"] = [o EXCEPT !.pc = p]
    BY <1>2, <1>4 DEF Goes
  <2> QED BY <1>0, <2>1 DEF QueueOp
<1>5. ASSUME ReplaceFails, ~o.played /\ o.kind = "restore" => Backs(live)' PROVE Safe(op["queue"])'
  <2> DEFINE r == [o EXCEPT !.pc = "stage", !.back = TRUE, !.staged = None, !.moved = None]
  <2>1. CASE ~(~o.back /\ o.snap # 0)
    BY <1>3, <1>5, <2>1 DEF ReplaceFails
  <2>2. CASE ~o.back /\ o.snap # 0
    <3>1. op' = [op EXCEPT !["queue"] = r] /\ r.pc = "stage" /\ r.kind = o.kind /\ r.played = o.played
      BY <1>0, <1>5, <2>2 DEF ReplaceFails, QueueOp
    <3> HIDE DEF r
    <3>2. op'["queue"] = r
      BY <1>2, <3>1
    <3> QED BY <1>5, <3>1, <3>2 DEF Safe
  <2> QED BY <2>1, <2>2
<1>6. CASE RestoreStopsServer
  BY <1>4, <1>6 DEF RestoreStopsServer, Safe
<1>7. CASE RestoreStages
  <2> DEFINE s == IF Source.intact THEN Source.saved ELSE Fresh(Torn)
             r == [o EXCEPT !.pc = "aside", !.staged = s]
  <2>1. op' = [op EXCEPT !["queue"] = r] /\ live' = live /\ o.pc = "stage"
    BY <1>7 DEF RestoreStages, Stages, Restoring
  <2>2. r.pc = "aside" /\ r.kind = o.kind /\ r.played = o.played
    BY <1>0 DEF QueueOp
  <2> HIDE DEF r
  <2>3. op'["queue"] = r
    BY <1>2, <2>1
  <2> QED BY <2>1, <2>2, <2>3 DEF Safe, Backs
<1>8. CASE RestoreCannotStage
  <2>1. live' \in {live, Fresh(None)} /\ ReplaceFails /\ o.pc = "stage" /\ o.kind = "restore"
    BY <1>8 DEF RestoreCannotStage, Restoring
  <2>2. ~o.played => Backs(live)'
    BY <1>1, <2>1 DEF Safe, Backs
  <2> QED BY <1>5, <2>1, <2>2
<1>9. CASE RestoreMovesAside
  <2> DEFINE r == [o EXCEPT !.pc = "swap", !.moved = live]
  <2>1. op' = [op EXCEPT !["queue"] = r] /\ live' = None /\ o.pc = "aside"
    BY <1>9 DEF RestoreMovesAside, Restoring
  <2>2. r.pc = "swap" /\ r.moved = live /\ r.kind = o.kind /\ r.played = o.played
    BY <1>0 DEF QueueOp
  <2> HIDE DEF r
  <2>3. op'["queue"] = r
    BY <1>2, <2>1
  <2> QED BY <1>1, <2>1, <2>2, <2>3 DEF Safe, Backs
<1>10. CASE RestoreCannotMoveAside
  BY <1>3, <1>10 DEF RestoreCannotMoveAside
<1>11. CASE RestoreSwaps
  <2>1. Goes("queue", "clean") /\ o.pc = "swap"
    BY <1>11 DEF RestoreSwaps, Restoring
  <2>2. /\ op'["queue"].pc = "clean" /\ op'["queue"].kind = o.kind /\ op'["queue"].played = o.played
        /\ op'["queue"].moved = o.moved
    BY <1>4, <2>1
  <2> QED BY <2>1, <2>2 DEF Safe, Backs
<1>12. CASE RestorePutsBack
  <2>1. live' \in {live, o.moved} /\ ReplaceFails /\ o.pc = "swap" /\ o.kind = "restore"
    BY <1>12 DEF RestorePutsBack, Restoring
  <2>2. ~o.played => Backs(live)'
    BY <2>1 DEF Safe, Backs
  <2> QED BY <1>5, <2>1, <2>2
<1>13. CASE RestoreCannotPutBack
  <2>1. live' = None /\ ReplaceFails
    BY <1>13 DEF RestoreCannotPutBack
  <2> QED BY <1>1, <1>5, <2>1
<1>14. CASE RestoreCleans
  BY <1>3, <1>14 DEF RestoreCleans
<1> QED BY <1>6, <1>7, <1>8, <1>9, <1>10, <1>11, <1>12, <1>13, <1>14 DEF Restore

LEMMA AloneStep ==
  ASSUME Core, World, Written, "import" \notin Ops, Alone, [Next]_vars PROVE Alone'
<1> DEFINE o == op["queue"]
<1>0. /\ o \in QueueOp /\ op = [a \in Actors |-> op[a]] /\ "queue" \in Actors
  BY DEF Core, Typed, Actors, OpOf
<1>1. Backed \subseteq Backed' /\ Safe(o)
  BY BackedGrows DEF Alone
<1>2. op'["import"].pc = "idle" /\ ~Import /\ ~Snapshot("import")
  BY ImportStaysIdle DEF Alone
<1> SUFFICES Safe(op["queue"])'
  BY <1>2 DEF Alone
<1>3. CASE Restore
  BY <1>1, <1>3, SafeInRestore
<1>4. CASE Snapshot("queue")
  BY <1>1, <1>4, SafeInSnapshot
<1>5. CASE ServerStarts \/ GameSaves \/ ServerStops
  BY <1>1, <1>5, SafeInGame
<1>6. ASSUME NEW b \in Names, DeleteStarts(b) \/ RemovalEnds(b) PROVE Safe(op["queue"])'
  <2>1. CASE RemovalEnds(b)
    BY <1>1, <2>1, SafeStays DEF RemovalEnds
  <2>2. CASE DeleteStarts(b)
    <3>1. PICK m : op'["queue"] = [o EXCEPT !.meddled = m]
      BY <1>0, <2>2 DEF DeleteStarts
    <3>2. /\ op'["queue"].pc = o.pc /\ op'["queue"].staged = o.staged /\ op'["queue"].moved = o.moved
          /\ op'["queue"].kind = o.kind /\ op'["queue"].played = o.played
      BY <1>0, <3>1 DEF QueueOp
    <3> QED BY <1>1, <2>2, <3>2, SafeStays DEF DeleteStarts
  <2> QED BY <1>6, <2>1, <2>2
<1>7. CASE BackupStarts
  BY <1>0, <1>7 DEF BackupStarts, Safe, Idle
<1>8. ASSUME NEW b \in Names, RestoreStarts(b) PROVE Safe(op["queue"])'
  <2> DEFINE r == [Idle EXCEPT !.kind = "restore", !.target = b, !.want = backups[b].saved,
                               !.pc = IF server = "offline" THEN "snapshot" ELSE "stop"]
  <2>1. op'["queue"] = r
    BY <1>0, <1>8 DEF RestoreStarts
  <2>2. r.pc \in {"stop", "snapshot"}
    BY DEF Idle
  <2> HIDE DEF r
  <2> QED BY <2>1, <2>2 DEF Safe
<1>9. CASE Crash
  BY <1>9 DEF Crash, Actors, Idle, Safe
<1>10. CASE UNCHANGED vars
  BY <1>1, <1>10, SafeStays DEF vars
<1> QED BY <1>2, <1>3, <1>4, <1>5, <1>6, <1>7, <1>8, <1>9, <1>10 DEF Next, Actors

-----------------------------------------------------------------------------
LEMMA WrittenInitially == Init => Written
BY DEF Init, Written, NoBackup, Idle, Actors

LEMMA WrittenAlways == Spec => []Written
BY WrittenInitially, WrittenStep, Invariant, PTL DEF Spec, IInv

LEMMA BesideInitially == Init => Beside
<1> SUFFICES ASSUME Init PROVE Beside
  OBVIOUS
<1>1. \A a \in Actors : op[a] = Idle
  BY DEF Init, Actors
<1>2. server = "offline" /\ aside = {} /\ Brings
  BY <1>1 DEF Init, Brings, Actors, Idle
<1>3. Early(live)
  BY <1>1 DEF Early, Idle
<1>4. ASSUME NEW w \in Worlds PROVE Nowhere(w) \/ InPlace(w)
  <2>1. w # None
    BY BackupsAssumption
  <2>2. CASE live = None
    BY <1>1, <1>2, <2>2 DEF Nowhere, Holds, Actors, Idle
  <2>3. ASSUME NEW v \in Worlds, live = Fresh(v) PROVE Nowhere(w) \/ InPlace(w)
    <3>1. live.slot = v /\ live.half = None /\ live.old = {}
      BY <2>3 DEF Fresh
    <3>2. live # None
      BY <2>3, Contents, NoneIsNoDirectory DEF Content
    <3>3. CASE v = w
      BY <1>3, <3>1, <3>2, <3>3 DEF InPlace, In
    <3>4. CASE v # w
      BY <1>1, <1>2, <2>1, <3>1, <3>4 DEF Nowhere, Holds, Actors, Idle
    <3> QED BY <3>3, <3>4
  <2> QED BY <2>2, <2>3 DEF Init
<1> QED BY <1>2, <1>4 DEF Beside

LEMMA BesideAlways == ASSUME "server" \notin Ops PROVE Spec => []Beside
<1>1. Core /\ World /\ Written /\ Beside /\ [Next]_vars => Beside'
  BY BesideStep
<1> QED BY <1>1, BesideInitially, WrittenAlways, Invariant, PTL DEF Spec, IInv

LEMMA AloneAlways == ASSUME "import" \notin Ops PROVE Spec => []Alone
<1>1. Init => Alone
  BY DEF Init, Alone, Safe, Idle, Actors
<1>2. Core /\ World /\ Written /\ Alone /\ [Next]_vars => Alone'
  BY AloneStep
<1> QED BY <1>1, <1>2, WrittenAlways, Invariant, PTL DEF Spec, IInv

\* Where a world on the disk is that no backup has held.
LEMMA Unbacked ==
  ASSUME Written, NEW w \in Worlds, w \in OnDisk, w \notin Backed
  PROVE  w \in In(live) \/ \E s \in aside : w \in In(s)
<1> DEFINE S == {In(s) : s \in aside}
           T == {In(backups[b].saved) : b \in {c \in Names : backups[c].intact}}
           Aside == UNION S
           Intact == UNION T
<1>1. OnDisk = (In(live) \cup Aside) \cup Intact
  BY DEF OnDisk
<1>2. ASSUME w \in Aside PROVE \E s \in aside : w \in In(s)
  <2>1. PICK X \in S : w \in X
    BY <1>2
  <2> QED BY <2>1
<1>3. w \notin Intact
  <2> SUFFICES ASSUME NEW b \in Names, w \in In(backups[b].saved) PROVE FALSE
    OBVIOUS
  <2>1. w # None /\ w # Torn
    BY BackupsAssumption
  <2>2. w \notin In(None) /\ w \notin In(Fresh(Torn))
    BY <2>1 DEF In, Fresh
  <2>3. w \notin In(backups[b].taken)
    BY DEF Backed
  <2> QED BY <2>2, <2>3 DEF Written
<1> HIDE DEF Aside, Intact
<1> QED BY <1>1, <1>2, <1>3

LEMMA BesideKeeps ==
  ASSUME Core, World, Written, "server" \notin Ops, Beside, [Next]_vars,
         NEW w \in Worlds \ Imports, w \in OnDisk, w \notin OnDisk'
  PROVE  w \in Backed
<1> SUFFICES ASSUME w \notin Backed PROVE FALSE
  OBVIOUS
<1>1. ~Nowhere(w)
  BY Unbacked DEF Nowhere, Holds, In
<1>2. InPlace(w) /\ server = "offline"
  BY <1>1 DEF Beside
<1>3. live' # None /\ live'.slot = live.slot /\ live'.old = live.old
  BY <1>2, EarlyStep DEF InPlace
<1>4. w \in In(live')
  BY <1>2, <1>3 DEF InPlace, In
<1> QED BY <1>4 DEF OnDisk

LEMMA AloneKeeps ==
  ASSUME Core, World, Written, "import" \notin Ops, Alone, [Next]_vars, server = "offline",
         NEW w \in Worlds, w \in OnDisk, w \notin OnDisk', ~op["queue"].played
  PROVE  w \in Backed
<1> SUFFICES ASSUME w \notin Backed PROVE FALSE
  OBVIOUS
<1> DEFINE o == op["queue"]
<1>0. w # None
  BY BackupsAssumption
<1>1. w \in In(live) \/ \E s \in aside : w \in In(s)
  BY Unbacked
<1>2. w \notin In(live') /\ \A s \in aside' : w \notin In(s)
  BY DEF OnDisk
<1>3. ASSUME In(live) \subseteq In(live'), aside \subseteq aside' PROVE FALSE
  BY <1>1, <1>2, <1>3
<1>4. ~Import /\ ~Snapshot("import")
  BY ImportStaysIdle DEF Alone
<1>5. CASE Restore
  <2>0. ASSUME o.pc = "swap", o.kind = "restore" PROVE w \notin In(live)
    BY <2>0 DEF Alone, Safe, Backs
  <2>1. ASSUME o.pc \in {"swap", "clean"}, o.kind = "restore" PROVE w \notin In(o.moved)
    BY <2>1 DEF Alone, Safe, Backs
  <2>2. CASE RestoreStopsServer \/ RestoreStages \/ RestoreCannotMoveAside
    BY <1>3, <2>2 DEF RestoreStopsServer, RestoreStages, RestoreCannotMoveAside
  <2>3. CASE RestoreCannotStage
    <3>1. live' = live \/ live = None
      BY <2>3 DEF RestoreCannotStage
    <3> QED BY <1>3, <2>3, <3>1 DEF RestoreCannotStage, In
  <2>4. CASE RestoreMovesAside
    <3>1. aside \subseteq aside' /\ (live # None => live \in aside')
      BY <2>4 DEF RestoreMovesAside
    <3> QED BY <1>1, <1>2, <3>1 DEF In
  <2>5. CASE RestoreSwaps
    <3>1. live = None /\ aside' = aside
      BY <2>5 DEF RestoreSwaps
    <3> QED BY <1>3, <3>1 DEF In
  <2>6. CASE RestorePutsBack
    <3>1. w \notin In(live) /\ w \notin In(o.moved)
      BY <2>0, <2>1, <2>6 DEF RestorePutsBack, Restoring
    <3>2. aside \subseteq aside' \cup {o.moved}
      BY <2>6 DEF RestorePutsBack
    <3> QED BY <1>1, <1>2, <3>1, <3>2
  <2>7. CASE RestoreCannotPutBack
    <3>1. w \notin In(live) /\ aside' = aside
      BY <2>0, <2>7 DEF RestoreCannotPutBack, Restoring
    <3> QED BY <1>1, <1>2, <3>1
  <2>8. CASE RestoreCleans
    <3>1. w \notin In(o.moved) /\ live' = live /\ aside \subseteq aside' \cup {o.moved}
      BY <2>1, <2>8 DEF RestoreCleans, Restoring
    <3> QED BY <1>1, <1>2, <3>1
  <2> QED BY <1>5, <2>2, <2>3, <2>4, <2>5, <2>6, <2>7, <2>8 DEF Restore
<1>6. CASE Snapshot("queue")
  BY <1>3, <1>6 DEF Snapshot, NothingToCopy, CopyStarts, CopyEnds, CopyFails, PruneStarts, PruneEnds
<1>7. CASE BackupStarts \/ ServerStops \/ UNCHANGED vars
          \/ \E b \in Names : RestoreStarts(b) \/ DeleteStarts(b) \/ RemovalEnds(b)
  BY <1>3, <1>7 DEF BackupStarts, ServerStops, RestoreStarts, DeleteStarts, RemovalEnds, vars
<1>8. ~GameSaves
  BY DEF GameSaves
<1>9. CASE ServerStarts
  <2>1. PICK v \in Worlds :
          live' = IF live = None THEN Fresh(v)
                  ELSE IF live.slot = None THEN [live EXCEPT !.slot = v] ELSE live
    BY <1>9 DEF ServerStarts
  <2>2. aside' = aside /\ live \in Saved \cup {None}
    BY <1>9 DEF ServerStarts, World
  <2>3. CASE live = None \/ (live # None /\ live.slot # None)
    BY <1>3, <2>1, <2>2, <2>3 DEF In
  <2>4. CASE live # None /\ live.slot = None
    <3>1. live'.old = live.old /\ live' \in Saved
      <4>1. live \in Saved /\ live' = [live EXCEPT !.slot = v] /\ v \in Content
        BY <2>1, <2>2, <2>4 DEF Content
      <4> QED BY <4>1 DEF Saved
    <3>2. live' # None
      BY <3>1, NoneIsNoDirectory
    <3> QED BY <1>0, <1>1, <1>2, <2>2, <2>4, <3>1, <3>2 DEF In
  <2> QED BY <2>3, <2>4
<1>10. CASE Crash
  <2>1. aside' = aside /\ live \in Saved \cup {None}
    BY <1>10 DEF Crash, World
  <2>2. CASE live = None
    BY <1>3, <1>10, <2>1, <2>2 DEF Crash
  <2>3. CASE live # None
    <3>1. live' = [live EXCEPT !.half = None]
      BY <1>10, <2>3 DEF Crash
    <3>2. live'.slot = live.slot /\ live'.old = live.old /\ live' \in Saved
      BY <2>1, <2>3, <3>1, Parts, Contents DEF Saved
    <3>3. live' # None
      BY <3>2, NoneIsNoDirectory
    <3> QED BY <1>3, <2>1, <3>2, <3>3 DEF In
  <2> QED BY <2>2, <2>3
<1> QED BY <1>4, <1>5, <1>6, <1>7, <1>8, <1>9, <1>10 DEF Next, Actors

\* Backups, restores and deletions never remove the last copy of a world of which
\* there was no backup, whatever fails and whenever EGM ends: neither beside
\* imports, which need a server that is offline, nor beside the game, unless it has
\* played since the snapshot (backup_service.py, safe_replace.py,
\* save_import_service.py).
THEOREM LastCopySurvives ==
  ASSUME ~({"import", "server"} \subseteq Ops) PROVE Spec => LastCopyKept
<1> DEFINE Kept1 ==
      \A w \in Worlds \ Imports : (w \in OnDisk /\ w \notin OnDisk') =>
         \/ \E b \in Names : w \in In(backups[b].taken)
         \/ server # "offline"
         \/ \E a \in Actors : op[a].played
<1>1. CASE "server" \notin Ops
  <2>1. IInv /\ Written /\ Beside /\ [Next]_vars => Kept1
    BY <1>1, BesideKeeps DEF IInv, Backed
  <2>2. Spec => []Beside
    BY <1>1, BesideAlways
  <2> QED BY <2>1, <2>2, WrittenAlways, Invariant, PTL DEF Spec, LastCopyKept
<1>2. CASE "import" \notin Ops
  <2>1. IInv /\ Written /\ Alone /\ [Next]_vars => Kept1
    BY <1>2, AloneKeeps DEF IInv, Backed, Actors
  <2>2. Spec => []Alone
    BY <1>2, AloneAlways
  <2> QED BY <2>1, <2>2, WrittenAlways, Invariant, PTL DEF Spec, LastCopyKept
<1> QED BY <1>1, <1>2
=============================================================================
