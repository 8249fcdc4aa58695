------------------------------- MODULE Backups -------------------------------
(***************************************************************************)
(* Backups, restores and save imports of one server instance:              *)
(* src/app/services/backup_service.py, safe_replace.py and                 *)
(* save_import_service.py, the delete route of routes/backup_center.py.    *)
(*                                                                         *)
(* Backup and restore are queue tasks, one at a time per instance (module  *)
(* TaskQueue): the actor "queue".  A save import is carried out by its     *)
(* HTTP request, beside the queue: the actor "import".  The game server    *)
(* and the delete route act in between; the blocking file work runs in     *)
(* threads, so every step that another actor can observe is an action.     *)
(*                                                                         *)
(* A world stands for the content of SaveGames/0.  The Saved directory     *)
(* holds it in `slot`, with the siblings that an import makes there: its   *)
(* staged copy `half` and the worlds it moved aside, `old`.  Copies of     *)
(* Saved are described without `half`, which nobody reads again.           *)
(***************************************************************************)
EXTENDS Integers, FiniteSets

CONSTANTS
  Worlds,       \* contents of a world
  Imports,      \* worlds in folders that can be imported
  Torn,         \* a mixture: a half-written or half-deleted copy
  None,         \* no such directory
  MaxCount,     \* backupRetention.maxCount, 0 for unlimited
  MaxBackups,   \* bound: names, in the order of their timestamps
  Ops,          \* what happens beside the queue in a run
  MaxOps,       \* bound: operations, also deletions, that begin
  MaxFaults,    \* bound: failing copies and renames
  MaxCrashes    \* bound: ends of the EGM process

ASSUME BackupsAssumption ==
  /\ {Torn, None} \cap (Worlds \cup Imports) = {} /\ Torn # None
  /\ MaxCount \in Nat /\ MaxBackups \in Nat
  /\ Ops \subseteq {"import", "delete", "server"}
  /\ MaxOps \in Nat /\ MaxFaults \in Nat /\ MaxCrashes \in Nat

VARIABLES
  live,      \* the Saved directory
  aside,     \* Saved.rollback-*, next to it
  backups,   \* instance_dir/backups
  next,      \* the next timestamp
  op,        \* the operation each actor is in
  server,    \* the game: tracked by this EGM process, or adopted from an earlier one
  begun, faults, crashes

vars == <<live, aside, backups, next, op, server, begun, faults, crashes>>

Names == 1..MaxBackups
Actors == {"queue", "import"}
Content == Worlds \cup Imports \cup {Torn, None}
Saved == [slot: Content, half: Content, old: SUBSET Content]
Backup ==
  [dir: BOOLEAN, meta: BOOLEAN,
   intact: BOOLEAN,           \* as its manifest says
   doomed: BOOLEAN,           \* its removal has begun
   saved: Saved \cup {None},  \* what it holds or held
   taken: Saved \cup {None}]  \* history: what it was taken of
Operation ==
  [kind: {"none", "backup", "restore", "import"},
   pc: {"idle", "stop", "snapshot", "copying", "prune", "pruning", "stage", "aside", "swap",
        "clean"},
   target: Names \cup {0},     \* the backup to restore
   snap: Names \cup {0},       \* the snapshot taken by this operation
   back: BOOLEAN,              \* replacing live by the snapshot after a failure
   want: Saved \cup Content,   \* the verified backup, or the world to import
   staged: Saved \cup {None},  \* the copy next to the destination; for a snapshot, what is copied
   moved: Saved \cup Content,  \* what was moved aside
   pruned: SUBSET Names,       \* what the retention is removing
   played: BOOLEAN,            \* history: the game changed the world after the snapshot began
   meddled: BOOLEAN,           \* history: an import or a deletion came in between
   robbed: BOOLEAN]            \* history: the retention began to remove its backup or snapshot

\* No directory is not a directory with something in it.
ASSUME NoneIsNoDirectory == None \notin Saved

NoBackup == [dir |-> FALSE, meta |-> FALSE, intact |-> FALSE, doomed |-> FALSE,
             saved |-> None, taken |-> None]
Idle ==
  [kind |-> "none", pc |-> "idle", target |-> 0, snap |-> 0, back |-> FALSE, want |-> None,
   staged |-> None, moved |-> None, pruned |-> {}, played |-> FALSE, meddled |-> FALSE,
   robbed |-> FALSE]
Fresh(w) == [slot |-> w, half |-> None, old |-> {}]
Slot(s) == IF s = None THEN None ELSE s.slot

Fault == faults < MaxFaults /\ faults' = faults + 1
NoFault == UNCHANGED faults
Begins == begun < MaxOps /\ begun' = begun + 1
Ends(a) == op' = [op EXCEPT ![a] = Idle]
Goes(a, where) == op' = [op EXCEPT ![a].pc = where]

-----------------------------------------------------------------------------
(* The operations begin                                                     *)

BackupStarts ==
  /\ op["queue"].pc = "idle"
  /\ Begins
  /\ live # None
  /\ op' = [op EXCEPT !["queue"] =
       [Idle EXCEPT !.kind = "backup", !.pc = "snapshot"]]
  /\ UNCHANGED <<live, aside, backups, next, server, faults, crashes>>

\* Mutant: the verdict of verify_backup is not looked at.
RestoreStartsUnverified(b) ==
  /\ op["queue"].pc = "idle"
  /\ Begins
  /\ backups[b].dir /\ backups[b].meta
  /\ op' = [op EXCEPT !["queue"] =
       [Idle EXCEPT !.kind = "restore", !.target = b, !.want = backups[b].saved,
                            !.pc = IF server = "offline" THEN "snapshot" ELSE "stop"]]
  /\ UNCHANGED <<live, aside, backups, next, server, faults, crashes>>

RestoreStarts(b) ==
  /\ op["queue"].pc = "idle"
  /\ Begins
  /\ backups[b].dir /\ backups[b].meta /\ backups[b].intact
  /\ op' = [op EXCEPT !["queue"] =
       [Idle EXCEPT !.kind = "restore", !.target = b, !.want = backups[b].saved,
                            !.pc = IF server = "offline" THEN "snapshot" ELSE "stop"]]
  /\ UNCHANGED <<live, aside, backups, next, server, faults, crashes>>

\* process_manager.stop ends the process it tracks, and no other.
RestoreStopsServer ==
  /\ op["queue"].pc = "stop"
  /\ server' = IF server = "tracked" THEN "offline" ELSE server
  /\ Goes("queue", "snapshot")
  /\ UNCHANGED <<live, aside, backups, next, begun, faults, crashes>>

\* Mutant: the world in place is not backed up before the import.
ImportStartsUnsaved ==
  \E w \in Imports :
    /\ "import" \in Ops
    /\ op["import"].pc = "idle"
    /\ Begins
    /\ server = "offline"
    /\ op' = [op EXCEPT !["import"] =
         [Idle EXCEPT !.kind = "import", !.pc = "stage", !.want = w]]
    /\ UNCHANGED <<live, aside, backups, next, server, faults, crashes>>

ImportStarts ==
  \E w \in Imports :
    /\ "import" \in Ops
    /\ op["import"].pc = "idle"
    /\ Begins
    /\ server = "offline"
    /\ op' = [op EXCEPT !["import"] =
         [Idle EXCEPT !.kind = "import", !.pc = "snapshot", !.want = w]]
    /\ UNCHANGED <<live, aside, backups, next, server, faults, crashes>>

-----------------------------------------------------------------------------
(* _create_snapshot                                                         *)

NothingToCopy(a) ==
  /\ op[a].pc = "snapshot"
  /\ live = None
  /\ IF op[a].kind = "backup" THEN Ends(a) ELSE Goes(a, "stage")
  /\ UNCHANGED <<live, aside, backups, next, server, begun, faults, crashes>>

\* Mutant: meta.json is written before the files are copied.
CopyStartsListed(a) ==
  /\ op[a].pc = "snapshot"
  /\ live # None
  /\ next <= MaxBackups
  /\ backups' = [backups EXCEPT ![next] = [NoBackup EXCEPT !.dir = TRUE, !.meta = TRUE]]
  /\ next' = next + 1
  /\ op' = [op EXCEPT ![a].pc = "copying", ![a].snap = next, ![a].staged = live]
  /\ UNCHANGED <<live, aside, server, begun, faults, crashes>>

CopyStarts(a) ==
  /\ op[a].pc = "snapshot"
  /\ live # None
  /\ next <= MaxBackups
  /\ backups' = [backups EXCEPT ![next] = [NoBackup EXCEPT !.dir = TRUE]]
  /\ next' = next + 1
  /\ op' = [op EXCEPT ![a].pc = "copying", ![a].snap = next, ![a].staged = live]
  /\ UNCHANGED <<live, aside, server, begun, faults, crashes>>

CopyOf(s, r) ==
  [slot |-> IF s.slot = r.slot THEN r.slot ELSE Torn, half |-> None, old |-> s.old \cap r.old]

\* The directory that is written to is being removed, or was meanwhile.
Hit(b) == backups[b].doomed \/ ~backups[b].dir

\* A world that changed while it was copied is torn in the copy, and so is one
\* whose copy was hit (copytree makes the directories it misses); the manifest
\* is built from what is there then and agrees with it.
CopyEnds(a) ==
  /\ op[a].pc = "copying"
  /\ live # None
  /\ LET b == op[a].snap
         all == CopyOf(op[a].staged, live) IN
     backups' = [backups EXCEPT ![b] =
       [dir |-> TRUE, meta |-> TRUE,
        intact |-> ~backups[b].doomed, doomed |-> backups[b].doomed,
        saved |-> IF Hit(b) THEN Fresh(Torn) ELSE all, taken |-> all]]
  /\ Goes(a, "prune")
  /\ UNCHANGED <<live, aside, next, server, begun, faults, crashes>>

\* copytree raises: the operation ends, the incomplete directory stays.
CopyFails(a) ==
  /\ op[a].pc = "copying"
  /\ \/ (Slot(live) # op[a].staged.slot \/ Hit(op[a].snap)) /\ NoFault
     \/ Fault
  /\ Ends(a)
  /\ UNCHANGED <<live, aside, backups, next, server, begun, crashes>>

Kept == {b \in Names : backups[b].dir}

\* Mutant: the list is sorted the other way round.
Newest(n) == {b \in Kept : Cardinality({c \in Kept : c >= b}) <= n}

Oldest(n) == {b \in Kept : Cardinality({c \in Kept : c <= b}) <= n}
Surplus == IF MaxCount = 0 THEN {} ELSE Oldest(Cardinality(Kept) - MaxCount)

Removed(b) == [b EXCEPT !.dir = FALSE, !.meta = FALSE, !.intact = FALSE, !.doomed = FALSE]

\* A removal takes the files one by one, meta.json early or late.
HalfRemoved(b, m) == [b EXCEPT !.meta = @ /\ m, !.intact = FALSE, !.doomed = TRUE]

\* Beside the other actor, whose backup or snapshot may be among the surplus.
PruneStarts(a) ==
  /\ op[a].pc = "prune"
  /\ \E early \in SUBSET Surplus : backups' =
       [b \in Names |-> IF b \in Surplus THEN HalfRemoved(backups[b], b \notin early)
                        ELSE backups[b]]
  /\ op' = [c \in Actors |->
       IF c = a THEN [op[a] EXCEPT !.pc = "pruning", !.pruned = Surplus]
       ELSE [op[c] EXCEPT !.robbed = @ \/ op[c].target \in Surplus \/ op[c].snap \in Surplus]]
  /\ UNCHANGED <<live, aside, next, server, begun, faults, crashes>>

\* Of a backup that the retention or the delete route has begun to remove; what
\* a failing removal leaves is removed by the next one.
RemovalEnds(b) ==
  /\ backups[b].doomed
  /\ backups' = [backups EXCEPT ![b] = Removed(@)]
  /\ UNCHANGED <<live, aside, next, op, server, begun, faults, crashes>>

\* ignore_errors: what cannot be removed stays, and nobody is told, also when it
\* is half of the backup that this operation restores or falls back to.
PruneEnds(a) ==
  LET stay == {b \in op[a].pruned : backups[b].doomed} IN
  /\ op[a].pc = "pruning"
  /\ IF stay = {} THEN NoFault ELSE Fault
  /\ IF op[a].kind = "backup" THEN Ends(a)
     ELSE op' = [op EXCEPT ![a].pc = "stage", ![a].pruned = {},
                           ![a].robbed = @ \/ {op[a].target, op[a].snap} \cap stay # {}]
  /\ UNCHANGED <<live, aside, backups, next, server, begun, crashes>>

-----------------------------------------------------------------------------
(* safe_replace_dir(backup, Saved), by restore_backup                       *)

Restoring(where) == op["queue"].kind = "restore" /\ op["queue"].pc = where
Source == backups[IF op["queue"].back THEN op["queue"].snap ELSE op["queue"].target]

\* except SafeReplaceError: once more, with the snapshot as the source.
ReplaceFails ==
  IF ~op["queue"].back /\ op["queue"].snap # 0
  THEN op' = [op EXCEPT !["queue"].pc = "stage", !["queue"].back = TRUE,
                        !["queue"].staged = None, !["queue"].moved = None]
  ELSE Ends("queue")

Stages(content) ==
  op' = [op EXCEPT !["queue"].pc = "aside", !["queue"].staged = content]

\* Mutant: what verify_copy finds is not looked at.
RestoreStagesUnchecked ==
  /\ Restoring("stage")
  /\ Source.dir
  /\ \E s \in {Source.saved, Fresh(Torn)} : Stages(s)
  /\ UNCHANGED <<live, aside, backups, next, server, begun, faults, crashes>>

\* Copy and verify_copy against the source as it is now.
RestoreStages ==
  /\ Restoring("stage")
  /\ Source.dir
  /\ Stages(IF Source.intact THEN Source.saved ELSE Fresh(Torn))
  /\ UNCHANGED <<live, aside, backups, next, server, begun, faults, crashes>>

\* A backup that is gone is taken for a legacy one without Saved.
RestoreCannotStage ==
  /\ Restoring("stage")
  /\ \/ (~Source.dir \/ ~Source.intact) /\ NoFault
     \/ Fault
  /\ live' = IF ~Source.dir /\ live = None THEN Fresh(None) ELSE live
  /\ ReplaceFails
  /\ UNCHANGED <<aside, backups, next, server, begun, crashes>>

\* Mutant: had_existing is taken for granted.
RestoreMovesAnything ==
  /\ Restoring("aside")
  /\ aside' = aside \cup {live}
  /\ live' = None
  /\ op' = [op EXCEPT !["queue"].pc = "swap", !["queue"].moved = live]
  /\ UNCHANGED <<backups, next, server, begun, faults, crashes>>

RestoreMovesAside ==
  /\ Restoring("aside")
  /\ aside' = IF live = None THEN aside ELSE aside \cup {live}
  /\ live' = None
  /\ op' = [op EXCEPT !["queue"].pc = "swap", !["queue"].moved = live]
  /\ UNCHANGED <<backups, next, server, begun, faults, crashes>>

\* The first rename is outside the try: the error reaches the task.
RestoreCannotMoveAside ==
  /\ Restoring("aside")
  /\ live # None
  /\ Fault
  /\ Ends("queue")
  /\ UNCHANGED <<live, aside, backups, next, server, begun, crashes>>

RestoreSwaps ==
  /\ Restoring("swap")
  /\ live = None
  /\ live' = op["queue"].staged
  /\ Goes("queue", "clean")
  /\ UNCHANGED <<aside, backups, next, server, begun, faults, crashes>>

\* The swap fails, also because the game has made a new Saved in the gap.
RestorePutsBack ==
  /\ Restoring("swap")
  /\ (live # None /\ NoFault) \/ Fault
  /\ IF op["queue"].moved = None THEN UNCHANGED <<live, aside>>
     ELSE live' = op["queue"].moved /\ aside' = aside \ {op["queue"].moved}
  /\ ReplaceFails
  /\ UNCHANGED <<backups, next, server, begun, crashes>>

\* SafeReplaceCriticalError: the second rename fails as well.
RestoreCannotPutBack ==
  /\ Restoring("swap")
  /\ op["queue"].moved # None
  /\ faults + (IF live = None THEN 2 ELSE 1) <= MaxFaults
  /\ faults' = faults + (IF live = None THEN 2 ELSE 1)
  /\ live' = None
  /\ ReplaceFails
  /\ UNCHANGED <<aside, backups, next, server, begun, crashes>>

RestoreCleans ==
  /\ Restoring("clean")
  /\ aside' = aside \ {op["queue"].moved}
  /\ Ends("queue")
  /\ UNCHANGED <<live, backups, next, server, begun, faults, crashes>>

-----------------------------------------------------------------------------
(* safe_replace_dir(world, Saved/SaveGames/0), by import_save.  A failure   *)
(* is reported: the rollback looks for SaveGames in the snapshot, which     *)
(* keeps it under Saved, and never finds it.                                *)

\* What the end or a step of an import means to the queue's operation.
Meddles(r) ==
  op' = [op EXCEPT !["import"] = r, !["queue"].meddled = (op["queue"].pc # "idle")]

Importing(where) == op["import"].kind = "import" /\ op["import"].pc = where

ImportStages ==
  /\ Importing("stage")
  /\ live' = [(IF live = None THEN Fresh(None) ELSE live) EXCEPT !.half = op["import"].want]
  /\ Goes("import", "aside")
  /\ UNCHANGED <<aside, backups, next, server, begun, faults, crashes>>

ImportCannotStage ==
  /\ Importing("stage")
  /\ Fault
  /\ live' = IF live = None THEN Fresh(None) ELSE live
  /\ Ends("import")
  /\ UNCHANGED <<aside, backups, next, server, begun, crashes>>

ImportMovesAside ==
  /\ Importing("aside")
  /\ live' = IF Slot(live) = None THEN live
             ELSE [live EXCEPT !.slot = None, !.old = @ \cup {live.slot}]
  /\ Meddles([op["import"] EXCEPT !.pc = "swap", !.moved = Slot(live)])
  /\ UNCHANGED <<aside, backups, next, server, begun, faults, crashes>>

ImportCannotMoveAside ==
  /\ Importing("aside")
  /\ Slot(live) # None
  /\ Fault
  /\ Ends("import")
  /\ UNCHANGED <<live, aside, backups, next, server, begun, crashes>>

Swappable == live # None /\ live.half # None /\ live.slot = None

ImportSwaps ==
  /\ Importing("swap")
  /\ Swappable
  /\ live' = [live EXCEPT !.slot = live.half, !.half = None]
  /\ Meddles([op["import"] EXCEPT !.pc = "clean"])
  /\ UNCHANGED <<aside, backups, next, server, begun, faults, crashes>>

\* The staged copy or the place for it is gone, or the rename fails.
ImportPutsBack ==
  LET was == op["import"].moved IN
  /\ Importing("swap")
  /\ (~Swappable /\ NoFault) \/ Fault
  /\ live' = IF live = None THEN live
             ELSE IF was = None THEN [live EXCEPT !.half = None]
             ELSE IF was \in live.old
             THEN [live EXCEPT !.slot = was, !.old = @ \ {was}, !.half = None]
             ELSE [live EXCEPT !.slot = None]
  /\ Meddles(Idle)
  /\ UNCHANGED <<aside, backups, next, server, begun, crashes>>

\* SafeReplaceCriticalError: the second rename fails as well.
ImportCannotPutBack ==
  /\ Importing("swap")
  /\ live # None /\ op["import"].moved # None
  /\ faults + (IF Swappable THEN 2 ELSE 1) <= MaxFaults
  /\ faults' = faults + (IF Swappable THEN 2 ELSE 1)
  /\ live' = [live EXCEPT !.slot = None]
  /\ Meddles(Idle)
  /\ UNCHANGED <<aside, backups, next, server, begun, crashes>>

ImportCleans ==
  /\ Importing("clean")
  /\ live' = IF live = None THEN live ELSE [live EXCEPT !.old = @ \ {op["import"].moved}]
  /\ Ends("import")
  /\ UNCHANGED <<aside, backups, next, server, begun, faults, crashes>>

-----------------------------------------------------------------------------
(* The game server, the delete route, the end of the process                *)

Played == [a \in Actors |->
  [op[a] EXCEPT !.played = @ \/ op[a].pc \notin {"idle", "stop", "snapshot"}]]

\* A game that finds no world begins a new one.
ServerStarts ==
  /\ "server" \in Ops
  /\ server = "offline"
  /\ server' = "tracked"
  /\ \E w \in Worlds :
       live' = IF live = None THEN Fresh(w)
               ELSE IF live.slot = None THEN [live EXCEPT !.slot = w] ELSE live
  /\ op' = IF Slot(live) = None THEN Played ELSE op
  /\ UNCHANGED <<aside, backups, next, begun, faults, crashes>>

GameSaves ==
  /\ server # "offline"
  /\ live # None
  /\ \E w \in Worlds : live' = [live EXCEPT !.slot = w]
  /\ op' = Played
  /\ UNCHANGED <<aside, backups, next, server, begun, faults, crashes>>

ServerStops ==
  /\ "server" \in Ops
  /\ server # "offline"
  /\ server' = "offline"
  /\ UNCHANGED <<live, aside, backups, next, op, begun, faults, crashes>>

\* Of a backup whose directory is there, listed or not.
DeleteStarts(b) ==
  /\ "delete" \in Ops
  /\ Begins
  /\ backups[b].dir
  /\ \E m \in BOOLEAN : backups' = [backups EXCEPT ![b] = HalfRemoved(@, m)]
  /\ op' = [a \in Actors |->
       [op[a] EXCEPT !.meddled = @ \/ (op[a].pc # "idle" /\ b \in {op[a].target, op[a].snap})]]
  /\ UNCHANGED <<live, aside, next, server, faults, crashes>>

Crash ==
  /\ crashes < MaxCrashes
  /\ crashes' = crashes + 1
  /\ op' = [a \in Actors |-> Idle]
  /\ server' = IF server = "tracked" THEN "adopted" ELSE server
  /\ live' = IF live = None THEN None ELSE [live EXCEPT !.half = None]
  /\ UNCHANGED <<aside, backups, next, begun, faults>>

-----------------------------------------------------------------------------

Init ==
  /\ live \in {None} \cup {Fresh(w) : w \in Worlds}
  /\ aside = {}
  /\ backups = [b \in Names |-> NoBackup]
  /\ next = 1
  /\ op = [a \in Actors |-> Idle]
  /\ server = "offline"
  /\ begun = 0
  /\ faults = 0
  /\ crashes = 0

Snapshot(a) ==
  \/ NothingToCopy(a) \/ CopyStarts(a) \/ CopyEnds(a) \/ CopyFails(a)
  \/ PruneStarts(a) \/ PruneEnds(a)

Restore ==
  \/ RestoreStopsServer
  \/ RestoreStages \/ RestoreCannotStage
  \/ RestoreMovesAside \/ RestoreCannotMoveAside
  \/ RestoreSwaps \/ RestorePutsBack \/ RestoreCannotPutBack
  \/ RestoreCleans

Import ==
  \/ ImportStarts
  \/ ImportStages \/ ImportCannotStage
  \/ ImportMovesAside \/ ImportCannotMoveAside
  \/ ImportSwaps \/ ImportPutsBack \/ ImportCannotPutBack
  \/ ImportCleans

Next ==
  \/ BackupStarts
  \/ \E b \in Names : RestoreStarts(b) \/ DeleteStarts(b) \/ RemovalEnds(b)
  \/ \E a \in Actors : Snapshot(a)
  \/ Restore \/ Import
  \/ ServerStarts \/ GameSaves \/ ServerStops
  \/ Crash

Spec == Init /\ [][Next]_vars

-----------------------------------------------------------------------------
(* Properties                                                               *)

TypeOK ==
  /\ live \in Saved \cup {None}
  /\ aside \subseteq Saved
  /\ backups \in [Names -> Backup]
  /\ next \in 1..(MaxBackups + 1)
  /\ op \in [Actors -> Operation]
  /\ server \in {"offline", "tracked", "adopted"}
  /\ begun \in 0..MaxOps
  /\ faults \in 0..MaxFaults
  /\ crashes \in 0..MaxCrashes

\* A copy cut short by an error or by the end of the process is never listed,
\* and so never offered for a restore: a backup with a meta.json is whole,
\* until somebody deletes it.
ListedIsWhole ==
  \A b \in Names : backups[b].meta => backups[b].intact \/ backups[b].doomed

\* A restore that has replaced the live directory has put there exactly the
\* world that was verified, and nothing that a crashed or failed copy or
\* deletion left behind, unless its backup is deleted, by a user or by the
\* retention, or an import runs meanwhile.
RestoredIsVerified ==
  LET o == op["queue"] IN
  (Restoring("clean") /\ ~o.back /\ ~o.meddled /\ ~o.robbed)
    => o.staged = o.want /\ (o.played \/ Slot(live) = o.want.slot)

\* A restore ends with the requested world or with the one that was there
\* before, whichever step fails; if not even the original can be put back, it
\* still lies aside, as the message of SafeReplaceCriticalError says.
AllOrNothing ==
  [][LET o == op["queue"]
         before == backups[o.snap].saved.slot IN
     (/\ o.kind = "restore" /\ o.snap # 0 /\ o.pc \in {"stage", "aside", "swap", "clean"}
      /\ op'["queue"].kind = "none" /\ crashes' = crashes
      /\ ~o.played /\ ~o.meddled /\ ~o.robbed)
     => \/ Slot(live') \in {o.want.slot, before}
        \/ \E s \in aside' : s.slot = before]_vars

In(s) == IF s = None THEN {} ELSE {s.slot} \cup s.old
OnDisk ==
  In(live) \cup (UNION {In(s) : s \in aside})
  \cup (UNION {In(backups[b].saved) : b \in {c \in Names : backups[c].intact}})

\* Neither a restore nor an import, failed, interrupted or interleaved, ever
\* removes the last copy of a world of which no snapshot had been taken (that
\* snapshots are removed again is up to users and to the retention).  Only the
\* game that overwrites its own world may, or that was started while the
\* operation was under way.  (Worlds to import keep their folder.)
LastCopyKept ==
  [][\A w \in Worlds \ Imports : (w \in OnDisk /\ w \notin OnDisk') =>
       \/ \E b \in Names : w \in In(backups[b].taken)
       \/ server # "offline"
       \/ \E a \in Actors : op[a].played]_vars

\* The retention never takes away the rollback point of a restore under way:
\* its snapshot goes only if the user deletes it or if imports have meanwhile
\* made as many newer ones as are kept.
RollbackPointKept ==
  LET o == op["queue"] IN
  (o.kind = "restore" /\ o.snap # 0 /\ o.pc \in {"stage", "aside", "swap", "clean"})
    => \/ backups[o.snap].intact
       \/ o.meddled
       \/ MaxCount # 0 /\ next - 1 - o.snap >= MaxCount

\* A verified restore that nothing fails or disturbs delivers the backup
\* ("verifies the backup first, ... then safely replaces the live directory
\* with the backup's contents", backup_service.py).
RestoreDelivers ==
  [][(/\ op["queue"].kind = "restore" /\ op'["queue"].kind = "none"
      /\ faults' = 0 /\ crashes' = crashes /\ ~op["queue"].meddled)
     => op["queue"].pc = "clean" /\ ~op["queue"].back]_vars

\* The live directory is untouched or fully replaced, never missing: when
\* nothing is under way, what was moved aside has been replaced or put back
\* (safe_replace.py, which names crash and power loss).
NeverLeftMissing ==
  (aside # {} /\ \A a \in Actors : op[a].kind = "none") => live # None
=============================================================================
