------------------------------ MODULE BackupsMC ------------------------------
(* Backups for TLC: contents of worlds are interchangeable.                 *)
EXTENDS Backups, TLC

Symmetry == Permutations(Worlds)
=============================================================================
