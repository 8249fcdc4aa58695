--------------------------- MODULE ServerControlMC ---------------------------
(* ServerControl for TLC: processes are numbered in the order of launch.     *)
EXTENDS ServerControl

BothGames == {"palworld", "conan_exiles"}
Pids3 == 1..3
=============================================================================
