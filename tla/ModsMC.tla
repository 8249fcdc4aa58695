-------------------------------- MODULE ModsMC --------------------------------
(* Mods for TLC: the first server takes a Workshop mod and a Nexus package,   *)
(* of two versions each, the second a PAK file; both take one UE4SS mod.     *)
EXTENDS Mods

CONSTANTS a, b, w, n, p, u

BothServers == {a, b}
AllAndTwo == [s \in {a, b} |-> IF s = a THEN {w, n, u} ELSE {p, u}]
TwoOrOne == [i \in {w, n, p, u} |-> IF i \in {w, n} THEN 2 ELSE 1]
=============================================================================
