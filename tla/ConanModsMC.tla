----------------------------- MODULE ConanModsMC ------------------------------
(* ConanMods for TLC: two mods, of which the second version has other files  *)
(* than the first, and every later one has those of the second.              *)
EXTENDS ConanMods

CONSTANTS m1, m2, p1

Mods2 == {m1, m2}
Pages1 == {p1}
Paks == [v \in 1..MaxVersion |-> IF v = 1 THEN "first" ELSE "other"]
=============================================================================
