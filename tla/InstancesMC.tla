----------------------------- MODULE InstancesMC -----------------------------
(* Instances for TLC: no registry yet; one of the time before ports were     *)
(* unique and folders resolved, whose two entries share both; two servers.   *)
EXTENDS Instances

CONSTANTS a, b

Paths2 == {a, b}
Conan1 == {b}
Requests2 == {[game |-> 1, rest |-> 2, query |-> 3], [game |-> 4, rest |-> 7, query |-> 8]}
Old(id, path, p) == [id |-> id, path |-> path, ports |-> p, map |-> NoMap]
LegacyPair ==
  [active |-> -1,
   list |-> <<Old(-2, a, Default(a)), Old(-1, a, [game |-> 1, rest |-> 1, query |-> 0])>>]
TwoServers ==
  [active |-> -2,
   list |-> <<Old(-2, a, Default(a)), Old(-1, b, [game |-> 1, rest |-> 5, query |-> 6])>>]
Legacy3 == {[active |-> 0, list |-> <<>>], LegacyPair, TwoServers}
=============================================================================
