---------------------------- MODULE NexusSessionMC ----------------------------
(* NexusSession for TLC: two handlers at a time and two sign-ins,            *)
(* interchangeable.                                                          *)
EXTENDS NexusSession, TLC

CONSTANTS r1, r2, i1, i2

Requests2 == {r1, r2}
SignIns2 == {i1, i2}
Alike == Permutations(Requests2) \cup Permutations(SignIns2)
=============================================================================
