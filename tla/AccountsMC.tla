------------------------------ MODULE AccountsMC ------------------------------
(* Accounts for TLC: two names and two browsers, each interchangeable.       *)
EXTENDS Accounts, TLC

CONSTANTS n1, n2, b1, b2

Names2 == {n1, n2}
Browsers2 == {b1, b2}
Alike == Permutations(Names2) \cup Permutations(Browsers2)
=============================================================================
