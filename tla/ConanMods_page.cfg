SPECIFICATION Spec
CONSTANTS
  m1 = m1
  m2 = m2
  p1 = p1
  Published <- Mods2
  Pages <- Pages1
  PakOf <- Paks
  MaxVersion = 2
  MaxOps = 4
  MaxFaults = 1
INVARIANTS
  GameLoadsTheList
  ChoicesHold
