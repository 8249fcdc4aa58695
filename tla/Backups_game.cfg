SPECIFICATION Spec
CONSTANTS
  Worlds = {a, b}
  Imports = {x}
  Torn = Torn
  None = None
  MaxCount = 2
  MaxBackups = 4
  Ops = {"server"}
  MaxOps = 4
  MaxFaults = 2
  MaxCrashes = 1
SYMMETRY Symmetry
INVARIANTS
  TypeOK
  ListedIsWhole
  RollbackPointKept
PROPERTIES
  AllOrNothing
CHECK_DEADLOCK FALSE
