SPECIFICATION Spec
CONSTANTS
  Worlds = {a, b}
  Imports = {x}
  Torn = Torn
  None = None
  MaxCount = 2
  MaxBackups = 3
  Ops = {"import", "delete"}
  MaxOps = 4
  MaxFaults = 2
  MaxCrashes = 0
SYMMETRY Symmetry
INVARIANTS
  RestoredIsVerified
PROPERTIES
  LastCopyKept
CHECK_DEADLOCK FALSE
