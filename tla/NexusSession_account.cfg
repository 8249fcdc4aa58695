SPECIFICATION Spec
CONSTANTS
  r1 = r1
  r2 = r2
  i1 = i1
  i2 = i2
  Requests <- Requests2
  SignIns <- SignIns2
  MaxIssued = 3
  MaxLost = 1
SYMMETRY Alike
INVARIANTS
  PremiumIsTrue
  QuietSession
