CONSTANTS
  MaxVersion = 3
  MaxRequests = 2
  MaxFaults = 2
  MaxQuits = 1
SPECIFICATION Spec
INVARIANTS
  VerifiedOnly
  SuccessIsTrue
PROPERTY ComesBack
CHECK_DEADLOCK FALSE
