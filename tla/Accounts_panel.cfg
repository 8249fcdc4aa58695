SPECIFICATION Spec
CONSTANTS
  n1 = n1
  n2 = n2
  b1 = b1
  b2 = b2
  Names <- Names2
  Browsers <- Browsers2
  MaxAge = 1
  Second = 2
  Window = 2
  MaxAttempts = 2
  MaxFresh = 4
  MaxTime = 2
  MaxFaults = 1
SYMMETRY Alike
INVARIANTS
  OneSuperAdmin
  CodeMakesOneAccount
  SessionsHaveUsers
  RetryAfterIsTrue
