SPECIFICATION Spec
CONSTANTS
  a = a
  b = b
  Paths <- Paths2
  Conan <- Conan1
  Requests <- Requests2
  MaxPort = 10
  Custom = {2, 4}
  Threads = {t}
  Jobs = {j1, j2}
  Legacy <- Legacy3
  MaxOps = 3
INVARIANTS
  ReadsAreClean
  ReadsAgree
