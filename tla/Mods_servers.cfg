SPECIFICATION Spec
CONSTANTS
  a = a
  b = b
  w = w
  n = n
  p = p
  u = u
  Servers <- BothServers
  Workshop = {w}
  Packages = {n}
  Paks = {p}
  Ue4ss = {u}
  Foldered = {u}
  Named = {p}
  Offered <- AllAndTwo
  Newest <- TwoOrOne
  MaxOps = 4
  MaxFaults = 1
INVARIANTS
  LoadsAsWanted
  ListedOnce
  StatusIsTrue
