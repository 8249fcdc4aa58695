SPECIFICATION FairSpec
CONSTANTS
  Last = 3
  Conan = {2}
  Day = 7
  Window = 3
  Week = 1
  Schedules <- Schedules2
  MaxTime = 8
  MaxChanges = 1
INVARIANTS
  RestartsOnce
PROPERTIES
  NothingMissed
  WarnedInTime
  LoopComesRound
