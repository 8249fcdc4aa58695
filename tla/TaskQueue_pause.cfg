SPECIFICATION FairSpec
CONSTANTS
  Tasks = {t1, t2}
  NoTask = NoTask
  Workers = {w1, w2}
  Keys = {g, i1}
  GlobalKey = g
  Priorities = {50}
  RetryLimits = {0, 1}
  Ops = {"cancel", "clear", "pause", "external"}
  MaxRestarts = 0
  MaxCopies = 1
INVARIANTS
  SerializedPerInstance
  QueuedIsScheduled
  PausedIsHeld
PROPERTIES
  ResumedGoesOn
CHECK_DEADLOCK FALSE
