SPECIFICATION FairSpec
CONSTANTS
  Tasks = {t1, t2}
  NoTask = NoTask
  Workers = {w1, w2}
  Keys = {g, i1}
  GlobalKey = g
  Priorities = {60}
  RetryLimits = {1}
  Ops = {"wait", "cancel", "retry", "clear"}
  MaxRestarts = 1
  MaxCopies = 1
INVARIANTS
  TypeOK
  NoCallerLeftBehind
PROPERTIES
  TerminalIsFinal
  ImplementsLifecycle
  QueuedIsWorkedOff
  CallersReturn
CHECK_DEADLOCK FALSE
