SPECIFICATION Spec
CONSTANTS
  t1 = t1
  t2 = t2
  daemon = daemon
  w2 = w2
  Tasks = {t1}
  Workers = {w1}
  Callers = {a1}
  Conns = {daemon, w2}
  None = None
  ConnOf <- ConnDef
  Priority <- PriorityDef
  ScheduledFor <- ScheduledForDef
  MaxClock = 2
  MaxCrashes = 1
INVARIANT CancelSurvives
