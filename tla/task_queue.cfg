SPECIFICATION FairSpec
CONSTANTS
  t1 = t1
  t2 = t2
  daemon = daemon
  w2 = w2
  Tasks = {t1, t2}
  Workers = {w1, w2}
  Callers = {a1}
  Conns = {daemon, w2}
  None = None
  ConnOf <- ConnDef
  Priority <- PriorityDef
  ScheduledFor <- ScheduledForDef
  MaxClock = 2
  MaxCrashes = 1
INVARIANTS
  TypeOK
  ClaimedOnce
  WorkIsCommitted
  TimesOrdered
PROPERTIES
  NoOvertaking
  ImplementsLifecycle
  AllSettled
