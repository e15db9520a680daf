SPECIFICATION Spec
CONSTANTS
  Tasks = {t1, t2}
  Handlers = {h1, h2}
  Worker = worker
  NoTask = NoTask
  MaxBoots = 2
  BlankModels = TRUE
  DiskFaults = TRUE
SYMMETRY Symmetry
INVARIANTS
  TypeOK
  TxExclusive
  CreateAnswered
  AtMostOnce
  ResultOnDisk
  WorkerHoldsClaim
  StrandedOnlyByDeath
PROPERTIES
  CancelledStays
  ReadsMonotone
  ImplementsLifecycle
