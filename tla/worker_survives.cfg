SPECIFICATION Spec
CONSTANTS
  Tasks = {t1, t2}
  Handlers = {h1}
  Worker = worker
  NoTask = NoTask
  MaxBoots = 1
  BlankModels = FALSE
  DiskFaults = FALSE
INVARIANT
  WorkerSurvives
