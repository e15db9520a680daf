SPECIFICATION FairSpec
CONSTANTS
  Tasks = {t1, t2}
  Handlers = {h1}
  Worker = worker
  NoTask = NoTask
  MaxBoots = 2
  BlankModels = TRUE
  DiskFaults = TRUE
PROPERTIES
  Settles
  LockReleased
