SPECIFICATION FairSpec
CONSTANTS
  Tasks = {t1}
  Handlers = {h1}
  Worker = worker
  NoTask = NoTask
  MaxBoots = 2
  BlankModels = FALSE
  DiskFaults = FALSE
PROPERTY
  TasksSurviveCrashes
