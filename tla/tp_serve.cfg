CONSTANTS
  c1 = c1
  c2 = c2
  t1 = t1
  t2 = t2
  t3 = t3
  NULL = NULL
  Clients = {c1, c2}
  Ops = {"add", "urgent"}
  UsedLevels = {"normal"}
  DestroyModes = {TRUE, FALSE}
  Quiet = TRUE
  queue_size = 2
  min_threads = 1
  default_threads = 2
  MaxThreads = 3
  dynamic_scaling = TRUE
  CounterRange = 8
  Tasks = {t1, t2, t3}
SPECIFICATION FairSpec
INVARIANTS
  OneOwner
  NoTaskStranded
  NothingDropped
PROPERTIES
  AcceptedTaskRuns
  DestroyFinishes
CHECK_DEADLOCK FALSE
