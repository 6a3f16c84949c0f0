CONSTANTS
  c1 = c1
  c2 = c2
  t1 = t1
  t2 = t2
  t3 = t3
  NULL = NULL
  Clients = {c1, c2}
  Ops = {"add", "wait", "timedwait", "pause", "resume", "resize"}
  UsedLevels = {"normal", "high"}
  DestroyModes = {TRUE, FALSE}
  Quiet = FALSE
  queue_size = 2
  min_threads = 1
  default_threads = 1
  MaxThreads = 2
  dynamic_scaling = FALSE
  CounterRange = 8
  Tasks = {t1, t2, t3}
SPECIFICATION Spec
SYMMETRY Interchangeable
INVARIANTS
  QueueLengthExact
CHECK_DEADLOCK FALSE
