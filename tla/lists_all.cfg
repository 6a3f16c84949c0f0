SPECIFICATION Spec
CONSTANTS
  t1 = t1 t2 = t2 t3 = t3 t4 = t4
  NULL = NULL
  Tasks = {t1, t2, t3, t4}
  Priorities = {"low", "normal", "high", "critical"}
  Urgent = TRUE
PROPERTY ImplementsQueues
CHECK_DEADLOCK FALSE
