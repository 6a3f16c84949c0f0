CONSTANTS
  c1 = c1
  c2 = c2
  Callers = {c1, c2}
  Managers = {c1}
  Ops = {"start", "stop"}
  Targets = {"SHUTDOWN"}
  Parts <- MCParts
  Optional = {"mon"}
  EnableAudit = TRUE
  Exclusive = TRUE
  None = None
SPECIFICATION FairSpec
PROPERTIES
  CallsReturn
CHECK_DEADLOCK FALSE
