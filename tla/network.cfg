SPECIFICATION Spec
CONSTANTS
  CpThreads = {h1, h2}
  InitialCapacity = 2
  MaxIds = 4
  Senders = {s1, s2}
  MaxSends = 3
  messages_per_minute = 3
  bytes_per_minute = 6
  HeaderSize = 2
  BodySize = 3
  CpNull = CpNull
  Ids = {1, 2, 3}
  max_clients = 2
  Apps = {a1}
  MaxFragments = 2
  MonCallers = {m1, m2}
  Updaters = {m1}
  HistorySize = 2
  MaxAlerts = 2
  Metrics = {1, 2}
  Cooldown = 3
  MaxStarts = 2
  MaxTime = 5
  MaxRaised = 3
  MaxSnapshots = 3
INVARIANTS PoolAccounts FramesMatch ClientsAccounted RingsKeepNewest
PROPERTY StopReturns
CHECK_DEADLOCK FALSE
