SPECIFICATION Spec
CONSTANTS
  Sides = {"authentication"}
  DbThreads = {d1, d2, d3}
  max_connections = 2
  MaxCalls = 3
  BatchRows = 2
  AuthThreads = {a1, a2}
  Users = {1}
  Ips = {9}
  MaxAttempts = 2
  ip_limit = 1
  user_limit = 1
  Hour = 2
  MaxClock = 2
  MaxTokens = 2
  Versions = {1, 2, 3}
  MaxRounds = 2
  RqConns = {1, 2}
  Moderators = {1, 2}
  UserNames = {1}
  MaxRequests = 3
  MaxTransfers = 2
  SectionNames <- MCSectionNames
  Keys <- MCKeys
  Files <- MCFiles
  Wide <- MCWide
  Registrations <- MCRegistrations
  MaxItems = 2
  Members = {1, 2}
  MhConns = {1, 2}
  Encrypted = {1, 2}
  MaxMessages = 4
  Processes = {p1}
INVARIANT IssuedTokenValidates
CHECK_DEADLOCK FALSE
