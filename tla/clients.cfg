SPECIFICATION Spec
CONSTANTS
  MaxConnects = 3
  ReconnectSettings = {0, 1}
  MaxMissed = 1
  MaxConnectCalls = 1
  MaxSockets = 3
  reconnectAttempts = 1
  MaxRequests = 2
  MaxQueued = 2
  MaxStored = 3
  MaxOpens = 2
  Uploads = {u1, u2}
  Downloads = {d1, d2}
  MaxActive = 1
  FileChunks = 2
  GrCalls = {c1, c2, c3, c4}
  MaxInfos = 2
  MaxContexts = 2
INVARIANTS QuietAfterDisconnect RepliesMatch NoBacklogWhenConnected OneSyncAtATime UnsentKept NoneStranded KeysAgree
CHECK_DEADLOCK FALSE
