SPECIFICATION Spec
CONSTANTS
  FtNull = 0
  FtUsers = {u1}
  Sessions = {1, 2}
  Buckets = {"b1", "b2"}
  Bucket <- MCBucket
  Chunks = {1, 2}
  WtNull = 0
  WtClients = {c1, c2}
  Transfers = {1, 2, 3}
  Slots = {0, 1}
  FileSize = 2
  ChunkSize = 1
  Lengths = {1, 2}
  MaxChunks = 2
INVARIANTS UploadsArriveOnce ListsSound CompleteMeansWhole SlotsAccounted
PROPERTY VerifyingEnds
CHECK_DEADLOCK FALSE
