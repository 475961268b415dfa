\* Two processes of the API, a worker, an expiry and a fault; checksums and links.
CONSTANTS
  r1 = r1
  r2 = r2
  w1 = w1
  w2 = w2
  u1 = u1
  a = a
  b = b
  None = None
  Reqs = {r1, r2}
  LoopOf <- OwnLoops
  Workers = {w1}
  Uploads = {u1}
  MaxCount = 2
  Payloads = {a, b}
  SizeOf <- MixedSizes
  InitRequests <- TwoChunks
  MaxChunkSize = 2
  MayExpire = {u1}
  FaultKinds = {"crash", "storage"}
  MaxFaults = 1
  MaxQueue = 1
  Asked <- Downloads
SYMMETRY Symmetry
SPECIFICATION QuerySpec
CHECK_DEADLOCK FALSE
INVARIANTS
  TypeOK
  RowMatchesObject
  NoDuplicateRow
  ReadyHasAllChunks
  FinalizedUploadsAreValid
  AvailableIsWhole
  DownloadsAreWhole
  ChecksumsHold
PROPERTIES
  DeletedGetsNoObject
  ImplementsLifecycle
