\* One client request at a time beside polls, two workers, every fault but duplicated messages.
CONSTANTS
  r1 = r1
  r2 = r2
  w1 = w1
  w2 = w2
  u1 = u1
  a = a
  b = b
  None = None
  Reqs = {r1}
  LoopOf <- OneLoop
  Workers = {w1, w2}
  Uploads = {u1}
  MaxCount = 1
  Payloads = {a}
  SizeOf <- UnitSizes
  InitRequests <- OneChunk
  MaxChunkSize = 1
  MayExpire = {u1}
  FaultKinds = {"publish", "task", "storage", "crash"}
  MaxFaults = 2
  MaxQueue = 2
  Asked <- AllQueries
SYMMETRY WorkerSymmetry
SPECIFICATION QuerySpec
CHECK_DEADLOCK FALSE
INVARIANTS
  StatusesAgree
  DeletedSessionsCancelled
  PollsAgree
  PollsCountAll
PROPERTIES
  ImplementsLifecycle
  RetriesHaveChunks
