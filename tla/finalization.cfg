\* Two requests, two workers, duplicated messages, and a crash or a lost connection.
CONSTANTS
  r1 = r1
  r2 = r2
  w1 = w1
  w2 = w2
  u1 = u1
  a = a
  b = b
  None = None
  Reqs = {r1, r2}
  LoopOf <- OneLoop
  Workers = {w1, w2}
  Uploads = {u1}
  MaxCount = 1
  Payloads = {a, b}
  SizeOf <- UnitSizes
  InitRequests <- OneChunk
  MaxChunkSize = 1
  MayExpire = { }
  FaultKinds = {"redeliver", "crash"}
  MaxFaults = 1
  MaxQueue = 2
SYMMETRY Symmetry
SPECIFICATION FaultSpec
CHECK_DEADLOCK FALSE
INVARIANTS
  DeletedNeverAvailable
  LocksHaveOwners
  RowMatchesObject
  AvailableIsWhole
PROPERTIES
  PermanentObjectStable
