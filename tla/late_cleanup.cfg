\* A worker loses its database connection during the put of a finalization.
CONSTANTS
  r1 = r1
  r2 = r2
  w1 = w1
  w2 = w2
  u1 = u1
  a = a
  b = b
  None = None
  Reqs = {r1, r2}
  LoopOf <- OneLoop
  Workers = {w1, w2}
  Uploads = {u1}
  MaxCount = 1
  Payloads = {a}
  SizeOf <- UnitSizes
  InitRequests <- OneChunk
  MaxChunkSize = 1
  MayExpire = {}
  FaultKinds = {"crash"}
  MaxFaults = 1
  MaxQueue = 1
SYMMETRY Symmetry
SPECIFICATION FaultSpec
CHECK_DEADLOCK FALSE
PROPERTY
  DeletedGetsNoObject
