\* The cleanup of a deleted file is lost for good.
CONSTANTS
  r1 = r1
  r2 = r2
  w1 = w1
  w2 = w2
  u1 = u1
  a = a
  b = b
  None = None
  Reqs = {r1}
  LoopOf <- OneLoop
  Workers = {w1}
  Uploads = {u1}
  MaxCount = 1
  Payloads = {a}
  SizeOf <- UnitSizes
  InitRequests <- OneChunk
  MaxChunkSize = 1
  MayExpire = { }
  FaultKinds = {"publish"}
  MaxFaults = 1
  MaxQueue = 2
SPECIFICATION Spec
CHECK_DEADLOCK FALSE
INVARIANTS
  CleanupRetriable
