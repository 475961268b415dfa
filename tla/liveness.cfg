\* What holds, and what must eventually happen, when no process dies.
CONSTANTS
  r1 = r1
  r2 = r2
  w1 = w1
  w2 = w2
  u1 = u1
  a = a
  b = b
  None = None
  Reqs = {r1, r2}
  LoopOf <- OneLoop
  Workers = {w1}
  Uploads = {u1}
  MaxCount = 1
  Payloads = {a}
  SizeOf <- UnitSizes
  InitRequests <- OneChunk
  MaxChunkSize = 1
  MayExpire = { }
  FaultKinds = {"publish", "ambiguous", "redeliver", "task"}
  MaxFaults = 1
  MaxQueue = 1
SPECIFICATION FairSpec
CHECK_DEADLOCK FALSE
INVARIANT
  ProcessingIsOwned
PROPERTIES
  ProcessingSettles
  RequestsFinish
  WorkersFinish
  DeletedContentGoes
