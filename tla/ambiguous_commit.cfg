\* One request at a time; the commit of a finalization takes effect and raises.
CONSTANTS
  r1 = r1
  r2 = r2
  w1 = w1
  w2 = w2
  u1 = u1
  a = a
  b = b
  None = None
  Reqs = {r1}
  LoopOf <- OneLoop
  Workers = {w1}
  Uploads = {u1}
  MaxCount = 1
  Payloads = {a, b}
  SizeOf <- UnitSizes
  InitRequests <- OneChunk
  MaxChunkSize = 1
  MayExpire = {}
  FaultKinds = {"crash"}
  MaxFaults = 1
  MaxQueue = 1
SYMMETRY Symmetry
SPECIFICATION FaultSpec
CHECK_DEADLOCK FALSE
PROPERTY
  AvailableStays
