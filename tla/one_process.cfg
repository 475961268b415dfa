\* Two requests to the one uvicorn process that supervisord.conf starts, two workers.
CONSTANTS
  r1 = r1
  r2 = r2
  w1 = w1
  w2 = w2
  u1 = u1
  a = a
  b = b
  None = None
  Reqs = {r1, r2}
  LoopOf <- OneLoop
  Workers = {w1, w2}
  Uploads = {u1}
  MaxCount = 2
  Payloads = {a}
  SizeOf <- UnitSizes
  InitRequests <- TwoUnits
  MaxChunkSize = 2
  MayExpire = {u1}
  FaultKinds = {"crash"}
  MaxFaults = 1
  MaxQueue = 1
SYMMETRY Symmetry
SPECIFICATION Spec
CHECK_DEADLOCK FALSE
INVARIANTS
  LastChunkMakesReady
