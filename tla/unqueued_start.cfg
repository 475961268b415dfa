\* A completion among other requests, with fewer connections than requests.
CONSTANTS
  r1 = r1
  r2 = r2
  r3 = r3
  Worker = Worker
  None = None
  Reqs = {r1, r2, r3}
  Ops <- AllOps
  PoolSize = 1
  Threads = 2
SPECIFICATION Spec
INVARIANT
  StartsAreQueued
