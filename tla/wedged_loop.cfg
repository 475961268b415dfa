\* A poll, a refused DELETE and a late chunk beside a running finalization, with
\* connections and threads to spare.
CONSTANTS
  r1 = r1
  r2 = r2
  r3 = r3
  Worker = Worker
  None = None
  Reqs = {r1, r2, r3}
  Ops <- WedgingOps
  PoolSize = 3
  Threads = 3
SPECIFICATION Spec
CHECK_DEADLOCK FALSE
PROPERTY
  PollsAnswered
