\* Three requests share two connections and two threads.
CONSTANTS
  r1 = r1
  r2 = r2
  r3 = r3
  Worker = Worker
  None = None
  Reqs = {r1, r2, r3}
  Ops <- AllOps
  PoolSize = 2
  Threads = 2
SPECIFICATION Spec
CHECK_DEADLOCK FALSE
INVARIANTS
  TypeOK
  NothingLeaks
PROPERTIES
  RequestsEnd
  TasksEnd
