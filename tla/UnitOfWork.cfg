\* An exam and an admin request that share the only connection of a worker, a failed
\* login on another worker, for the row of the admin request, and a reader of their audit
\* rows, one row a page.
SPECIFICATION PagesSpec
CONSTANTS
  r1 = r1
  r2 = r2
  r3 = r3
  w1 = w1
  w2 = w2
  session = session
  user = user
  Requests = {r1, r2, r3}
  KindOf <- MCKindOf
  RowOf <- MCRowOf
  WorkerOf <- MCWorkerOf
  PoolSize = 1
  PageSize = 1
INVARIANTS
  TypeOK
  IndInv
  SuccessIsDurable
  ReaderMissesNothing
PROPERTIES
  ImplementsAtomicRequests
  EveryRequestEnds
CHECK_DEADLOCK FALSE
