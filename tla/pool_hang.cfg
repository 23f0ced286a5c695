SPECIFICATION Spec
CONSTANTS
  NumWorkers = 1
  r1 = r1
  r2 = r2
  Requests = {r1, r2}
  max_replace_attempts = 1
  kMaxRequestRetries = 1
  kMaxAbandonedIds = 1
  Nil = Nil
  MaxFaults = 1
  MaxStalls = 1
  MaxInitFailures = 0
SYMMETRY RequestSymmetry
INVARIANTS
  TypeOK
  NeverHeldTwice
  DiscardOnlyAfterTimeout
  LeaksAreCounted
PROPERTY ImplementsService
\* main and the supervisor can both be left waiting for a ready worker
\* (pool_stranded), so the system may stop.
CHECK_DEADLOCK FALSE
