SPECIFICATION Spec
CONSTANTS
  NumWorkers = 2
  r1 = r1
  r2 = r2
  Requests = {r1, r2}
  max_replace_attempts = 1
  kMaxRequestRetries = 1
  kMaxAbandonedIds = 1
  Nil = Nil
  MaxFaults = 1
  MaxStalls = 0
  MaxInitFailures = 1
SYMMETRY RequestSymmetry
INVARIANTS
  ReadyCountCovers
  ReadyWorkerInRotation
  InitializerOwnsWorker
\* main and the supervisor can both be left waiting for a ready worker
\* (pool_stranded), so the system may stop.
CHECK_DEADLOCK FALSE
