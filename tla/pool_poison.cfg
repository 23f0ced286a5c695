SPECIFICATION Spec
CONSTANTS
  NumWorkers = 1
  Requests = {"a"}
  max_replace_attempts = 3
  kMaxRequestRetries = 2
  kMaxAbandonedIds = 1
  Nil = Nil
  MaxFaults = 4
  MaxStalls = 0
  MaxInitFailures = 0
INVARIANT PoisonPillBound
