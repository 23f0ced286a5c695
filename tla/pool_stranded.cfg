SPECIFICATION HealthySpec
CONSTANTS
  NumWorkers = 1
  Requests = {"a", "b"}
  max_replace_attempts = 3
  kMaxRequestRetries = 2
  kMaxAbandonedIds = 1
  Nil = Nil
  MaxFaults = 1
  MaxStalls = 0
  MaxInitFailures = 0
PROPERTY WaiterIsWoken
CHECK_DEADLOCK FALSE
