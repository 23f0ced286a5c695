SPECIFICATION FairSpec
CONSTANTS
  NumWorkers = 1
  Requests = {"a", "b"}
  max_replace_attempts = 1
  kMaxRequestRetries = 2
  kMaxAbandonedIds = 1
  Nil = Nil
  MaxFaults = 1
  MaxStalls = 1
  MaxInitFailures = 1
PROPERTY ShutdownCompletes
\* The supervisor can miss the notification of shutdown, and main can wait for a
\* worker that never becomes ready, so the system may stop.
CHECK_DEADLOCK FALSE
