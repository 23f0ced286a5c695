SPECIFICATION FairSpec
CONSTANTS
  Requests = {"get"}
  StreamRequests = {"get"}
  Nil = Nil
  MaxAnswers = 1
  MaxNullErrors = 1
  MaxCollects = 2
PROPERTIES DisconnectRejects EventuallySettled DisposeReachesOnClose
\* A client whose requests are settled and whose connection is closed is done.
CHECK_DEADLOCK FALSE
