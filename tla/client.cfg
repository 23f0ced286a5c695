SPECIFICATION Spec
CONSTANTS
  Requests = {"get", "ping"}
  StreamRequests = {"get"}
  Nil = Nil
  MaxAnswers = 2
  MaxNullErrors = 0
  MaxCollects = 1
INVARIANTS PendingHasOwner ResolvedMeansTransferred
PROPERTIES SilencedLeftAlone ResultsDelivered
\* A client whose requests are settled and whose connection is closed is done.
CHECK_DEADLOCK FALSE
