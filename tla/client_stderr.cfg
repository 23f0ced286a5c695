SPECIFICATION Spec
CONSTANTS
  Requests = {"a", "b"}
  StreamRequests = {}
  Nil = Nil
  MaxAnswers = 2
  MaxNullErrors = 0
  MaxCollects = 0
PROPERTY ErrorsDelivered
CHECK_DEADLOCK FALSE
