SPECIFICATION Spec
CONSTANTS
  LastCall = 2
  Requests = {"a"}
  Request <- MCRequest
  Streaming <- MCStreaming
  QueueMaxsize = 1
  MaxFaults = 1
INVARIANTS
  TypeOK
  RunningHoldsLease
  RecordsStayInTheirWindow
  ForgottenLeavesNothing
CHECK_DEADLOCK FALSE
