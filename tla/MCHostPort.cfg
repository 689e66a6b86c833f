SPECIFICATION Spec
CONSTANTS
  Params = {"list", "sign"}
  NoAnswer = NoAnswer
  MaxCalls = 4
INVARIANTS
  PortTypeOK
  PendingAreWaiting
PROPERTIES
  Implements
  CallsSettle
CHECK_DEADLOCK FALSE
