SPECIFICATION Spec
CONSTANTS
  Modes = {"never", "throttling-only", "transient"}
  Accepted = {200, 201, 202}
  ReadResults = {TRUE, FALSE}
  MaxRetries = 2
  BaseDelay = 1
  RequestTimeout = 4
  OperationTimeout = 3
  PollInterval = 1
  RetryAfters = {0, 2, 5}
  MaxClock = 7
INVARIANTS
  RejectionIsFinal
  MutatesOnce
  CallInv
PROPERTIES
  WaitsAsAsked
  Settles
CHECK_DEADLOCK FALSE
