SPECIFICATION Spec
CONSTANTS
  MaxRetries = 25
  RetryDelay = 3
  HTTPTimeout = 45
  Loop = "WaitForConfirmation"
CHECK_DEADLOCK FALSE
INVARIANTS
  TypeOK
  WindowBound
  GivesUpAfterDelays
