SPECIFICATION TimedSpec
CONSTANTS
  Request = {r1, r2}
  Tx = {"stx"}
  Command <- OneOfEach
  SettleMaxRetries = 2
  VerifyMaxRetries = 2
  SettleRetryDelay = 2
  VerifyRetryDelay = 1
  HTTPTimeout = 1
  Reorgs = FALSE
  AbortStatus = {"abort_by_response"}
  Shape <- MCShape
  Wire <- MCWire
  MaxUint64 = 3
CHECK_DEADLOCK FALSE
SYMMETRY RequestSymmetry
INVARIANTS
  AnsweredInTime
  GivesTimeToMine
