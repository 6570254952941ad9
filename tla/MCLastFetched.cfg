SPECIFICATION Spec
CONSTANTS
  Request = {r1}
  Tx = {"stx"}
  Command <- Plain
  SettleMaxRetries = 2
  VerifyMaxRetries = 2
  Reorgs = FALSE
  AbortStatus = {"abort_by_response"}
  Shape <- MCShape
  Wire <- MCWire
  MaxUint64 = 3
CHECK_DEADLOCK FALSE
INVARIANTS
  LastFetchedIsReturned
