SPECIFICATION PurchaseSpec
CONSTANTS
  Request = {r1, r2, r3}
  Tx = {"stx", "free"}
  Command <- Attempts
  SettleMaxRetries = 1
  VerifyMaxRetries = 1
  Reorgs = FALSE
  AbortStatus = {"abort_by_response"}
  Shape <- MCShape
  Wire <- MCWire
  MaxUint64 = 3
CHECK_DEADLOCK FALSE
SYMMETRY RequestSymmetry
INVARIANTS
  PaidOnce
