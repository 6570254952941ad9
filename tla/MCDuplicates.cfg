SPECIFICATION Spec
CONSTANTS
  Request = {r1, r2}
  Tx = {"stx"}
  Command <- Duplicates
  SettleMaxRetries = 2
  VerifyMaxRetries = 2
  Reorgs = FALSE
  AbortStatus = {"abort_by_response"}
  Shape <- MCShape
  Wire <- MCWire
  MaxUint64 = 3
CHECK_DEADLOCK FALSE
SYMMETRY RequestSymmetry
INVARIANTS
  TypeOK
  ServedOK
  VerdictsAgree
  ConfirmedBeforeStaysConfirmed
PROPERTIES
  KeepsContract
  PollsAsTheAdapter
