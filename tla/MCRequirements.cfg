SPECIFICATION Spec
CONSTANTS
  Request = {r1, r2}
  Tx = {"stx"}
  Command <- Requirements
  SettleMaxRetries = 1
  VerifyMaxRetries = 1
  Reorgs = FALSE
  AbortStatus = {"failed"}
  Shape <- MCShape
  Wire <- MCWire
  MaxUint64 = 3
CHECK_DEADLOCK FALSE
SYMMETRY RequestSymmetry
INVARIANTS
  VerifiedIsNotRefused
  AdvertisedKindsAreServed
PROPERTIES
  ServedAsIfAlone
