SPECIFICATION Spec
CONSTANTS
  Request = {r1}
  Tx = {"stx", "sip"}
  Command <- Everything
  SettleMaxRetries = 2
  VerifyMaxRetries = 2
  Reorgs = TRUE
  AbortStatus = {"abort_by_post_condition"}
  Shape <- MCShape
  Wire <- MCWire
  MaxUint64 = 3
CHECK_DEADLOCK FALSE
INVARIANTS
  SuccessMeansPaid
  BroadcastOnlyWhenPayable
  AdmittedIsNamed
  GivesUpOnlyAfterWindow
  FetchBudget
