SPECIFICATION FairSpec
CONSTANTS
  Request = {r1}
  Tx = {"free", "swap"}
  Command <- OddPayments
  SettleMaxRetries = 3
  VerifyMaxRetries = 2
  Reorgs = TRUE
  AbortStatus = {"abort_by_response"}
  Shape <- MCShape
  Wire <- MCWire
  MaxUint64 = 3
CHECK_DEADLOCK FALSE
PROPERTIES
  NearerToAnswer
  EveryRequestAnswered
