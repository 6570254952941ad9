SPECIFICATION ScanningSpec
CONSTANTS
  Call <- MCCall
  Text <- MCText
  Word <- MCWord
  Shape <- MCShape
  MaxUint64 = 3
CHECK_DEADLOCK FALSE
INVARIANTS
  ParsesAsDeclared
  ReadsInBounds
  FindsEveryOccurrence
