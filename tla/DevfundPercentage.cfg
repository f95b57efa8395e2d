\* A window of 10 in place of 10000, and any percentage.
CONSTANTS
  HasDevfund = TRUE
  Window = 10
  MaxRequests = 20
  MaxTotal = 21
SPECIFICATION Spec
INVARIANTS ShareIsPercentage
CHECK_DEADLOCK FALSE
