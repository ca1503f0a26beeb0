SPECIFICATION Spec
CONSTANTS
  Requests = {r1, r2}
  DescMax = 3
  ReqSizes <- MCSplitSizes
  HwFaults = FALSE
INVARIANTS
  TwoTransfersSuffice
CHECK_DEADLOCK FALSE
