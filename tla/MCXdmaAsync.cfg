SPECIFICATION FairSpec
CONSTANTS
  Requests = {r1, r2}
  DescMax = 3
  ReqSizes <- MCSizes
  HwFaults = TRUE
INVARIANTS
  TypeOK
  ChainsIntact
  AsyncIsMoved
  CallbackAfterAll
  TwoSufficeUncrossed
PROPERTIES
  LeftBehindOnlyByError
  RequestIsReported
CHECK_DEADLOCK FALSE
