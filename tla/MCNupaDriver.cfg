SPECIFICATION Spec
CONSTANTS
  h0 = h0
  h1 = h1
  c0 = c0
  H2C <- MCH2C
  C2H <- MCC2H
  Modes = {"msix", "legacy"}
  Failures = {"enable", "regions", "bars", "mask", "probe", "vectors", "irqs", "shm", "cdev", "register"}
  FaultMax = 2
  Budget = 1
  RingSize = 1
INVARIANTS TypeOK ClosedHoldsNothing HandlerFindsItsEngine UndoneOnce NoInterruptLost UsersFindTheirDevice ScheduledIsListed ListedOnce
CHECK_DEADLOCK FALSE
