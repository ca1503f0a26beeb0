SPECIFICATION FairSpec
CONSTANTS
  d1 = d1
  d2 = d2
  Devices <- MCDevices
  ThreadNum = 1
  Junk = {0, 3}
  Sizes <- MCSizes
  Faults <- MCFaults
INVARIANTS
  TypeOK
  WakeTargetAlive
  NeverServesDestroyed
  PolledIsMoved
PROPERTIES
  PolledCallReturns
CHECK_DEADLOCK FALSE
