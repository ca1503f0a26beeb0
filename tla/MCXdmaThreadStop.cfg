SPECIFICATION FairSpec
CONSTANTS
  d1 = d1
  d2 = d2
  Devices <- MCDevices
  ThreadNum = 1
  Junk = {}
  Sizes <- MCSizes
  Faults <- MCNoFaults
PROPERTIES
  StopReturns
CHECK_DEADLOCK FALSE
