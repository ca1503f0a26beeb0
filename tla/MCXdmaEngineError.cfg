CONSTANTS
  s1 = s1
  s2 = s2
  a1 = a1
  NoCaller = NoCaller
  Submitters = {}
  Aperture = {a1}
  DescMax = 2
  ReqSizes = {1, 2}
  Faults = {"error"}
  UsedBound = 0
SPECIFICATION FairSpec
PROPERTIES
  FaultIsDetected
CHECK_DEADLOCK FALSE
