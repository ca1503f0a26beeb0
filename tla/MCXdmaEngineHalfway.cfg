CONSTANTS
  s1 = s1
  s2 = s2
  a1 = a1
  NoCaller = NoCaller
  Submitters = {s1}
  Aperture = {a1}
  DescMax = 2
  ReqSizes = {1, 2}
  Faults = {}
  UsedBound = 0
SPECIFICATION Spec
PROPERTIES
  FailedMeansStopped
