CONSTANTS
  s1 = s1
  s2 = s2
  a1 = a1
  NoCaller = NoCaller
  Submitters = {s1}
  Aperture = {a1}
  DescMax = 2
  ReqSizes = {3}
  Faults = {"signal", "error", "reset"}
  UsedBound = 0
SPECIFICATION FairSpec
INVARIANTS
  TypeOK
  ListedIsAlive
  RunningHasTransfer
  NoStartInShutdown
  NeverPastHead
  CompletedIsTransferred
  SuccessIsWhole
PROPERTIES
  CallReturns
