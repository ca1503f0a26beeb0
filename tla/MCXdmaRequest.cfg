SPECIFICATION Spec
CONSTANTS
  DescMax = 10
  PageDescs = 8
  AdjBlock = 4
  BlenMax = 2
  Lengths <- MCLengths
  EntriesMax = 4
  Apertures <- MCApertures
  Addr <- MCAddr
  EpAddr = 100000
  Wrap <- MCWrap
INVARIANTS
  TypeOK
  DescriptorsInBounds
  MovesWhatIsWanted
  FetchesInChain
  OneEntryIsSafe
CHECK_DEADLOCK FALSE
