CONSTANTS
  MAX_DESC_NUM = 4
  DESC_MAX_DMA_SIZE = 2
  f1 = f1
  f2 = f2
  Frames = {f1, f2}
  FrameLen <- MCFrameLen
  Garbage = Garbage
  DmaOutcomes = {"done"}
  Quiet = TRUE
SPECIFICATION RSpec
INVARIANTS CleanFirst PayloadIntact
