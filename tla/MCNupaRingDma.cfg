CONSTANTS
  MAX_DESC_NUM = 4
  DESC_MAX_DMA_SIZE = 2
  f1 = f1
  f2 = f2
  Frames = {f1}
  FrameLen <- MCFrameLen
  Garbage = Garbage
  DmaOutcomes = {"done", "failed"}
SPECIFICATION Spec
INVARIANT SettledIsData
