CONSTANTS
  Threads = {t1, t2, t3}
  Addresses = {1, 2}
  Objects = {o1, o2, o3}
  PoolSizes = {1, 2}
  FrameSamples = 1
  Subsampling = 2
  WindowSamples = 2
  MinSpeech = 2
  MinSilence = 3
  Pad = 5
  MaxWindows = 11
  NMels = 2
  ContextSize = 2
  MaxTokensPerStep = 2
  Vocabulary = {1, 2}
  Blank = 0
  BatchSizes = {1, 2}
  FrameCounts = {1, 3, 4}
SPECIFICATION Spec
INVARIANTS
  HandlesSound
  SegmentsMatchReference
  
  BatchIsSingly
PROPERTIES
  EmptyOnlyWhenBusy
CHECK_DEADLOCK FALSE
