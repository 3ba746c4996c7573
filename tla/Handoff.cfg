SPECIFICATION HandoffSpec
CONSTANTS
  Word = 64
  PageSize = 1
  LowPages = 2
  MemoryMaps = {}
  Calls = {}
  Memories <- MCMemories
  KernelFrames = {2, 3}
  ChangeLimit = 2
  RequestLimit = 8
INVARIANTS
  NothingInUseIsTouched
CHECK_DEADLOCK FALSE
