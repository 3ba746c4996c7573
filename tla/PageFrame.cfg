SPECIFICATION Spec
CONSTANTS
  Word = 12
  PageSize = 2
  LowPages = 1
  MemoryMaps <- MCMemoryMaps
  Calls <- MCCalls
INVARIANTS
  TypeOK
  HintSound
  CountersMatchBitmap
PROPERTIES
  ImplementsFrameAllocator
