SPECIFICATION Spec
CONSTANTS
  Word = 64
  PageSize = 8
  LowPages = 1
  Fanout = 2
  EntryFrames = 16
  MemoryMaps <- MCMemoryMaps
  Junk <- MCJunk
  Pages <- MCPages
  Frames <- MCFrames
  HeldLimit = 1
INVARIANTS
  TablesArePrivate
PROPERTIES
  ImplementsAddressSpace
CONSTRAINT
  MCBeforeRefusal
