SPECIFICATION Spec
CONSTANTS
  Word = 512
  PageSize = 4
  LowPages = 2
  Fanout = 4
  EntryFrames = 512
  Machines <- MCMachines
INVARIANTS
  RefusedOnlyWithoutMemory
  TablesInFreeMemory
  IdentityMapped
  ResetOnlyAboveMemorySize
  UsedMemoryAccounted
CONSTRAINT
  MCBeforeRefusal
