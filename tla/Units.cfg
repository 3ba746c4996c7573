SPECIFICATION Spec
CONSTANTS
  Base = 1
  Size = 2
  MemorySize = 5
  Contents <- MCContents
  Indexes <- MCIndexes
  Flags <- MCFlags
  Words <- MCWords
  Numbers <- MCNumbers
  GateTypes <- MCGateTypes
  TssSize <- MCTssSize
  W = 30
  BufferSize = 64
  ReverseSize = 34
  Parts = 64
  Literals <- MCLiterals
  Strings <- MCStrings
  Messages <- MCMessages
  IntBits = 16
  LongBits = 24
  BufferLength = 5
  Letters <- MCLetters
  ErrorCodeTable <- MCErrorCodeTable
  Requests <- MCRequests
  Depth = 3
  Left <- MCLeft
  Divisors <- MCDivisors
  Texts <- MCTexts
  TextLimit = 2
  Arriving <- MCArriving
INVARIANTS
  FormatsFaithfully
  TextAsDocumented
  TextsArrive
PROPERTIES
  ImplementsBitSet
  ImplementsFieldRecord
CHECK_DEADLOCK FALSE
