SPECIFICATION FairSpec
CONSTANTS
  PageSize = 2
  Pages = 8
  Word = 64
  Files <- MCFiles
  FreePages <- MCFreePages
INVARIANTS
  LoadedFaithfully
  SuccessIsClean
  ErrorHasCause
PROPERTIES
  WritesStayInAllocatedPages
  LoaderEnds
CHECK_DEADLOCK FALSE
