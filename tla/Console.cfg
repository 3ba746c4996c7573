SPECIFICATION FairSpec
CONSTANTS
  Screens <- MCScreens
  MainTexts <- MCMainTexts
  HandlerTexts <- MCHandlerTexts
  StackDepth = 5
  InterruptLimit = 2
INVARIANTS
  TypeOK
  CharactersShow
  TextsKeepTheirOrder
  FaultAtTheEndOnly
PROPERTIES
  ImplementsTypewriter
  FaultIsTheEnd
CHECK_DEADLOCK FALSE
