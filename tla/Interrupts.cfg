SPECIFICATION FairSpec
CONSTANTS
  Lines = {0, 1, 8}
  FirmwareMasks <- MCMasks
  FirmwareBases <- MCBases
INVARIANTS
  ControllersProgrammed
  WrongHandlerOnlyBeforeOffset
  MaskedServedOnlyInWindow
  NothingLeftInService
  ResetOnlyIfInterruptsLeftOn
PROPERTIES
  IdleOrFrozen
  KeyboardServed
CHECK_DEADLOCK FALSE
