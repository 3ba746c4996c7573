SPECIFICATION Spec
CONSTANTS
  Modes <- MCModes
  ChangeLimit = 2
INVARIANTS
  KernelSeesCurrentMap
  ReturnHasCause
  KernelInWantedMode
CHECK_DEADLOCK FALSE
