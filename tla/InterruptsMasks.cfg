SPECIFICATION FairSpec
CONSTANTS
  Lines = {0, 1, 8}
  FirmwareMasks <- MCAllMasked
  FirmwareBases <- MCBases
PROPERTIES
  MasksRestored
CHECK_DEADLOCK FALSE
