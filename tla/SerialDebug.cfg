SPECIFICATION FairSerialSpec
CONSTANTS
  Statuses <- MCStatuses
  NOT_FOUND = "not found"
  DEVICE_ERROR = "device error"
  MessageLimit = 2
  FailureLimit = 3
  StackDepth = 4
INVARIANTS
  MessagesAccountedFor
PROPERTIES
  CallsReturn
CHECK_DEADLOCK FALSE
