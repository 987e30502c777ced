SPECIFICATION Spec
CONSTANTS
  HalfRange = 6
  Pulse = 1
  Estimate = 3
  DoorTime = 4
  WallButton = TRUE
INVARIANT TypeOK
PROPERTIES
  NeverInterruptsRemoteMove
  RestingStatusIsTrue
  PromptPollSeesElapsed
  CommandCompletes
