SPECIFICATION Spec
CONSTANTS
  HalfRange = 4
  Clients = {c1, c2}
  Duration = 2
  MaxGap = 2
  MaxNonce = 2
  MaxInFlight = 2
PROPERTY OneCommandPerConversation
