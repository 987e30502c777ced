SPECIFICATION Spec
CONSTANTS
  NumVars = 2
  Slots = 3
  Values = {1, 2}
  MaxFaults = 0
INVARIANT RemembersAfterPowerCut
