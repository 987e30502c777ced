SPECIFICATION Spec
CONSTANTS
  NumVars = 2
  Slots = 2
  Values = {1, 2}
  MaxFaults = 1
INVARIANTS
  TypeOK
  RemembersUndisturbed
PROPERTY ReadyAfterBoot
