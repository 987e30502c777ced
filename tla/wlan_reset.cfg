SPECIFICATION Spec
CONSTANT
  MaxFailed = 2
PROPERTIES
  ResetStartsAgain
