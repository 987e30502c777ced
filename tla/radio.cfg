SPECIFICATION Spec
CONSTANTS
  Commands = {"ioctl"}
  Buffers = 2
  MaxQueue = 2
CHECK_DEADLOCK FALSE
INVARIANTS
  TypeOK
  OneChipSelected
  PanicHasACause
  AnswersMatch
  BuffersAddUp
PROPERTIES
  CallsReturn
  OffersAreTaken
