SPECIFICATION Spec
CONSTANT
  MaxFailed = 2
INVARIANTS
  TypeOK
  AsleepIsQuiet
  FailuresReset
PROPERTIES
  LostModuleIsRestarted
  StaleAddressIsNoticed
  ModuleIsStarted
  DeadSessionIsDropped
