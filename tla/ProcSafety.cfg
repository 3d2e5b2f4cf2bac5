SPECIFICATION FairSpec
CONSTANTS
  LastPid = 3
  SleepArgs = {0, 10, 15, 20}
  UserRegs <- NoRegs
  Images = {0}
INVARIANTS
  TypeOK
  NoLostWait
  CurrentRuns
  SleepersHaveTime
  WaitsEnd
PROPERTIES
  WaitEndsByExit
  IdleYields
  SleepersWake
  ReadyRuns
