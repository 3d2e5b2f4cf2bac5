SPECIFICATION FairSpec
CONSTANTS
  LastPid = 2
  SleepArgs = {10}
  UserRegs <- SomeRegs
  Images = {0}
PROPERTIES
  RestoresLo
