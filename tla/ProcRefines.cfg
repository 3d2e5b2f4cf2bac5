SPECIFICATION Spec
CONSTANTS
  LastPid = 3
  SleepArgs = {0, 10}
  UserRegs <- SomeRegs
  Images = {i1, i2}
SYMMETRY ImageSymmetry
PROPERTIES
  RefinesProcesses
