SPECIFICATION FairSpec
CONSTANTS
  Code <- Program
  Boot <- MCBoot
  Vector <- MCVector
  MaxKeys = 2
CHECK_DEADLOCK FALSE
INVARIANTS
  TypeOK
  SyscallPrecise
PROPERTIES
  InterruptsTransparent
  WaitEnds
  InterruptTaken
