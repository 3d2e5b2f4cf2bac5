SPECIFICATION FairSpec
CONSTANTS
  QSize = 3
  MaxKeys = 8
  Backlog = 8
CHECK_DEADLOCK FALSE
INVARIANTS
  TypeOK
  NoStrandedKey
  OnlyTypedKeys
PROPERTIES
  Drains
