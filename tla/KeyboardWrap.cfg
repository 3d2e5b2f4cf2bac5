SPECIFICATION Spec
CONSTANTS
  QSize = 3
  MaxKeys = 8
  Backlog = 1
PROPERTIES
  KeysInOrder
