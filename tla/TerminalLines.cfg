SPECIFICATION Spec
CONSTANTS
  Width = 2
  Height = 1
  Letters = {97}
  GotoRows = {0}
  GotoCols = {0}
  TERM_INBUF_SIZE = 3
  LIB_INBUF_SIZE = 3
INVARIANTS
  TypeOK
PROPERTIES
  EditsLines
