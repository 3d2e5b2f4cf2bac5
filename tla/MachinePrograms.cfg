SPECIFICATION Spec
CONSTANTS
  Byte = 8
  MemSize = 256
  GdtSize = 3
  HddPort = 224
  DmaPort = 240
  SectorSize = 4
  DiskSize = 16
  WordBits = 12
  Regs <- MCRegs
  Ra = 8
  Starts <- MCStarts
  Space = 64
  Home <- MCHome
  Window <- MCWindow
  FILE_TABLE = 16
  FILE_TABLE_ITEM_CNT = 5
  PROC = 8
  PROC_USRSPACE_LOG_SIZE = 5
  HDD_SECT_LOG_SIZE = 2
CHECK_DEADLOCK FALSE
INVARIANTS
  MachineTypeOK
  MacrosMeet
  ProductsAndQuotients
  CallsReturn
  CopiesWords
  FilesFound
  ReadsFile
  SpaceCopied
PROPERTIES
  Relocated
  EscapesRecorded
