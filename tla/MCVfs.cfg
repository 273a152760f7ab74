CONSTANTS
  Threads = {t1, t2}
  MAX_VFS_CONCURRENT_FILES = 2
  Types = {"SD", "FLASH", "SETTINGS"}
  Offset = 0
  NULL = NULL
SPECIFICATION Spec
INVARIANTS
  DeviceSerial
  OwnFile
  NoWipedFile
  VfsInv
PROPERTY CallsReturn
\* The table may fill up with entries of files that failed to open.
CHECK_DEADLOCK FALSE
