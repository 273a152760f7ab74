CONSTANTS
  Threads = {t1}
  MAX_VFS_CONCURRENT_FILES = 4
  Types = {"SD", "SETTINGS"}
  Offset = 3
  NULL = NULL
SPECIFICATION Spec
INVARIANT OwnFile
CHECK_DEADLOCK FALSE
