SPECIFICATION CallSpec
CONSTANTS
  CLUSTERS = 4
  FS_ROOT_ENTRIES = 1
  FS_DATA_SECTOR = 5
  Paths <- AAndB
  Handles = {h1}
  MAX_SIZE = 1
  ANY_SIZE = 1
  Clients = {"any"}
  KERNEL_BUF = 2
  LIST_MAX = 1
PROPERTY DeleteRemoves
CHECK_DEADLOCK FALSE
