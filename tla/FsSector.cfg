SPECIFICATION CallSpec
CONSTANTS
  CLUSTERS = 8
  FS_ROOT_ENTRIES = 2
  FS_DATA_SECTOR = 5
  Paths <- AAndB
  Handles = {h1, h2}
  MAX_SIZE = 4
  ANY_SIZE = 0
  Clients = {"strict"}
  KERNEL_BUF = 2
  LIST_MAX = 1
INVARIANT SectorInChain
CHECK_DEADLOCK FALSE
