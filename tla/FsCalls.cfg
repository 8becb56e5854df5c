SPECIFICATION CallSpec
CONSTANTS
  CLUSTERS = 5
  FS_ROOT_ENTRIES = 2
  FS_DATA_SECTOR = 5
  Paths <- DotsAndA
  Handles = {h1}
  MAX_SIZE = 2
  ANY_SIZE = 1
  Clients = {"strict", "any"}
  KERNEL_BUF = 2
  LIST_MAX = 1
INVARIANT ChainsSound
PROPERTIES LeaksOnlyInSubdirs FailuresOnlyLeak  
CHECK_DEADLOCK FALSE
