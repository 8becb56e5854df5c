SPECIFICATION FairSpec
CONSTANTS
  KERNEL_HEAP_START = 32
  KERNEL_HEAP_SIZE = 96
  TOTAL_MEMORY = 4096
  SIZE_MOD = 1024
  Nums = {2}
  Sizes = {0, 6, 28, 46, 1022}
INVARIANTS HeapTiled Coalesced FailureIsExhaustion StatsExact Isolation GrantCoversRequest
PROPERTY CallsReturn
