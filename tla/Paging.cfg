SPECIFICATION Spec
CONSTANTS
  PAGE_TABLE_SIZE = 2
  KERNEL_START = 1
  KERNEL_END = 2
  USED = 2
  TABLE_BASE = 4
  DIRECTORY = 6
  FRAMES = 7
  MapFrames = {0, 2}
  MapFlags = {{"PAGE_PRESENT", "PAGE_WRITABLE"}, {"PAGE_WRITABLE"}}
  JunkFrames = {0}
 
PROPERTIES KernelFramesSafe IsAddressSpace
CONSTRAINT Bounded
