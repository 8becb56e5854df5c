SPECIFICATION InputSpec
CONSTANTS
  Faults = {0, 3, 14}
  MAX_STACK = 10
  INPUT_BUFFER_SIZE = 2
  MAX_COMMAND_LENGTH = 3
  Keys = {"a", "backspace", "lshift", "rshift"}
INVARIANTS IrqTypeOK NoTrace TypeOK RingIsFifo NoStuckShift
PROPERTIES BytesRead ReadIfMoreKeys
