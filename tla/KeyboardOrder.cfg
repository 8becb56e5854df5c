SPECIFICATION Spec
CONSTANTS
  INPUT_BUFFER_SIZE = 2
  MAX_COMMAND_LENGTH = 3
  Keys = {"a", "lshift", "enter"}
INVARIANT HasInput
