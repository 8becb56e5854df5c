SPECIFICATION Spec
CONSTANTS
  VGA_WIDTH = 6
  VGA_HEIGHT = 6
  START_Y = 0
  ART_HEIGHT = 1
  Keys = {99, 32}
  Blank = 32
  Newline = 10
  Backspace = 8
  Dash = 45
  Art = 35
  MAX_ARGS = 2
  MAX_COMMAND_LENGTH = 5
  PromptLengths = {1, 4}
  BootText <- MCBootText
  NotFoundText <- MCNotFoundText
  Commands <- MCCommands
  Outputs <- MCOutputs
  MAX_COMMANDS = 2
INVARIANTS TypeOK EchoExact
PROPERTIES ImplementsPaper PromptAtLeft
CHECK_DEADLOCK FALSE
