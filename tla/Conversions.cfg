SPECIFICATION ConversionsSpec
CONSTANTS
  NAME_LEN = 3
  EXT_LEN = 1
  FS_MAX_FILENAME = 4
  FS_MAX_PATH = 3
  MAX_ARGS = 2
  WIDTH = 8
  Chars = {0, 32, 46, 47, 65, 97}
  MAX_LEN = 6
  FAT_ENTRIES = 5
  Values = {0, 2, 3, 2730, 4095}
INVARIANTS StringsAreTexts NamesComeBack ArgsAreWords NumbersComeBack
PROPERTY IsMap
CHECK_DEADLOCK FALSE
