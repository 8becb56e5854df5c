SPECIFICATION SyscallSpec
CONSTANTS
  MAX_PROCESSES = 4
  MAX_PID_ANY = 3
  MAX_PID_ONCE = 5
  COUNT_MOD = 5
  TICK_MOD = 1
  Priorities = {2}
  ExitCodes = {0, 1}
  Stacks = {s1, s2}
  NoStack = NoStack
  MAX_SYSCALLS = 43
  CallNums = {1, 2, 3, 4, 5, 6, 7, 8, 9, 12, 40, 41, 42, 43}
CHECK_DEADLOCK FALSE
PROPERTY RoundRobin
