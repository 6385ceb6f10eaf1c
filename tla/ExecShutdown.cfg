CONSTANTS
  line = line
  Text <- MCText
  Size <- MCSize
  DateSize = 2
  VafSize = 6
  LOG_BUFF_SIZE = 8
  Time <- MCTime
  Modes <- AllModes
  DiskMayFail = FALSE
  MaxRecords = 4
  Events <- ExecShutdown
  MaxSessions = 1
SPECIFICATION Spec
CHECK_DEADLOCK FALSE
INVARIANTS
  NothingUnloadedIsUsed
