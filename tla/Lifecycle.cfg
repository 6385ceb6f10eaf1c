CONSTANTS
  line = line
  Text <- MCText
  Size <- MCSize
  DateSize = 2
  VafSize = 6
  LOG_BUFF_SIZE = 8
  Time <- MCTime
  Modes <- AllModes
  DiskMayFail = FALSE
  MaxRecords = 6
  Events <- Everything
  MaxSessions = 4
  a1 = a1
  a2 = a2
  a3 = a3
  a4 = a4
  a5 = a5
  Addr <- MCAddr
  Nil = Nil
  Keys <- MCKeys
  Data = {v1, v2}
  MaxAfter = 1
  MaxEntries = 5
  MaxLexemes = 7
  LooseComments = FALSE
SPECIFICATION StartSpec
SYMMETRY AnyPlace
CHECK_DEADLOCK FALSE
INVARIANTS
  LifeTypeOK
  CrashReported
  ShutdownPermanent
  ManagersLive
  StopKeepsLog
  WellLinked
  ReadAsMeant
PROPERTY
  DictUntilTorn
