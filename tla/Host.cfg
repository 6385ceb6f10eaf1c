CONSTANTS
  short = short
  exact = exact
  long = long
  m1 = m1
  m2 = m2
  m3 = m3
  m4 = m4
  x = x
  y = y
  z = z
  jass = jass
  f = f
  g = g
  Text <- MCText
  Size <- MCSize
  DateSize = 2
  VafSize = 14
  LOG_BUFF_SIZE = 7
  Time <- MCTime
  Modes <- AllModes
  DiskMayFail = TRUE
  MaxRecords = 4
  Cell <- Memory
  Plugin = {x, y, z}
  Name = {"a", "b"}
  Has <- MCHas
  Number <- MCNumber
  NULL = NULL
  File = {jass, f, g}
  Self = jass
  Handle <- Memory
  NoLib = none
  MaxPlugins = 2
  MaxRefs = 4
  NodeAddr <- MCNodeAddr
  Null = Null
  Ids = {"a", "b"}
  Values = {v}
  Kinds <- MCKinds
  MaxDepth = 2
  LinkNode <- Memory
  Id = {"b", "c", "d"}
  Kid <- MCKid
  Key <- MCKey
  Sizes = {0, 2}
  NIL = NIL
SPECIFICATION HostSpec
SYMMETRY AnyPlace
CHECK_DEADLOCK FALSE
INVARIANTS
  LogTypeOK
  NothingLost
  Datable
  Linked
  NumberHolds
  TableExact
  CodeStays
  Gone
  FirstFound
  Attached
  Chained
PROPERTIES
  ListIsSeq
  NamesKept
  IsEntries
