CONSTANTS
  s1 = s1
  s2 = s2
  a1 = a1
  a2 = a2
  b1 = b1
  b2 = b2
  e1 = e1
  e2 = e2
  Base <- MCBase
  Ent <- MCEnt
  Unloads = TRUE
  MaxDepth = 6
  Slot <- MCSlot
  Account <- MCAccount
  Cap <- MCCap
  Curve <- MCCurve
  Price <- MCPrice
  Amount <- MCAmount
  Output <- MCOutput
  Width = 8
  MaxLevel = 3
  Start = 2
  Clients = 3
  Period = 2
  MaxWait = 3
  MaxLate = 3
SPECIFICATION PlaySpec
INVARIANTS
  Ledger
  NoDebt
  Punctual
  Hooked
  Intercepted
  NothingDangles
PROPERTIES
  CapRespected
  Fires
