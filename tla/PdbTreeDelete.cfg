CONSTANTS
  a1 = a1
  a2 = a2
  a3 = a3
  a4 = a4
  a5 = a5
  Addr <- MCAddr
  Nil = Nil
  Keys <- MCKeys
  Data = {v1}
  MaxAfter = 1
SPECIFICATION TreeSpec
SYMMETRY AnyPlace
CHECK_DEADLOCK FALSE
INVARIANT NoneLost
