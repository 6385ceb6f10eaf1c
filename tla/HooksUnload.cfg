CONSTANTS
  b1 = b1
  b2 = b2
  e1 = e1
  e2 = e2
  Base <- MCBase
  Ent <- MCEnt
  Unloads = TRUE
  MaxDepth = 2
SPECIFICATION HookSpec
CHECK_DEADLOCK FALSE
INVARIANT UnloadSupported
