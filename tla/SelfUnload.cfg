CONSTANTS
  f1 = f1
  f2 = f2
  NoFile = NoFile
  File <- MCFile
  LoadCmd <- OnlyF1
  UnloadCmd <- OnlyF1
  CanPause <- OnlyF2
  ConfList <- MCConfList
  MaxNode = 2
  MaxDepth = 2
  Freedoms <- SelfUnload
SPECIFICATION Spec
CHECK_DEADLOCK FALSE
INVARIANT CursorLive
