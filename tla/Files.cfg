SPECIFICATION Spec
CONSTANTS
  Kinds = {"v1", "v2", "hc"}
  Unanswered <- MCUnanswered
  Resets = 4
  Inits = 3
  V2Inits = 3
  Rounds = 4
  Names = {"a", "b"}
  ClusterSize = 2
  LinksPerSector = 4
  FatSize = 3
  Volumes <- MCVolumes
  Slots = {1, 2}
  Blocks = {1, 2}
  B = 3
  ReadSizes = {2, 3, 5}
  Offsets = {0, 2, 3}
  ShortReads = FALSE
INVARIANTS
  TypeOK
  
  ReadsFile
  CursorInChain
PROPERTY
  CallsReturn
VIEW LiveState
CHECK_DEADLOCK FALSE
