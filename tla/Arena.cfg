SPECIFICATION Spec
CONSTANTS
  Addr = {0, 1, 2, 3, 4, 5, 6, 7, 8, 9, 10, 11, 12, 13, 14}
  MallocHead = MallocHead
  Regions <- MCRegions
  Chunk = 2
  Requests = {16, 17, 40}
  Width = 4096
INVARIANTS
  TypeOK
  BlocksDisjoint
PROPERTIES
  ImplementsHeap
  CallsReturn
VIEW LiveState
CHECK_DEADLOCK FALSE
