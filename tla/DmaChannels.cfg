SPECIFICATION Spec
CONSTANTS
  Channel = {0, 1}
  Depth = 16
  Memory = 24
  MaxLen = 24
  Starts <- MCStarts
  Lengths <- MCLengths
  Video = {0}
  Eager = {}
  Abrupt = {}
INVARIANTS
  AnsweredInOrder
  StockKept
  TransferCovered
VIEW LiveState
