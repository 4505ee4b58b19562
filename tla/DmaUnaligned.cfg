SPECIFICATION Spec
CONSTANTS
  Channel = {0, 1}
  Depth = 16
  Memory = 24
  MaxLen = 24
  Starts <- MCStarts
  Lengths <- MCLongLengths
  Video = {0}
  Eager = {}
  Abrupt = {}
INVARIANT
  TransferCovered
VIEW LiveState
