CONSTANTS
  ClockFilter = 3
  Wait100 = 8
  Wait10 = 2
  MinPhase = 9
  MaxPhase = 12
SPECIFICATION ComSpec
INVARIANTS
  InStep
PROPERTIES
  ImplementsPort
  SendCompletes
