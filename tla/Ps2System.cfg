CONSTANTS
  kbd = kbd
  mouse = mouse
  Port <- MCPort
  Talkers <- MCTalkers
  Senders <- MCSenders
  Bytes = 2
  RingSize = 2
  Edges <- MCEdges
  AnyClock = FALSE
SPECIFICATION Spec
INVARIANTS
  TypeOK
  NothingStranded
  BytesOnce
  AcknowledgesItsOwn
  BlankServed
VIEW LiveState
