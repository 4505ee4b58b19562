SPECIFICATION Spec
CONSTANTS
  Rows = 3
  Positions = 4
  Voices = 2
  FirstSpeed = 2
  FirstTempo = 32
  Songs <- MCSongs
INVARIANTS
  InSong
  NotesStarted
PROPERTIES
  
  ImplementsScore
