SPECIFICATION ConsoleSpec
CONSTANTS
  Codes = {"x", "8", "pagedown", "shift", "caps", "f1", "FA"}
  Number <- MCNumber
  kblookup <- MCLookup
  Keys <- MCKeys
  TestKeys = {"f1"}
  Messages <- MCMessages
  MaxPresses = 2
  Rows = 2
  Cols = 2
INVARIANTS
  ConsoleTypeOK
  ScreenShows
  PressNoticed
  HeldKeysDown
  Typewritten
PROPERTY
  RingDrained
VIEW LiveText
CHECK_DEADLOCK FALSE
