SPECIFICATION FairSpec
CONSTANTS
  Codes = {a, b}
  Closers = {k1}
  MaxSessions = 2
INVARIANTS
  FoundIsOpen
  ShutForAReason
PROPERTIES
  LostIsShut
  DesertedIsShut
CHECK_DEADLOCK FALSE
