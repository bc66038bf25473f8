SPECIFICATION FairSpec
CONSTANTS
  r1 = r1
  r2 = r2
  Receivers <- MCReceivers
  Lan <- MCLan
  LanBroadcast = TRUE
INVARIANTS
  AskedIsKept
  HeardIsFound
PROPERTIES
  OtherIsShut
  JoinedIsAnswered
CHECK_DEADLOCK FALSE
