SPECIFICATION FairSpec
CONSTANTS
  SenderConns = {s1}
  ReceiverConns = {r1, r2}
  Closers = {k1}
  QueueCap = 2
  TxCap = 1
  StreamCap = 1
  Sends <- MCThreeOne
  Pinging = {r1}
  Failing = {r1}
  MayExpire = TRUE
  NoConn = NoConn
CONSTRAINT
  MCOneAtATime
INVARIANTS
  InOrder
  NoGap
PROPERTIES
  Delivered
  ShutEndsHandlers
  CloseEnds
CHECK_DEADLOCK FALSE
