SPECIFICATION FairSignalSpec
CONSTANTS
  Callers = {c1, c2}
  Waiters = {w1, w2, w3}
INVARIANT
  NoMissedWakeup
PROPERTY
  LatchSpec
