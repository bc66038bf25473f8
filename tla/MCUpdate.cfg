SPECIFICATION Spec
CONSTANTS
  u1 = u1
  u2 = u2
  u3 = u3
  Updates <- MCUpdates
INVARIANT
  BinaryKept
CHECK_DEADLOCK FALSE
