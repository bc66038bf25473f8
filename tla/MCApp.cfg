SPECIFICATION Spec
CONSTANTS
  Receivers = {r1, r2}
  Senders = {s1, s2}
  Files = {f1}
  Backlog = 1
  NewsLimit = 1
  Changes = 2
SYMMETRY MCSymmetry
CONSTRAINT MCOneSide
INVARIANTS
  OwnAnswer
  NoQuestionLost
  SharesAreHeld
  SettingsKept
CHECK_DEADLOCK FALSE
