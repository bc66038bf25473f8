SPECIFICATION Spec
CONSTANTS
  NumFiles = 2
  MaxConcurrent = 1
  LinkCap = 1
  Zero = 0
  NoFile = NoFile
  MaxRuns = 2
  MaxLosses = 1
  EarlyLoss = FALSE
  MayLose = {"sender", "receiver"}
  Chunk <- MCChunk
  Source <- MCSource
INVARIANTS
  FinishedStaysSource
  ReceivedIsPrefix
  OneStream
  DoneIsComplete
  NothingBeforeConsent
CHECK_DEADLOCK FALSE
