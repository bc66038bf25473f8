SPECIFICATION FairSpec
CONSTANTS
  NumFiles = 1
  MaxConcurrent = 1
  LinkCap = 1
  Zero = 0
  NoFile = NoFile
  MaxRuns = 3
  MaxLosses = 2
  EarlyLoss = FALSE
  MayLose = {"sender"}
  Chunk <- MCChunk
  Source <- MCOneChunk
CONSTRAINT
  MCUndisturbed
PROPERTY
  ResumedCompletes
CHECK_DEADLOCK FALSE
