SPECIFICATION Spec
CONSTANTS
  NumFiles = 1
  MaxConcurrent = 1
  LinkCap = 1
  Zero = 0
  NoFile = NoFile
  MaxRuns = 2
  MaxLosses = 1
  EarlyLoss = FALSE
  MayLose = {"receiver"}
  Chunk <- MCChunk
  Source <- MCTwoChunks
INVARIANT
  FinishedIsSource
CHECK_DEADLOCK FALSE
