SPECIFICATION Spec
CONSTANTS
  NumFiles = 3
  MaxConcurrent = 2
  LinkCap = 2
  ConfirmCap = 1
  Zero = 0
  NoFile = NoFile
  EmptyDirs = {3}
  Chunk <- MCChunk
  Source <- MCSource
  OldContents <- MCOldContents
INVARIANTS
  TypeOK
  NoUnknownFile
  OneTurn
  FinishedContent
  LoopBlockedByLateAnswers
  DoneMeansSettled
PROPERTIES
  ConsentedWrites
  CopySpec
