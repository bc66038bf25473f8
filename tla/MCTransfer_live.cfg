SPECIFICATION FairSpec
CONSTANTS
  NumFiles = 3
  MaxConcurrent = 2
  LinkCap = 1
  ConfirmCap = 1
  Zero = 0
  NoFile = NoFile
  EmptyDirs = {}
  Chunk <- MCChunk
  Source <- MCSource
  OldContents <- MCOneExists
INVARIANT
  OpenFilesBounded
PROPERTIES
  SendFilesEnds
  AcceptedCompletes
