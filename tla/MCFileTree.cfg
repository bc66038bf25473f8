SPECIFICATION Spec
CONSTANTS
  Shares <- MCShares
  Names <- MCNames
  Cwd <- MCCwd
  ZipOf <- MCZipOf
  Split <- MCSplit
  MaxConcurrent = 2
INVARIANTS
  ArrivesWhole
  OnlyOldInTheWay
  ArchivesAreSound
CHECK_DEADLOCK FALSE
