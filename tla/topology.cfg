CONSTANTS
  None = None
  Versions <- SixVersions
  MaxContent = 2
  MaxAttempts = 5
  Budget <- EverythingOnce
SPECIFICATION FairSpec
INVARIANT TypeOK
PROPERTY SpecNeverRollsBack
PROPERTY Applied
