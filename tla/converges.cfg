CONSTANTS
  NoSecret = NoSecret
  NoJob = NoJob
  Lagging <- NoLag
  MaxVersion <- TwoTopics
  MaxContent = 1
  Budget <- CrashAndFault
  BackoffLimit = 1
SPECIFICATION FairSpec
INVARIANT StampsSound
PROPERTY Converges
