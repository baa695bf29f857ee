CONSTANTS
  NoSecret = NoSecret
  NoJob = NoJob
  Lagging <- AllLag
  MaxVersion <- TwoTopics
  MaxContent = 2
  Budget <- NoTrouble
  BackoffLimit = 1
SPECIFICATION Spec
INVARIANT TypeOK
PROPERTY OnlyFinishedBuildsDeleted StampsNeverRollBack ImplementsPublication
