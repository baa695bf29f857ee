CONSTANTS
  NoSecret = NoSecret
  NoJob = NoJob
  Lagging <- AllLag
  MaxVersion <- TwoTopics
  MaxContent = 1
  Budget <- CrashAndFailure
  BackoffLimit = 0
SPECIFICATION SeeingSpec
INVARIANT StampsSound QuiescentConsistent
CHECK_DEADLOCK FALSE
