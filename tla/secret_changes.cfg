CONSTANTS
  NoSecret = NoSecret
  NoJob = NoJob
  Lagging <- AllLag
  MaxVersion <- Created
  MaxContent = 2
  Budget <- EditAndFailure
  BackoffLimit = 1
SPECIFICATION SeeingSpec
INVARIANT QuiescentConsistent
CHECK_DEADLOCK FALSE
