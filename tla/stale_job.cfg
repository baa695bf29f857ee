CONSTANTS
  NoSecret = NoSecret
  NoJob = NoJob
  Lagging <- JobLag
  MaxVersion <- TwoTopics
  MaxContent = 1
  Budget <- NoTrouble
  BackoffLimit = 1
SPECIFICATION Spec
INVARIANT UpToDateJobsAre
