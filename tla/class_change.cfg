CONSTANTS
  NoSecret = NoSecret
  NoJob = NoJob
  Lagging <- NoLag
  MaxVersion <- TwoClasses
  MaxContent = 1
  Budget <- NoTrouble
  BackoffLimit = 1
SPECIFICATION Spec
INVARIANT QuiescentClassConsistent
