CONSTANTS
  MaxEntries = 4
  MaxByte = 2
  Keys = {"mqtt", "settings", "third", "broker", "port", "long"}
  LongKeys = {"long"}
  NoKey = NoKey
  Inputs <- SmallInputs
  MaxBlobSize <- SmallLimits
SPECIFICATION Spec
INVARIANT TypeOK PagesFit ImageFillsPartition DecryptRecovers
PROPERTY ImplementsNvsStore
CHECK_DEADLOCK FALSE
