SPECIFICATION FairSpec
CONSTANTS
  Protocol = "stratum"
  Branches = {0}
  Starts = {0}
  Sparse = {}
  Repeats = TRUE
  LaneSize = 4
  NoJob = NoJob
  MaxJobs = 2
  MaxWire = 2
  MaxUpsets = 2
  ShareNonces = {0}
  SliceLen = 2
  MaxShares = 1
  NonceCap = 1
  MaxSwitches = 2
INVARIANTS
  DevOnlyInFeeSlice
  NoAnswerLost
PROPERTIES
  Converges
  SharesSettle
  SwitchesSettle
