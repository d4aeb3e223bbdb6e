SPECIFICATION Spec
CONSTANTS
  Protocol = "luckypool"
  Branches = {0, 1}
  Starts <- LaneStarts
  Sparse <- SparseUpdates
  Repeats = FALSE
  LaneSize = 4
  NoJob = NoJob
  MaxJobs = 2
  MaxWire = 2
  MaxUpsets = 1
  ShareNonces = {4, 6}
  SliceLen = 2
  MaxShares = 0
  NonceCap = 6
  MaxSwitches = 0
INVARIANTS
  AtMostOnce
  Accounting
  NoAnswerLost
PROPERTIES
  NeverSubmitsStale
