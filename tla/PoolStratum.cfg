SPECIFICATION Spec
CONSTANTS
  Protocol = "stratum"
  Branches = {0}
  Starts = {0}
  Sparse = {}
  Repeats = TRUE
  LaneSize = 4
  NoJob = NoJob
  MaxJobs = 3
  MaxWire = 2
  MaxUpsets = 1
  ShareNonces = {0, 2}
  SliceLen = 2
  MaxShares = 0
  NonceCap = 2
  MaxSwitches = 0
INVARIANTS
  TypeOK
  AtMostOnce
  OnceWhenCalm
