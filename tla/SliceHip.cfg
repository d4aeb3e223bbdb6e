SPECIFICATION Spec
CONSTANTS
  NumGpus = 1
  Backend = "hip"
  Nonces = {1, 2, 3, 4, 5, 6, 7}
  BlockNonces = {}
  First = 1
  Length = 7
  BatchSize = 2
  MaxResults = 2
  Faults = {"error", "crash"}
  MaxFaults = 2
  None = None
INVARIANTS
  EveryShareHanded
PROPERTIES
  Lossless
CHECK_DEADLOCK FALSE
