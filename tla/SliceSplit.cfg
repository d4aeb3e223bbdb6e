SPECIFICATION Spec
CONSTANTS
  NumGpus = 2
  Backend = "hip"
  Nonces = {1, 2, 4, 5, 7}
  BlockNonces = {2, 4, 7}
  First = 1
  Length = 4
  BatchSize = 2
  MaxResults = 2
  Faults = {"init", "launch", "error", "crash"}
  MaxFaults = 2
  None = None
INVARIANTS
  TypeOK
  Partitioned
  LossExplained
CHECK_DEADLOCK FALSE
