SPECIFICATION FairSpec
CONSTANTS
  Calls = {c1, c2}
  NoCall = NoCall
  Faults = {"exit", "hang", "wedge", "slow", "stuck", "missing"}
  MaxFaults = 3
INVARIANTS
  TypeOK
  OneDaemon
  Vouched
PROPERTIES
  OwnAnswers
  CallsEnd
  Recovers
CHECK_DEADLOCK FALSE
