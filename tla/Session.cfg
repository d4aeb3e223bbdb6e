SPECIFICATION FairSpec
CONSTANTS
  Room = 2
  MaxUpsets = 2
  MaxReports = 1
  Switches = {c1}
INVARIANTS
  TypeOK
  HandshakeWhole
  SessionAgreed
PROPERTIES
  ReportsCurrent
  BackInLoop
CHECK_DEADLOCK FALSE
