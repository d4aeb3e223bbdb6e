SPECIFICATION FairSpec
CONSTANTS
  ProbeLimit = 2
  Machines <- TwoCards
  Configs <- MCConfigs
  Sizes <- MCSizes
  DefaultSize = 4
  Rates = {100, 102, 103}
INVARIANTS
  TypeOK
  SavedIsUsed
  AllMine
PROPERTIES
  ReportsKnown
  StartEnds
