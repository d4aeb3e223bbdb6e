SPECIFICATION FairSpec
CONSTANTS
  MaxMoves = 2
  MaxErrors = 2
  Bodies <- MCBodies
  FeeBps = 200
  Offers <- MCOffers
  V2Height = 2
  V3Height = 3
  NoMtp = NoMtp
  NoTemplate = NoTemplate
INVARIANTS
  TypeOK
  BlockAssembles
  PaysInFull
PROPERTIES
  Converges
