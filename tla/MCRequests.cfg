SPECIFICATION Spec
CONSTANTS
  Workers = {w1, w2}
  MaxEntries = 2
  MaxNodes = 4
  Sites <- MCSites
  Inputs <- MCInputs
  MaxPathLen = 4
  MaxRequests = 2
SYMMETRY WorkerSymmetry
INVARIANTS
  TypeOK
  AnsweredOnce
  OwnFallback
  ListingExact
  DeathExplained
  NothingLeft
  RightServer
