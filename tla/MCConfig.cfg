SPECIFICATION Spec
CONSTANTS
  PortNums = {443, 8080}
  Names = {n1, n2}
  Uris = {u1, u2}
  Paths = {p1, p2}
  Vocabularies <- MCVocabularies
  MaxServers = 2
  MaxLocations = 2
  MaxInLocation = 2
  MaxItems = 2
SYMMETRY Interchangeable
INVARIANTS
  TypeOK
  PortsConsistent
  
  TargetKnown
  LogsShared
  UndefinedExplained
