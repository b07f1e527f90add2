SPECIFICATION FairSpec
CONSTANTS
  BufSize = 3
  StatusLen = 2
  IntMax = 5
  MaxTransfer = 4
  MaxLen = 6
  MaxInterrupts = 1
  Cases = {"clientReset", "recvFails", "upstreamReset", "sslFails", "fileShrinks", "interrupted"}
INVARIANTS
  TypeOK
  InOrder
  PassedOn
  AllDelivered
  WholeIfArrived
  DeathsExplained
PROPERTIES
  RequestEnds
