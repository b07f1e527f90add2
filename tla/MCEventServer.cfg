SPECIFICATION FairSpec
CONSTANTS
  Conns = {c1, c2, c3}
  None = None
  MaxFd = 2
  MaxEvents = 2
  Cases = {"peerReset"}
INVARIANTS
  TypeOK
  NoStaleEvent
  ListMatchesSockets
PROPERTIES
  ImplementsConnectionTable
  RequestsAnswered
