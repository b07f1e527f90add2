SPECIFICATION FairSpec
CONSTANTS
  Conns = {c1, c2}
  c1 = c1
  c2 = c2
  None = None
  MaxFd = 3
  MaxSsls = 3
  Cases = {"upstreamReset", "threadLimit", "peerGone", "tryProxyIndex"}
INVARIANTS
  SharedAlive
PROPERTIES
  ConnectionCompletes
