SPECIFICATION Spec
CONSTANTS
  Conns = {c1, c2, c3}
  c1 = c1
  c2 = c2
  c3 = c3
  None = None
  MaxFd = 4
  MaxSsls = 3
  Cases = {"peerGone"}
SYMMETRY ConnSymmetry
INVARIANTS
  TypeOK
  NoStrayFd
  ListDescriptors
  LookupOwn
  StructAlive
  Accounting
PROPERTIES
  CloseOwn
  ImplementsConnectionTable
