SPECIFICATION Spec
CONSTANTS
  Conns = {c1, c2, c3}
  c1 = c1
  c2 = c2
  c3 = c3
  None = None
  MaxFd = 4
  MaxSsls = 3
  Cases = {"upstreamReset"}
SYMMETRY ConnSymmetry
INVARIANTS
  LookupOwn
