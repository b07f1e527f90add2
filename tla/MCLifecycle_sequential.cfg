SPECIFICATION Spec
CONSTANTS
  Pids = {p1, p2, p3, p4, p5, p6}
  NoPid = NoPid
  PortLists <- SharedPorts
  WorkerCounts = {0, 1, 2}
  Cases = {"forkFails", "serverEnds"}
SYMMETRY PidSymmetry
INVARIANTS
  TypeOK
  PortsServed
  PidFileTrue
