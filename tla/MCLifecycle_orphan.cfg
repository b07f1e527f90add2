SPECIFICATION Spec
CONSTANTS
  Pids = {p1, p2, p3, p4}
  NoPid = NoPid
  PortLists <- SharedPorts
  WorkerCounts = {1}
  Cases = {"overlap"}
SYMMETRY PidSymmetry
INVARIANTS
  NoOrphans
