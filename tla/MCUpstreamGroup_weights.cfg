SPECIFICATION Spec
CONSTANTS
  s1 = s1
  s2 = s2
  w1 = w1
  w2 = w2
  Workers = {w1, w2}
  Servers = {s1, s2}
  Weights <- PlainWeights
  MaxGroups = 2
  MaxDirectives = 2
SYMMETRY Interchangeable
INVARIANTS
  WeightedRoundRobin
