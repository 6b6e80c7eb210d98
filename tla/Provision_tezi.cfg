SPECIFICATION Spec
CONSTANTS
  w1 = w1
  w2 = w2
  Workers <- TwoWorkers
  Attempts = 2
  MaxKills = 0
  MaxUart = 1
  Casts <- Installing
SYMMETRY Symmetry
INVARIANT TrueMeansInstalled

