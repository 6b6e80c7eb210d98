SPECIFICATION Spec
CONSTANTS
  w1 = w1
  w2 = w2
  Workers <- TwoWorkers
  Attempts = 2
  MaxKills = 1
  MaxUart = 1
  Casts <- AllCasts
SYMMETRY Symmetry
INVARIANT OneWriter
INVARIANT OkMeansWritten
