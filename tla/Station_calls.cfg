SPECIFICATION Spec
CONSTANTS
  i1 = i1
  i2 = i2
  b1 = b1
  c1 = c1
  c2 = c2
  Ids <- TwoIds
  Benches <- OneBench
  Callers <- TwoCallers
  Tools <- Representatives
  MaxSessions = 2
SYMMETRY Symmetry
INVARIANT RegisteredIsLive
INVARIANT OutputHasOwner
