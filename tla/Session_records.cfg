SPECIFICATION Spec
CONSTANTS
  Tests <- TwoTests
  Reruns = 1
INVARIANT NoSilentDrop
