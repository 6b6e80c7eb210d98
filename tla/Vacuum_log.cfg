SPECIFICATION FairSpec
CONSTANTS
  MaxRuns = 2
  MaxLines = 2
  MaxConsole = 1
INVARIANT NothingSkipped
INVARIANT FreshLog
PROPERTY RunReturns
