SPECIFICATION FairSpec
CONSTANTS
  c1 = c1
  c2 = c2
  m1 = m1
  m2 = m2
  Clients <- TwoClients
  Runners <- OneRunner
  Monitors <- TwoMonitors
  MaxCmds = 2
  WireMax = 2
  TtyMax = 2
  WindowMax = 3
  Consoles <- Mixed
INVARIANT OwnExitCode
INVARIANT WholeLines
INVARIANT OneMonitor
PROPERTY PanicReported
PROPERTY RunsOnce
