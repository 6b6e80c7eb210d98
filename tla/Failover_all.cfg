SPECIFICATION FairSpec
CONSTANTS
  c1 = c1
  c2 = c2
  k1 = k1
  t1 = t1
  t2 = t2
  Clients <- TwoClients
  Runners <- OneClient
  Cmds <- OneCmd
  Probers <- TwoProbers
  Upsets <- Everything
INVARIANT AtMostOnce
INVARIANT OneProber
PROPERTY ImplementsChannel
PROPERTY CallsReturn
PROPERTY FailsBack
