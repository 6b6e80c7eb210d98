SPECIFICATION McuSpec
CONSTANTS
  Probes <- AllProbes
INVARIANT PowerAgrees
INVARIANT HalfNotExecuted
