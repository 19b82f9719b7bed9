SPECIFICATION AssemblySpec
CONSTANTS
  None = None
  Runs = {r1, r2}
  Recorded <- MCRecorded
  BatchSize = 2
  ScrollLimit = 3
  Exports <- MCExports
  MaxVelocity = 2
  MedianRecovery = 2
  K = 3
  Deliveries = {d1, d2}
  Hooks = {h1, h2}
  NoHook = NoHook
  MaxAttempts = 2
INVARIANTS
  CleanEtlIsComplete
  StyleHasASource
  GraphIsOfItsRun
  CopiesAreExplained
PROPERTIES
  RerunsSeeNoLess
  EveryHookSettlesOnce
CHECK_DEADLOCK FALSE
