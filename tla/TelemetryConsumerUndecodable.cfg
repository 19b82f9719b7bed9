SPECIFICATION Spec
CONSTANTS
  Kinds = {"event", "undecodable"}
  MaxMessages = 2
  MaxRestarts = 0
INVARIANTS
  OnlyStopEndsRun
CHECK_DEADLOCK FALSE
