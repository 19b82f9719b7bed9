SPECIFICATION Spec
CONSTANTS
  Kinds = {"event"}
  MaxMessages = 2
  MaxRestarts = 1
INVARIANTS
  RaisedAwaitsReprocessing
CHECK_DEADLOCK FALSE
