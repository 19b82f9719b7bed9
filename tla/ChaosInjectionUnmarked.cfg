SPECIFICATION ChaosSpec
CONSTANTS
  Injections = {r1}
  Producers = {FALSE}
  Trigger = 1
  MedianRecovery = 2
  MaxTime = 3
  ActionTypes = {"CODE_EXECUTED"}
  MaxActions = 2
INVARIANT FaultIsMarked
CHECK_DEADLOCK FALSE
