SPECIFICATION BothSpec
CONSTANTS
  Sessions = {s1, s2}
  Readers = {r1}
  MaxWrites = 2
  MaxRuns = 1
  MaxRestarts = 1
  TenantPurges = TRUE
  Injections = {i1, i2}
  Producers = {TRUE, FALSE}
  Trigger = 1
  MedianRecovery = 2
  MaxTime = 4
  ActionTypes = {"CODE_EXECUTED"}
  MaxActions = 2
SYMMETRY Symmetry
INVARIANTS
  StoreTypeOK
  ListedIsPurged
  GivenOutIsStored
  NoFaultBeforeTrigger
  ScoreIgnoresArrivalOrder
PROPERTIES
  TablesShrinkOnlyAtCommit
  MarkerPrecedesFault
  ActingNeverLowersScore
CHECK_DEADLOCK FALSE
