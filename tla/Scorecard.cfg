SPECIFICATION CardSpec
CONSTANTS
  None = None
  Ids = {e1, e2, e3, e4}
  Alphabet <- MCAlphabet
  Baselines <- MCBaselines
  Marks <- MCMarks
  Similarities <- MCSimilarities
  Clusters <- MCClusters
  MaxVelocity = 2
  MedianRecovery = 2
  K = 3
  MaxInputs = 4
SYMMETRY IdSymmetry
INVARIANTS
  CardTypeOK
  ArrivalOrderIsIrrelevant
  GraphAccountsForEvents
  StyleFollowsNeighbours
PROPERTY BetterWorkScoresNoLess
CHECK_DEADLOCK FALSE
