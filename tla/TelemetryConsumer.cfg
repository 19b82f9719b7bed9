SPECIFICATION FairSpec
CONSTANTS
  Kinds = {"event", "malformed", "undecodable"}
  MaxMessages = 3
  MaxRestarts = 2
INVARIANTS
  CommittedWasAttempted
PROPERTIES
  OffsetNeverRegresses
  EveryMessageSettles
CHECK_DEADLOCK FALSE
