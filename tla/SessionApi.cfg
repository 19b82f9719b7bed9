SPECIFICATION FairSpec
CONSTANTS
  Sessions = {s1, s2}
  MaxRestarts = 1
INVARIANTS
  EndNoticeIsTrue
  RunningIsGuarded
PROPERTIES
  RowFollowsRecord
  AnsweredSessionsEnd
  ImplementsPromise
CHECK_DEADLOCK FALSE
