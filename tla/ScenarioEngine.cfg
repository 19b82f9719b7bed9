SPECIFICATION FairSpec
CONSTANTS
  Sessions = {s1, s2}
  Provisions = {p1, p2}
  Teardowns = {t1, t2}
  NoSession = NoSession
  NoRun = NoRun
INVARIANTS
  SuccessIsTrue
PROPERTIES
  ArchivedByItsCloser
  RunsAndSessionsEnd
CHECK_DEADLOCK FALSE
