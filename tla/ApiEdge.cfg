SPECIFICATION EdgeSpec
CONSTANTS
  Tenants = {t1, t2}
  Limit = 2
  Window = 2
  MaxTime = 5
  Connections = {c1, c2}
  Paths = {"DELTA", "delta"}
  MaxMessages = 2
  MaxRestarts = 1
INVARIANTS
  NoBurst
  SharedHistoryIsSound
  AnsweredIsRemembered
PROPERTIES
  RejectionIsFair
  MessagesSettleOnce
CHECK_DEADLOCK FALSE
