SPECIFICATION FairSpec
CONSTANTS
  Rids <- EightRids
  Payloads <- Mixed
  Me = "server"
  Free = Free
INVARIANTS
  TypeOK
  MutexPassedOn
PROPERTIES
  IllegalOnlyFromPeers
  ErrorsLoseOnlyFilled
  EveryRequestAnswered
CHECK_DEADLOCK FALSE
