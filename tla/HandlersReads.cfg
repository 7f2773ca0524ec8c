SPECIFICATION Spec
CONSTANTS
  Rids <- ThreeRids
  Payloads <- SyncAndRead
  Me = "server"
  Free = Free
INVARIANTS
  ReadsSucceed
CHECK_DEADLOCK FALSE
