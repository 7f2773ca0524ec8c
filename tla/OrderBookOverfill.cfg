SPECIFICATION OnceSpec
CONSTANTS
  Incoming <- PartialFills
  Snapshots <- NoSnapshots
  MaxMatches = 3
INVARIANTS
  NeverOverfilled
CHECK_DEADLOCK FALSE
