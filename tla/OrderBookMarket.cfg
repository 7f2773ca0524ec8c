SPECIFICATION FairSpec
CONSTANTS
  Incoming <- AllIncoming
  Snapshots <- MarketSnapshots
  MaxMatches = 2
INVARIANTS
  TypeOK
  BookUncrossed
  BookUniqueIds
  BookActive
  MatchesFair
  CallConsistent
  FillsConserve
PROPERTIES
  CallReturns
  PriceTimePriority
  LeavesOnlyWhenFilled
  LiveBookSpec
  AtomicBookSpec
