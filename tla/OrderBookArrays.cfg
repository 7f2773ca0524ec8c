SPECIFICATION Spec
CONSTANTS
  Incoming <- Orders6
  States <- UnsortedStates
  MaxMatches = 3
INVARIANTS
  ArraysSorted
PROPERTIES
  OrderBookSpec
