SPECIFICATION Spec
CONSTANTS
  Process = {p1, p2}
  o1 = o1
  o2 = o2
  day1 = day1
  day2 = day2
  Object = {o1, o2}
  Content = {first, second}
  Unparsable = {}
  None = None
  ScopeOf <- OneScope
  Ranges <- OverlappingRanges
  Revisable = {o1}
  MaxFaults = 1
INVARIANTS TypeOK ExactlyOnce MarkerImpliesIngested
PROPERTY ImplementsSnapshotCatalog
