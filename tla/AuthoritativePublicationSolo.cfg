SPECIFICATION FairSpec
CONSTANTS
  Process = {p1}
  o1 = o1
  o2 = o2
  o3 = o3
  day1 = day1
  day2 = day2
  first = first
  second = second
  bad = bad
  types = types
  groups = groups
  Object = {o1, o2, o3}
  Content = {first, second, bad}
  Table = {types}
  Writes <- OneTable
  Unparsable = {bad}
  None = None
  ScopeOf <- TwoScopes
  Served <- OneUnreadable
  MaxFaults = 2
INVARIANT AcceptedTruthVisible
PROPERTY EventuallyCurrent
