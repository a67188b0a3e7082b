SPECIFICATION FairSpec
CONSTANTS
  Process = {p1, p2}
  o1 = o1
  o2 = o2
  day1 = day1
  day2 = day2
  Object = {o1, o2}
  Content = {good, bad}
  Unparsable = {bad}
  None = None
  ScopeOf <- TwoScopes
  Ranges <- EveryObject
  Revisable = {}
  MaxFaults = 1
PROPERTY EventuallyMarked
