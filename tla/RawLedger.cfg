SPECIFICATION FairSpec
CONSTANTS
  Process = {p, q}
  Object = {o1, o2}
  Content = {a}
  None = None
  MaxVersions = 2
  MaxFaults = 1
INVARIANTS TypeOK NoVersionConflict NeverCorrupt NoWaitCycle TablesCreatedOnce
PROPERTIES ImplementsVersionLog TransactionsEnd
