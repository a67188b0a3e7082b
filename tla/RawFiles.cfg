SPECIFICATION FairSpec
CONSTANTS
  Downloader = {p1, p2}
  Object = {o1}
  Content = {first}
  None = None
  Snapshot = FALSE
  Retention = TRUE
  MaxStores = 2
  MaxFaults = 2
INVARIANTS TypeOK StoredFileStays
PROPERTIES OnlyOrphansGo OrphansGo
