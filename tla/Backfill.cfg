SPECIFICATION FairSpec
CONSTANTS
  Datasets = {"everef market-orders", "everef references"}
  Catalogs <- MCCatalogs
  Ranges <- MCRanges
  Settings <- MCSettings
  MaxFaults = 1
INVARIANTS TypeOK TasksGoThrough BootstrapCompletes
PROPERTIES BootstrapHeals
