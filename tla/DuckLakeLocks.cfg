SPECIFICATION FairSpec
CONSTANTS
  Process = {ordersPublisher, refPublisher, bootstrap}
  orders = orders
  refTypes = refTypes
  refRegions = refRegions
  ordersObjects = ordersObjects
  refObjects = refObjects
  ordersScope = ordersScope
  refScope = refScope
  DataTable = {orders, refTypes, refRegions}
  ProvenanceTable = {ordersObjects, refObjects}
  Scope = {ordersScope, refScope}
  ScopeData <- MCScopeData
  ScopeProvenance <- MCScopeProvenance
  Migration = migration
  NameOrder <- MCNameOrder
  MayDrop = {refPublisher}
INVARIANTS TypeOK TokenProvesLocks ExclusiveCover NoWaitCycle
PROPERTIES WaitsEnd ImplementsLockService
