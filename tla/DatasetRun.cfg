SPECIFICATION Spec
CONSTANTS
  N = 2
  Workers = {1, 2}
  MaxFaults = 3
INVARIANTS TypeOK PublishedOnce NothingLeftBehind
PROPERTY WholeScopes
