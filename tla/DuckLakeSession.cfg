SPECIFICATION Spec
CONSTANTS
  Write = {w1, w2, w3}
  MaxDepth = 3
INVARIANTS TypeOK FlagMeansFailure NeverAutocommits
PROPERTY ImplementsAtomicTransaction
