CONSTANTS
  Docs <- MCDocs
  NumTerms = 3
  Queries <- MCQuerySet
  Plus <- ExactPlus
  Up <- ExactUp
  Finite <- AlwaysFinite
  BlockPostings = 2

SPECIFICATION Spec

INVARIANT PrunedCannotWin
INVARIANT WorkIsAccounted
PROPERTY EveryTurnAdvances
PROPERTY ImplementsRetrieval

CHECK_DEADLOCK FALSE
