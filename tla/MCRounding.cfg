CONSTANTS
  Docs <- MCDocs
  NumTerms = 11
  Queries <- MCQuerySet
  Plus <- RoundedPlus
  Up <- NextUp
  Finite <- AlwaysFinite
  BlockPostings = 64

SPECIFICATION Spec

PROPERTY ImplementsRetrieval

CHECK_DEADLOCK FALSE
