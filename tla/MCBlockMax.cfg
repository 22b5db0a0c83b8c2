CONSTANTS
  Docs <- MCDocs
  NumTerms = 3
  Queries <- LaggingBlock
  Plus <- ExactPlus
  Up <- ExactUp
  Finite <- AlwaysFinite
  BlockPostings = 2

SPECIFICATION Spec

INVARIANT RankingUnchanged

CHECK_DEADLOCK FALSE
