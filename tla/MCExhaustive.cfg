CONSTANTS
  Docs <- MCDocs
  NumTerms = 2
  Queries <- MCQuerySet
  Plus <- ExactPlus
  Up <- ExactUp
  Finite <- MCFinite
  BlockPostings = 2
  Fields <- MCFields
  Analyzed <- MCAnalyzed
  Contribution <- MCContribution
  Default <- MCDefault
  MaxBoost = 3
  Quantizer <- MCQuantizer
  MaxQuantizedTerms = 2
  Searches <- MCSearches

SPECIFICATION PreparedSpec

INVARIANT TypeOK
INVARIANT HeapIsBestSoFar
INVARIANT AnswersAsWritten
INVARIANT BoundsBelong
PROPERTY ImplementsRetrieval

CHECK_DEADLOCK FALSE
