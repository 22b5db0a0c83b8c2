SPECIFICATION InterchangeSpec
CONSTANTS
  Fields <- MCFields
  Terms <- MCTerms
  MaxInt = 3
  DefaultLimits <- MCDefaultLimits
  Average <- MCAverage
  Impact <- MCImpact
  Limits <- MCLimits
  Documents <- MCDocuments
  MaxDocuments = 2
  Foreign <- MCForeign
  Requests <- MCRequests
  MaxEdits = 1
  Contents <- MCContents
  Inodes = {f, g}
  Directory = dir
  Relevance <- MCRelevance
  Member <- MCMember
  MaxCollection = 2
  MaxFields = 2
  MaxRecord = 14
  MaxInput = 27
  MaxTopics = 20
  MaxQrels = 16
  MaxQrelsLine = 5
  MaxWrites = 2
  MaxClock = 1
SYMMETRY InodeSymmetry
INVARIANT WrittenReadsBack
INVARIANT NoDanglingPosting
INVARIANT AnswersAsCollection
INVARIANT ParsedAsWritten
INVARIANT OneSnapshot
CHECK_DEADLOCK FALSE
