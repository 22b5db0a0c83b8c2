SPECIFICATION FilesSpec
CONSTANTS
  Ids = {a, b, c, d}
  Terms <- MCTerms
  Documents <- MCDocuments
  Requests <- MCRequests
  Impact <- MCImpact
  ShardCounts = {1, 2, 3}
  MaxDocuments = 4
  MaxLength = 3
  Collections <- MCCollections
  MaxShards = 2
  SavedShardCounts = {1, 2}
  BlockPostings = 2
  MaxItems = 8
  MaxStreams = 5
  MaxBlock = 2
  MaxPayload = 80
  MaxShard = 70
  MaxContainer = 120
  MaxDamages = 1
SYMMETRY IdSymmetry
INVARIANT BuiltIsLoadable
INVARIANT CandidatesSuffice
INVARIANT WholeOrRefused
PROPERTY ImplementsCollection
CHECK_DEADLOCK FALSE
