\* Every request of every Delta reached by up to MaxCalls writes and merges.
SPECIFICATION Spec
CONSTANTS
  v1 = v1
  v2 = v2
  v3 = v3
  q1 = q1
  q2 = q2
  Ids = {1, 2}
  Values <- MCValues
  Malformed = Malformed
  Absent = Absent
  Batches <- MCBatches
  NoCall = NoCall
  TARGET_SEGMENT_ROWS = 2
  ChangeNum = 1
  ChangeDen = 100
  MinChangedRows = 3
  DeltaCountTrigger = 2
  PurgeNum = 1
  PurgeDen = 5
  MergeBatch = 2
  NaNs <- MCNaNs
  BadNames = {}
  Refused = Refused
  Queries = {q1, q2}
  Misfit = Misfit
  Score <- MCScore
  Meta <- MCMeta
  Schema <- MCSchema
  Nodes <- MCNodes
  NoPredicate = NoPredicate
  MaxTopK = 2
  MaxCalls = 4
INVARIANTS
  SearchIsNewestVisible
  OracleAgreesUntilDelete
  ProfileCountsSearch
  InspectorMatchesProfile
  PredicatesPartition
  UpdateReplaces
\* The callers may stop calling.
CHECK_DEADLOCK FALSE
