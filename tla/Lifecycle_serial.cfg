\* One writer that also compacts, no background job: the contract of ADR 0005.
SPECIFICATION Spec
CONSTANTS
  v1 = v1
  v2 = v2
  Ids = {1, 2}
  Values <- MCValues
  Malformed = Malformed
  Absent = Absent
  TARGET_SEGMENT_ROWS = 2
  ChangeNum = 1
  ChangeDen = 100
  MinChangedRows = 3
  DeltaCountTrigger = 2
  PurgeNum = 1
  PurgeDen = 5
  MergeBatch = 2
  Writers = {w1}
  Backgrounds = {}
  Batches <- MCBatches
  MaxCalls = 5
  NoCall = NoCall
  NoDelta = NoDelta
  NoReport = NoReport
INVARIANTS
  TypeOK
  MergeIsExact
PROPERTY
  ImplementsVisibleTable
\* The callers may stop calling: the history is bounded by MaxCalls.
CHECK_DEADLOCK FALSE
