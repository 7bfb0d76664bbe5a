\* A writer and two background jobs share the Lifecycle.
SPECIFICATION FairSpec
CONSTANTS
  v1 = v1
  v2 = v2
  Ids = {1, 2}
  Values <- MCValues
  Malformed = Malformed
  Absent = Absent
  TARGET_SEGMENT_ROWS = 2
  ChangeNum = 9
  ChangeDen = 10
  MinChangedRows = 2
  DeltaCountTrigger = 2
  PurgeNum = 1
  PurgeDen = 5
  MergeBatch = 2
  Writers = {w1}
  Backgrounds = {b1, b2}
  Batches <- MCBatches
  MaxCalls = 2
  NoCall = NoCall
  NoDelta = NoDelta
  NoReport = NoReport
INVARIANTS
  LineagesWellFormed
PROPERTIES
  StopJoins
  ArmedIsCompacted
\* The callers may stop calling and every job may be joined.
CHECK_DEADLOCK FALSE
