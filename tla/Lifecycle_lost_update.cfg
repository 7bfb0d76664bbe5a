\* One writer and the background job it spawned.
SPECIFICATION FairSpec
CONSTANTS
  v1 = v1
  v2 = v2
  Ids = {1, 2}
  Values <- MCValues
  Malformed = Malformed
  Absent = Absent
  TARGET_SEGMENT_ROWS = 2
  ChangeNum = 1
  ChangeDen = 100
  MinChangedRows = 3
  DeltaCountTrigger = 2
  PurgeNum = 1
  PurgeDen = 5
  MergeBatch = 2
  Writers = {w1}
  Backgrounds = {b1}
  Batches <- MCBatches
  MaxCalls = 3
  NoCall = NoCall
  NoDelta = NoDelta
  NoReport = NoReport
PROPERTY
  ImplementsVisibleTable
CHECK_DEADLOCK FALSE
