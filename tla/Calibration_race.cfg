\* A calibration while rows are appended and the index is rebuilt or removed.
SPECIFICATION CalibrationSpec
CONSTANTS
  NaNs = {}
  MaxTopK = 1000
  Dimension = 8
  Distance <- MCDistance
  Reaches <- MCReaches
  Vectors <- MCVectors
  Batches <- MCBatches
  Params <- MCParams
  TopKs = {0, 2, 100}
  SAMPLE_QUERIES = 2
  MAX_ROWS = 3
  EpsilonNum = 1
  EpsilonDen = 100
  Nothing = Nothing
  Refused = Refused
  MaxWrites = 2
  MaxBuilds = 2
INVARIANTS
  CalibrationTypeOK
  SelectedMeetsParity
\* The callers may stop calling.
CHECK_DEADLOCK FALSE
