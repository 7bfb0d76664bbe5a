\* Writers that die half-way, a reader in between, and every run of what loads.
SPECIFICATION FixtureSpec
CONSTANTS
  NaNs = {}
  Configs <- MCConfigs
  Distance <- MCDistance
  Draw <- MCDraw
  CategoryWidth = 2
  SiftDirs <- MCSiftDirs
  SiftAnswer <- MCSiftAnswer
  Err = Err
  Missing = Missing
  Idle = Idle
  None = None
  MaxWrites = 2
  HarnessConfigs <- MCHarnessConfigs
  Latencies <- MCLatencies
  Panic = Panic
  MaxRunTopK = 3
INVARIANTS
  FixtureTypeOK
  WholeFixtureLoads
  OnlyWholeFilesLoad
  RunsStayInBounds
  FilteredRecallIsFull
  OnlySlowRunsFail
\* The processes end.
CHECK_DEADLOCK FALSE
