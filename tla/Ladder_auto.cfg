\* Two callers and the rows at which each choice and disposition begins.
SPECIFICATION FairSpec
CONSTANTS
  Callers = {c1, c2}
  Override = "Auto"
  ExhaustiveMax = 1
  BackgroundMin = 2
  HnswMax = 3
  MaxRows = 3
  NoIndex = NoIndex
INVARIANTS
  TypeOK
  OneBackgroundBuild
  FailedHasReason
  IvfPqIsTrained
PROPERTY
  BuildSettles
