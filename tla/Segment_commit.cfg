\* One Segment written by a careful caller, with failing writes and crashes.
SPECIFICATION Spec
CONSTANTS
  Ids = {s1}
  Vectors = {v1, v2}
  MaxRows = 3
  Careful = TRUE
  Torn = Torn
  NoFile = NoFile
  NoWriter = NoWriter
  NoHeader = NoHeader
  Garbage = Garbage
  NoSegment = NoSegment
INVARIANTS
  TypeOK
  CommittedOrAbsent
PROPERTY
  ImplementsCatalog
\* A tmp left by a crash or a dropped writer blocks its id: the system may stop.
CHECK_DEADLOCK FALSE
