\* Two ingests, a reindex or a query at once, with disconnects.
SPECIFICATION Spec
CONSTANTS
  Requests = {r1, r2, r3, r4}
  Specs <- MCSpecs
  None = None
  NoReply = NoReply
  Failed = Failed
  MaxTopK = 1000
INVARIANTS
  LockAgrees
  PublishedIsBuilt
PROPERTIES
  ImplementsRegister
  EveryRequestEnds
\* All requests may be done.
CHECK_DEADLOCK FALSE
