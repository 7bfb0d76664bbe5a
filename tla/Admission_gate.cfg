\* Four callers, two permits, no bound on the number of calls.
SPECIFICATION FairAdmissionSpec
CONSTANTS
  Callers = {c1, c2, c3, c4}
  Capacity = 2
INVARIANTS
  AdmissionTypeOK
  InFlightIsHolders
PROPERTIES
  ImplementsSemaphore
  LockFree
