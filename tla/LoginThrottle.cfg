SPECIFICATION FairSpec
CONSTANTS
  Requests = {r1, r2, r3}
  Keys = {k1}
  MaxAttempts = 3
  LockoutSeconds = 3
  MaxResends = 2
  None = None
INVARIANTS
  TypeOK
  FailuresBounded
  LockoutRunsFull
PROPERTY
  LockoutEnds
