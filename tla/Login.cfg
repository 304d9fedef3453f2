SPECIFICATION LoginSpec
CONSTANTS
  Requests = {r1, r2}
  asStored = asStored
  otherCase = otherCase
  otherHeader = otherHeader
  k1 = k1
  k2 = k2
  u1 = u1
  Attempts = {asStored, otherCase, otherHeader}
  Keys = {k1, k2}
  KeyOf <- Identity
  Users = {u1}
  Account <- OneAccount
  MaxAttempts = 2
  LockoutSeconds = 2
  MaxResends = 1
  Families = {f1}
  Tokens = {t1, t2}
  Lifetime = 1
  MaxTime = 0
  None = None
CONSTRAINTS
  OneCounter
  CountersOrRefresh
SYMMETRY Symmetry
INVARIANTS
  LoginTypeOK
  GuessesBounded
PROPERTIES
  ImplementsThrottle
  ImplementsTokens
