SPECIFICATION Spec
CONSTANTS
  Requests = {r1, r2, r3}
  Users = {u1}
  Families = {f1, f2}
  Tokens = {t1, t2, t3}
  Lifetime = 1
  MaxTime = 2
  MayFail = TRUE
  None = None
SYMMETRY Symmetry
INVARIANTS
  TypeOK
  OneTokenPerFamily
  SpentStaysDetectable
  AlarmIsJustified
PROPERTIES
  DeactivationStopsIssue
  ImplementsChain
