SPECIFICATION FairSpec
CONSTANTS
  Requests = {r1, r2}
  Users = {u1}
  Families = {f1}
  Tokens = {t1, t2, t3}
  Lifetime = 2
  MaxTime = 2
  MayFail = FALSE
  None = None
PROPERTIES
  ReuseRevokesFamily
