SPECIFICATION Spec
CONSTANTS
  Users = {u1}
  Tokens = {t1, t2}
  Issuers = {r1}
  Lifetime = 2
  None = None
SYMMETRY Symmetry
INVARIANTS
  StaleRightEnds
  StrangersLearnNothing
  NoForeignTenant
  AnswersTraceable
