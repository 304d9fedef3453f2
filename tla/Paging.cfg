SPECIFICATION Spec
CONSTANTS
  Users <- MCUsers
  Clients = {c1}
  Limit = 2
INVARIANTS
  TypeOK
  WalkComplete
  NextPageNotEmpty
  RepeatsOnlyAfterCreate
