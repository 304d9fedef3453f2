SPECIFICATION Spec
CONSTANTS
  Requests = {r1, r2}
  Users = {u1, u2}
  Edits <- MCEdits
  Lists <- MCLists
  Unlisted = Unlisted
  None = None
INVARIANTS
  AnAdminRemains
CHECK_DEADLOCK FALSE
