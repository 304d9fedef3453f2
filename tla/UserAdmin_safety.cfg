SPECIFICATION Spec
CONSTANTS
  Requests = {r1, r2}
  Users = {u1, u2}
  Edits <- MCEdits
  Lists <- MCLists
  Unlisted = Unlisted
  None = None
SYMMETRY Symmetry
INVARIANTS
  TypeOK
  PermissionsFollowRole
PROPERTIES
  LastAdminKept
  OwnAccountKept
CHECK_DEADLOCK FALSE
