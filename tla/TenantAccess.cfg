SPECIFICATION Spec
CONSTANTS
  Requests = {r1, r2}
  Conns = {c1, c2}
  Tenants = {a, b}
  Rows = {i1, i2, i3}
  Malformed = Malformed
  Empty = Empty
  Unwritten = Unwritten
  None = None
SYMMETRY Symmetry
INVARIANTS
  FailClosed
  OnlyOwnRows
PROPERTIES
  ImplementsStores
  WritesStayHome
