SPECIFICATION FairSpec
CONSTANTS
  Hotels <- OneHotel
  Seeders = {s1, s2}
  MaxEdits = 2
  None = None
INVARIANTS
  TypeOK
  ReferencesResolve
  DefaultsMatchRole
PROPERTY
  SeedCompletes
