SPECIFICATION Spec
CONSTANTS
  s1 = s1
  s2 = s2
  a = a
  b = b
  Slots = {s1, s2}
  Texts = {a, b}
  SeedText = a
  MaxId = 2
  MaxVersion = 2
  MaxRuns = 1
  Sqlite = FALSE
  OneEditor = TRUE
  MayCrash = TRUE
INVARIANTS TypeOK AtMostOneDefault VersionIdentifiesDefinition
PROPERTY EditsAreNotUndone
SYMMETRY Symmetric
CHECK_DEADLOCK FALSE
