SPECIFICATION Spec
CONSTANTS
  c1 = c1
  c2 = c2
  t1 = t1
  t2 = t2
  Creators = {c1, c2}
  Tearers = {t1, t2}
  MaxEnvs = 2
  OneCreator = TRUE
  Patient = FALSE
  HostMayGo = FALSE
  MayCrash = FALSE
PROPERTY TornDownIsFinal

CHECK_DEADLOCK FALSE
