SPECIFICATION FairSpec
CONSTANTS
  c1 = c1
  c2 = c2
  t1 = t1
  t2 = t2
  Creators = {c1, c2}
  Tearers = {t1}
  MaxEnvs = 2
  OneCreator = FALSE
  Patient = FALSE
  HostMayGo = FALSE
  MayCrash = FALSE
INVARIANTS TypeOK HistoryAccountsForRows ReadyIsLive
PROPERTY ProvisioningEnds
CHECK_DEADLOCK FALSE
