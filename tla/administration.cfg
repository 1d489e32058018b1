SPECIFICATION Spec
CONSTANTS
  Names = {"ann", "bob", "cyd"}
  FirstAdmin = "ann"
  GivenRoles = {"requester", "admin"}
  MaxCalls = 2
  Columns = {"require", "block"}
  Values = {TRUE, FALSE}
  Default = FALSE
  Savers = {"s1", "s2"}
  MaxRows = 3
  MaxHostCalls = 2
  Ids = {1, 2}
  Kubeconfigs = {"old", "new"}
  Contexts = {"ctx"}
  Works <- SomeWork
INVARIANTS
  AnAdminRemains
  EffectiveAsSaved
  HostsSettle
CHECK_DEADLOCK FALSE
