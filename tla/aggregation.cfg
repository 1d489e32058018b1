SPECIFICATION MCSpec
CONSTANTS
  MaxSteps = 3
  MaxTokens = 7
  MaxFields = 4
  Headers <- SomeHeaders
  RawSteps <- SomeSteps
  Pods <- SomePods
  Orders <- SomeOrders
  Included = {"apps"}
  Configs <- SomeConfigs
  Vulnerable <- SomeVulnerabilities
  Posts <- SomePosts
  MaxFileBytes = 2
  MaxRunBytes = 4
  MaxRunFiles = 3
  CoreFields <- TwoCoreFields
  CustomNames = {"team", "stage", "status"}
  ReservedNames = {"status"}
INVARIANTS
  LoopIsWorstOf
  AcceptedIffAcyclic
  DependenciesFirst
  AcceptedIsRunnable
  JudgedTogether
  PassHidesNothing
  LastObjectFound
  SavedFormKeepsCore
PROPERTIES
  MoreFlagsNeverLowerRisk
  LimitsUnlessOverlapped
CHECK_DEADLOCK FALSE
