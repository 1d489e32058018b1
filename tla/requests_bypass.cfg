SPECIFICATION Spec
CONSTANTS
  Users <- MCUsers
  Owner = "own"
  RoleOf <- MCRoleOf
  Payloads = {"p1", "p2", "bad"}
  ValidPayloads = {"p1", "p2"}
  RiskOf <- MCRiskOf
  NoRisk = "unrated"
  Policies <- OnlyDefaultPolicy
  Slots = {1}
  MaxCalls = 2
  MaxRuns = 0
  Serial = TRUE
  StopsAt = {}
INVARIANT SubmittedHasRisk
CHECK_DEADLOCK FALSE
