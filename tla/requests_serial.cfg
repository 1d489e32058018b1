SPECIFICATION Spec
CONSTANTS
  Users <- MCUsers
  Owner = "own"
  RoleOf <- MCRoleOf
  Payloads = {"p1", "p2", "bad"}
  ValidPayloads = {"p1", "p2"}
  RiskOf <- MCRiskOf
  NoRisk = "unrated"
  Policies <- MCPolicies
  Slots = {1}
  MaxCalls = 3
  MaxRuns = 1
  Serial = TRUE
  StopsAt <- Elsewhere
INVARIANTS TypeOK HistoryExplainsStatus
PROPERTIES ImplementsLifecycle ApprovalRespectsGate
CHECK_DEADLOCK FALSE
