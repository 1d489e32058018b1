SPECIFICATION ApprovalsSpec
CONSTANTS
  Users <- TwoUsers
  Owner = "own"
  RoleOf <- TwoRoles
  Payloads = {"p1"}
  ValidPayloads = {"p1"}
  RiskOf <- OneRisk
  NoRisk = "unrated"
  Policies <- TwoPolicies
  Slots = {s1, s2}
  MaxCalls = 3
  MaxRuns = 1
  Serial = FALSE
  StopsAt <- Steps
SYMMETRY SlotSymmetry
INVARIANT AcknowledgedIsRecorded
PROPERTY ApprovalIsAccountedFor
CHECK_DEADLOCK FALSE
