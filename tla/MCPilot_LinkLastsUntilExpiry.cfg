SPECIFICATION Spec
CONSTANTS
  None = None
  Requests = {r1}
  Keys = {k1}
  Agents = {a1, a2}
  Approvers = {h1}
  Buyers = {b1}
  ApprovalTTL = 2
  ClaimTTL = 1
  MaxAttempts = 2
  Horizon = 2
  MaxVersion = 3
  MaxClaims = 1
  CompleteAttempts = 2
CHECK_DEADLOCK FALSE
INVARIANT LinkLastsUntilExpiry
