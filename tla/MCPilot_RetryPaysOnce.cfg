SPECIFICATION Spec
CONSTANTS
  None = None
  Requests = {r1}
  Keys = {k1}
  Agents = {a1}
  Approvers = {h1}
  Buyers = {b1, b2}
  ApprovalTTL = 1
  ClaimTTL = 1
  MaxAttempts = 2
  Horizon = 2
  MaxVersion = 3
  MaxClaims = 2
  CompleteAttempts = 2
CHECK_DEADLOCK FALSE
INVARIANT RetryPaysOnce
