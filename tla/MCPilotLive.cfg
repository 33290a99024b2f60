SPECIFICATION FairSpec
CONSTANTS
  None = None
  Requests = {r1}
  Keys = {k1}
  Agents = {a1}
  Approvers = {h1, h2}
  Buyers = {b1}
  ApprovalTTL = 1
  ClaimTTL = 1
  MaxAttempts = 2
  Horizon = 1
  MaxVersion = 2
  MaxClaims = 1
  CompleteAttempts = 2
CHECK_DEADLOCK FALSE
PROPERTY LifecycleSpec
PROPERTY CallsReturn
INVARIANT Inv
