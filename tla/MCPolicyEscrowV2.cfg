SPECIFICATION Spec
CONSTANTS
  None = None
  Owner = owner
  Accounts = {owner, s1}
  Signers = {s1}
  Places = {d1, d2}
  Assets = {x1}
  Amounts <- MCAmounts
  Limits <- MCLimits
  MaxAllowlist = 1
  MaxI128 = 3
  MaxU64 = 3
  Horizon = 1
  MaxGrants = 2
  Supply = 2
INVARIANT TypeOK
INVARIANT ReceiptsAddUp
INVARIANT PaidWithinGrants
PROPERTY AllowanceSpec
CHECK_DEADLOCK FALSE
