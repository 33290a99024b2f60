SPECIFICATION Spec
CONSTANTS
  None = None
  Resources = {r1, r2}
  Challenges = {c1, c2}
  Requests = {q1, q2}
  Keep = 1
  Page = 1
  Lifetime = 2
CHECK_DEADLOCK FALSE
SYMMETRY MCSymmetry
INVARIANT TypeOK
INVARIANT SignedAsConfirmed
INVARIANT ChargeBuysOneReport
INVARIANT ReceiptsArePaid
INVARIANT ListOutlivesRecords
