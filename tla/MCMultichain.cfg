SPECIFICATION Spec
CONSTANTS
  None = None
  Bridges = {b1}
  Burns = {h1, h2}
  Approvals = {t1}
  Calls = {c1, c2}
  MaxAttempts = 2
  Payments = {p1, p2}
  Asks = {a1, a2, a3}
CHECK_DEADLOCK FALSE
SYMMETRY MCSymmetry
INVARIANT TypeOK
INVARIANT SettledIsVerified
INVARIANT OneReportPerPayment
INVARIANT SettlementsArePaid
PROPERTY BridgeLifecycleSpec
