SPECIFICATION Spec
CONSTANTS
  None = None
  Signers = {s1, s2}
  Payees = {merchant}
  Assets = {usdc}
  Merchant = merchant
  USDC = usdc
  MaxEntries = 1
  MaxLimit = 3
  Funding = {3}
  PerPayment = 1
  TotalLimit = 2
  Requests = {q1, q2}
  Wallets = {u1}
  Agents = {a1}
  Fixtures = {u1}
  Repeats = {p1}
  Submits = {u1, a1, p1}
  Deploys = {d1, d2}
  Ceremonies = {k1}
  SessionTTL = 2
  RequestTTL = 1
  SignatureTTL = 1
  TxTimeout = 1
  CeremonyTTL = 1
  Horizon = 2
CHECK_DEADLOCK FALSE
SYMMETRY IdSymmetry
INVARIANT TypeOK
INVARIANT OneTransactionPerRequest
INVARIANT ReceiptsAreSettled
INVARIANT OneDeploymentPerCeremony
INVARIANT DeployedIsReal
PROPERTY FailedIsFinal
PROPERTY AllowanceSpec
