SPECIFICATION Spec
CONSTANTS
  None = None
  Merchant = merchant
  Provider = provider
  XLM = xlm
  Signers = {session}
  Payees = {merchant}
  Providers = {provider}
  Assets = {xlm}
  Nonces = {n1, n2}
  MaxAmount = 1
  Policies <- MCPolicies
  Calls = {c1, c2}
  Keys = {k1, k2}
  TinyMax = 1
  Signer = session
  Destination = merchant
  Native = xlm
  Allowlist = {provider}
  Torn = Torn
  MaxRestarts = 1
  Horizon = 1
CHECK_DEADLOCK FALSE
SYMMETRY MCSymmetry
INVARIANT TypeOK
INVARIANT SettledIsPaid
INVARIANT OneRunPerKey
INVARIANT RetriesPayOnce
PROPERTY ReportsAreFinal
