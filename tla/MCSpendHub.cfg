SPECIFICATION Spec
CONSTANTS
  None = None
  Intents = {i1, i2}
  Providers = {"browserbase", "link", "enel"}
  LinkProviders = {"link"}
  ProofProviders = {"enel"}
  Allowlisted = {"browserbase", "link", "enel"}
  InSession = {"browserbase"}
  Keys = {"machine:browserbase", "mcp"}
  McpKeys = {"mcp"}
  Category <- MCCategory
  MachineProvider <- MCMachineProvider
  MachineKey <- MCMachineKey
  Pages = {u1}
  Machines = {m1}
  McpAgents = {a1, a2}
  Others = {a1, a2}
  Callers = {u1, m1, a1, a2}
  Script <- MCScript
  AskedTypes = {"pay_service", "buy_crypto"}
  NaN = NaN
  Amounts <- MCAmounts
  McpLimit = 2
  PerPayment = 2
  DailyLimit = 3
  MonthlyLimit = 4
  PortfolioLimit = 1
  SessionLimit = 2
  MaxReceipts = 4
  AtOnce = 2
  LastDay = 1
SYMMETRY MCSymmetry
CONSTRAINT MCBound
CHECK_DEADLOCK FALSE
INVARIANT TypeOK
INVARIANT SettledHasReceipt
INVARIANT NoLateSecondReceipt
INVARIANT DailyLimitHolds
INVARIANT DeliveryIsPaid
