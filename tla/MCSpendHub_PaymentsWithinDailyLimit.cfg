SPECIFICATION Spec
CONSTANTS
  None = None
  NaN = NaN
  Intents = {i1, i2}
  Providers = {"browserbase"}
  LinkProviders = {}
  ProofProviders = {}
  Allowlisted = {"browserbase"}
  InSession = {"browserbase"}
  Keys = {}
  McpKeys = {}
  Category <- MCCategory
  MachineProvider <- MCMachineProvider
  MachineKey <- MCMachineKey
  Pages = {}
  Machines = {}
  McpAgents = {}
  Others = {a1, a2}
  Callers = {a1, a2}
  Script <- MCScript
  AskedTypes = {"pay_service"}
  Amounts = {2, NaN}
  McpLimit = 2
  PerPayment = 2
  DailyLimit = 3
  MonthlyLimit = 4
  PortfolioLimit = 1
  SessionLimit = 2
  MaxReceipts = 3
  AtOnce = 2
  LastDay = 0
SYMMETRY MCSymmetry
CHECK_DEADLOCK FALSE
INVARIANT PaymentsWithinDailyLimit
