\* A token budget of one, and follow-ups after every answer.
SPECIFICATION Spec
CONSTANTS
  c1 = c1
  c2 = c2
  c3 = c3
  input = input
  Calls = {c1}
  MaxToolCalls = 2
  Hooks = 0
  Inputs = {input}
  InputOf <- MCInputOf
  SandboxDenied = {}
  Unregistered = {}
  PolicyDenied = {}
  Timed = {}
  HookStatuses = {}
  MaxBatch = 1
  ParallelSafe = {c1}
  Compress = FALSE
  FailureModeError = FALSE
  MaxCompactions = 0
  MaxFailures = 1
  MaxRounds = 1
  MaxForced = 0
  MaxTurns = 2
  RegistryGiven = TRUE
  RuntimeTimeout = FALSE
  TokenBudget = 1
  StaleTurns = 3
  Usages = {1}
PROPERTIES
  StopsOnBudgetDepleted
\* A run comes to its end.
CHECK_DEADLOCK FALSE
