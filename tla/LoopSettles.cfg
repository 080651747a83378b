\* A token budget, a hook, a throwing compactor, a limit of one tool call, and
\* every tool with a timeout; model calls and hooks settle.
SPECIFICATION FairSpec
CONSTANTS
  c1 = c1
  c2 = c2
  c3 = c3
  input = input
  Calls = {c1, c2}
  MaxToolCalls = 1
  Hooks = 1
  Inputs = {input}
  InputOf <- MCInputOf
  SandboxDenied = {}
  Unregistered = {}
  PolicyDenied = {}
  Timed = {c1, c2}
  HookStatuses = {}
  MaxBatch = 2
  ParallelSafe = {c1, c2}
  Compress = TRUE
  FailureModeError = TRUE
  MaxCompactions = 1
  MaxFailures = 1
  MaxRounds = 2
  MaxForced = 0
  MaxTurns = 2
  RegistryGiven = TRUE
  RuntimeTimeout = TRUE
  TokenBudget = 2
  StaleTurns = 2
  Usages = {0, 1}
PROPERTIES
  RunSettles
\* A run comes to its end.
CHECK_DEADLOCK FALSE
