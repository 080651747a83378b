\* One behaviour exercises one part: a registry with batches of up to three calls
\* under a limit of two and with two hooks; an SOP of three steps; two MCP servers;
\* a delegation of three tasks; three calls on one file; a command whose output
\* fills its limit; outputs of up to four characters; a fetch with two retries.
SPECIFICATION ToolsSpec
CONSTANTS
  c1 = c1
  c2 = c2
  c3 = c3
  safe = safe
  unsafe = unsafe
  f1 = f1
  Calls <- MCCalls
  MaxToolCalls = 2
  Hooks = 2
  Inputs = {safe, unsafe}
  InputOf <- MCInputOf
  SandboxDenied = {unsafe}
  Unregistered = {}
  PolicyDenied = {}
  Timed = {c1}
  HookStatuses <- MCStatuses
  MaxBatch = 3
  MaxSteps = 3
  MaxServers = 2
  MaxChildren = 3
  Keeps = TRUE
  FileCalls = {c1, c2, c3}
  Files = {f1}
  Missing = Missing
  Torn = Torn
  MaxOutput = 3
  MaxChunk = 3
  MaxLength = 4
  Budgets = {7, 8}
  HeadLimits <- MCHeadLimits
  TailLimits <- MCTailLimits
  Frame = 3
  Preview = 9
  Characters <- MCCharacters
  FallsShort <- MCFallsShort
  MaxRetries = 2
  MaxRedirects = 5
  MaxBytes = 4
  MaxChars = 3
INVARIANTS
  LimitHolds
  LaunchPermitted
  SopHonest
  McpAccounted
  DelegationAccounted
  CallsAccounted
  OutputFits
PROPERTIES
  ResultIsFinal
  RefinesAtomicFiles
  ToolsHeedAbort
  ToolsSettle
\* Every part comes to rest once its calls have settled.
CHECK_DEADLOCK FALSE
