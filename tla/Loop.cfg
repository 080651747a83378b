\* Two turns, up to three calls of which two are parallel-safe, and a compaction
\* with all its retries: overflow, recovery, follow-ups, the user's abort and the
\* runtime's timeout at any moment.
SPECIFICATION Spec
CONSTANTS
  c1 = c1
  c2 = c2
  c3 = c3
  input = input
  Calls = {c1, c2, c3}
  MaxToolCalls = 2
  Hooks = 0
  Inputs = {input}
  InputOf <- MCInputOf
  SandboxDenied = {}
  Unregistered = {}
  PolicyDenied = {}
  Timed = {c1}
  HookStatuses = {}
  MaxBatch = 3
  ParallelSafe = {c1, c2}
  Compress = TRUE
  FailureModeError = FALSE
  MaxCompactions = 1
  MaxFailures = 2
  MaxRounds = 5
  MaxForced = 0
  MaxTurns = 2
  RegistryGiven = TRUE
  RuntimeTimeout = TRUE
  TokenBudget = 0
  StaleTurns = 3
  Usages = {0}
INVARIANTS
  RequestSendable
  AbortBoundsTranscript
  CallsTakenCareOf
  RecoversOnce
  CallsPerAttemptBounded
PROPERTIES
  NoNewWorkAfterAbort
  RefinesConversation
  BreakerStaysOpen
\* A run comes to its end.
CHECK_DEADLOCK FALSE
