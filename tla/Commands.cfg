\* Lines of up to four tokens put together word by word, or of up to four options;
\* chats of three lines, two follow-ups and one kill; suites of two tasks with
\* partial credit and lost runs, two candidates a generation, two iterations, and
\* mutations of the one tool that runs change too.
SPECIFICATION CommandsSpec
CONSTANTS
  MaxTokens = 4
  MaxOptions = 4
  LooseTokens <- MCLooseTokens
  TypedFlags <- MCTypedFlags
  Choosy <- MCChoosy
  MaxReplTurns = 3
  MaxFollowUps = 2
  MaxKills = 1
  SuiteTasks = 2
  MaxCandidates = 2
  MaxIterations = 2
  MaxRetooled = 1
  EvoTools = {}
  BaselineRuns <- MCBaselineRuns
  CandidateRuns <- MCCandidateRuns
INVARIANTS
  LineUnderstood
  EvolutionSound
  ReplSound
PROPERTIES
  AcceptedIsBetter
  CommandsSettle
\* A line is run once, a process ends, and the bounds run out.
CHECK_DEADLOCK FALSE
