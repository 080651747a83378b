\* One behaviour exercises one stage: sessions of up to eight entries that both
\* front ends continue; three calls of two tools under six configurations of the
\* passes; requests of up to five messages and two tools; two processes with two
\* providers; answers of up to two calls of two fragments.
SPECIFICATION RequestsSpec
CONSTANTS
  c1 = c1
  c2 = c2
  Calls = {c1, c2}
  MaxEntries = 8
  PassTools = {"Read", "read_file"}
  Paths = {"p"}
  PassConfigs <- MCConfigs
  MaxLog = 7
  MaxPassCalls = 3
  MaxFiles = 2
  MaxRestored = 3
  CallIds = {"a", "b"}
  MaxMessages = 5
  MaxTools = 2
  Default = Default
  Providers = {"p1", "p2"}
  Primary = "p1"
  Other = "p2"
  MaxLaunches = 2
  Unset = Unset
  MaxText = 2
  MaxCalls = 2
  MaxFragments = 2
  MaxReasoning = 2
INVARIANTS
  QuestionSent
  ViewsKeepPairs
  OnlySummarisedMissing
  RequestsWellFormed
  StreamHeard
  RoutingKept
PROPERTIES
  PassesSparing
\* A full session, a built body and a settled answer may stop.
CHECK_DEADLOCK FALSE
