\* Two sessions, three turns, one resume; a view of two runs, three responses,
\* and a log that keeps three entries of seven.
SPECIFICATION WebSpec
CONSTANTS
  s1 = s1
  s2 = s2
  Sessions = {s1, s2}
  NoSession = NoSession
  MaxTurns = 3
  MaxResumes = 1
  MaxRuns = 2
  MaxResponses = 3
  MaxIds = 8
  MaxShown = 3
SYMMETRY SessionSymmetry
INVARIANTS
  SerialInContext
  SessionsNotMixed
  AnswersKept
  ViewSound
\* A server whose bounds are used up stops.
CHECK_DEADLOCK FALSE
