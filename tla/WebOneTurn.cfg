\* A statement of the code that does not hold.
SPECIFICATION WebChatSpec
CONSTANTS
  s1 = s1
  s2 = s2
  Sessions = {s1, s2}
  NoSession = NoSession
  MaxTurns = 2
  MaxResumes = 1
SYMMETRY SessionSymmetry
INVARIANTS
  OneTurnAtATime
CHECK_DEADLOCK FALSE
