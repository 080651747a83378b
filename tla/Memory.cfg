\* Two sessions, two overlapping writers, three items; a full store takes no more.
SPECIFICATION MemorySpec
CONSTANTS
  a1 = a1
  a2 = a2
  w1 = w1
  w2 = w2
  Everyone = Everyone
  Audiences = {a1, a2}
  Writers = {w1, w2}
  Keys = {"key"}
  Texts = {"text"}
  MaxItems = 3
SYMMETRY MemorySymmetry
INVARIANTS
  GoneStaysHidden
  NothingVanishes
PROPERTIES
  ScopesApart
CHECK_DEADLOCK FALSE
