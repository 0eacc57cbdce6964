SPECIFICATION Spec
CONSTANTS
  d1 = d1
  d2 = d2
  c1 = c1
  c2 = c2
  s1 = s1
  s2 = s2
  Docs = {d1, d2}
  Contents = {c1, c2}
  Specs = {s1, s2}
  MaxItems = 4
  Scenarios <- SafetyScenarios
INVARIANTS GenerationsAgree PublishedIsComplete SavedStaysReadable ActiveVersionIsLive
PROPERTIES JobsEnd OldSpaceUntilPublished
SYMMETRY Symmetry
CHECK_DEADLOCK FALSE
