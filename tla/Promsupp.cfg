CONSTANTS
  s1 = s1
  s2 = s2
  Services = {s1, s2}
  Ignored = {}
  MaxReady = 2
  MaxCreations = 2
  MaxFailures = 1
SPECIFICATION SuppSpec
CHECK_DEADLOCK FALSE
INVARIANTS
  SuppTypeOK
PROPERTIES
  SelectorFollows
  ScrapedInTheEnd
