SPECIFICATION Spec
CONSTANTS
  MaxCalls = 3
  MaxNews = 3
INVARIANTS StaleGrantIsCorrected
PROPERTIES RequestEnds
CHECK_DEADLOCK FALSE
