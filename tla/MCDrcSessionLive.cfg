SPECIFICATION Spec
CONSTANTS
  c1 = c1
  c2 = c2
  Methods = {"stick"}
  Calls = {c1, c2}
  MaxSessions = 1
  MaxQueue = 1
  DegradeAfter = 1
  CloseAfter = 2
PROPERTIES DrainEnds SilenceCloses
CHECK_DEADLOCK FALSE
