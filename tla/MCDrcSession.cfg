SPECIFICATION Spec
CONSTANTS
  c1 = c1
  c2 = c2
  Methods = {"stick", "drone"}
  Calls = {c1, c2}
  MaxSessions = 2
  MaxQueue = 2
  DegradeAfter = 1
  CloseAfter = 2
SYMMETRY CallSymmetry
CONSTRAINT AfterStaleWrite
INVARIANTS DeadManArmed
PROPERTIES NeutralMatchesLastFrame NothingAfterNeutral
CHECK_DEADLOCK FALSE
