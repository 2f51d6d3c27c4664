SPECIFICATION MsdkSpec
CONSTANTS
  MaxSockets = 2
  MaxSessions = 2
  Limits <- MCLimits
INVARIANTS MovedUnderDeadMan SessionMeetsAgent
PROPERTY ClosedEndsControl
CHECK_DEADLOCK FALSE
