SPECIFICATION MCSpec
CONSTANTS
  Aircraft = {a1, a2}
  NoSn = NoSn
  MaxTokens = 2
  MaxTime = 1
  Ttl = 1
  MaxAge = 0
  CallIds = {1, 2}
  Budgets <- MCBudgets
INVARIANT UnpairIsFinal
INVARIANT RevokedLeavesNothing
PROPERTY ClearedIsRefused
PROPERTY ResumesWhenConnected
CHECK_DEADLOCK FALSE
