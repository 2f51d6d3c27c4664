SPECIFICATION FairSpec
CONSTANTS
  Gateways = {g1, g2}
  Holders = {h1, h2}
  None = None
  Slots = {1, 2}
  Capacity = 2
  BatchSize = 2
  Budgets <- MCBudgets
INVARIANT OneSession
INVARIANT AuditAccounted
PROPERTY HolderActivates
PROPERTY NothingAfterStop
PROPERTY CutOffEnds
CHECK_DEADLOCK FALSE
