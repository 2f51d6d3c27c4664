SPECIFICATION Spec
CONSTANTS
  Capacities = {1, 2}
  MaxItems = 5
  MaxFaults = 2
INVARIANTS Accounting
PROPERTIES IsAtLeastOnceFifo
CHECK_DEADLOCK FALSE
