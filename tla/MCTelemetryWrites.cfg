SPECIFICATION Spec
CONSTANTS
  m1 = m1
  x = x
  y = y
  Missions = {m1}
  Instants = {1, 2}
  Columns = {x, y}
  Adapters = {1, 2}
  Qualities = {1, 2}
  Offered <- MCOffered
  Capacity = 2
  MaxSamples = 3
  MaxFaults = 1
INVARIANTS OneRowPerInstant NewestWins AcknowledgedIsStored
PROPERTIES SamplesSettle
CHECK_DEADLOCK FALSE
