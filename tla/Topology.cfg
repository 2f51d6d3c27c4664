SPECIFICATION TopologySpec
CONSTANTS
  Gateways = {g1, g2}
  Docks = {k}
  Devices = {d1, d2}
  Capacity = 2
  MaxUpdates = 3
  MaxFailures = 1
INVARIANTS OwnerReports InventoryFollows
CHECK_DEADLOCK FALSE
