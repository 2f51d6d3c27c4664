SPECIFICATION Spec
CONSTANTS
  Devices = {a}
  StandbyGrace = 1
  DisconnectedGrace = 2
  Timeout = 2
  MaxMissions = 3
  MaxTime = 5
  MaxRuns = 2
  MaxFaults = 2
INVARIANTS MissionsFollow RecoverySparesThisRun HistoryAgrees NotAirborneAfterEnd
CHECK_DEADLOCK FALSE
