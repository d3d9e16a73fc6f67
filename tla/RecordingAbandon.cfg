CONSTANTS
  MaxPending = 4
  Faults = {"refused"}
  MaxSent = 0
  MaxSessions = 3
  MaxParts = 0
  MaxCrashes = 0
SPECIFICATION RecSpec
INVARIANTS StopEmptiesStaging
CHECK_DEADLOCK FALSE
