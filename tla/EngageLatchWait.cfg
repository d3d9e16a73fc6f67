CONSTANTS
  Faults = {"door_open"}
  EngageGrace = 3
  PathDebounce = 2
  ReleaseTime = 2
SPECIFICATION LatchSpec
INVARIANTS WaitIsSilent
