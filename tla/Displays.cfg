CONSTANTS
  Attempts = 4
  MaxSeq = 7
  MaxEvents = 2
  MaxRestarts = 1
  StateFresh = 2
  Interval = 1
  Sample = 2
  StepTime = 2
  Steps = 2
  MaxGap = 1
  ReadyFrames = 1
  Numbers = {"n"}
  Toggles = {"t"}
  Sliders = {}
  MaxValue = 1
  MaxRequests = 3
  MaxFaults = 1
  MaxSeqNumber = 6
  Tries = 2
  HistoryRows = 2
  TrendWindow = 2
  MaxPolls = 2
SPECIFICATION DisplaysSpec
INVARIANTS DisplaysInv ShownIsTrue
PROPERTIES LatestArrives EventsAreRung
CHECK_DEADLOCK FALSE
