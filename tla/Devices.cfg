CONSTANTS
  TxEnabled = TRUE
  MaxAge = 1
  Units = 3
  SoftLimit = 2
  Retries = 1
  MaxMalformed = 2
  BatchFrames = 2
  QueueSlots = 2
  MaxReceived = 2
  MaxFrames = 3
  MaxCommands = 2
  MaxConnections = 2
  Limit = 2
  MaxSpread = 1
  BlockSize = 2
  InputsNeeded = 2
  InputsWanted = 3
  SmoothCycles = 2
  PersistInterval = 1
  PersistDelta = 1
  MaxMove = 1
  Desires = {"left", "right"}
  HistoryTicks = 3
  FrameTags = 3
SPECIFICATION DevicesSpec
INVARIANTS  WireInOrder CalibrationIsKept
PROPERTIES OnlyConfirmed LossIsReported 
CHECK_DEADLOCK FALSE
