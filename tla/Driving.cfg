CONSTANTS
  Batches = {"a", "b"}
  Blank = "blank"
  Torn = "torn"
  SlotCount = 2
  MaxSeq = 3
  SeqModulus = 16
  MaxRestarts = 3
  RingSlots = 2
  Attempts = 2
  Buffers = 2
  MaxFrames = 3
  MaxRuns = 2
  PacketSize = 5
  HeadSize = 2
  Lengths = {0, 1, 3}
  Addresses = {"a", "b"}
  Counters = 2
  MaxCodecFrames = 4
  TopSpeed = 2
  Changing = {"driver_door", "rear_left_door", "toi_unavailable"}
  Lossy = {"cgw1", "cgw2"}
  Timeout = 1
  FaultFrames = 1
  BlinkerHold = 4
  FlashTime = 2
  CgwPeriod = 1
  StateTimeout = 4
  HealthHold = 2
  ModelTimeout = 3
  PathHold = 2
  TickGap = 2
  MotionPeriod = 2
  Lag = 1
  Engaged = 3
  HistoryLength = 4
  Period = 2
  MaxRxAge = 2
  RxSlots = 2
  MaxTick = 4
  LastPoint = 3
  Distances = {0, 1, 5, 10}
  Scale = 60
  ProbTop = 2
  ProbStep = 1
SPECIFICATION DrivingSpec
INVARIANTS  RestartsKeepBatches  RoundTrip VehicleIsKnown TimeIsKept
PROPERTIES GatesAreRecent
CHECK_DEADLOCK FALSE
