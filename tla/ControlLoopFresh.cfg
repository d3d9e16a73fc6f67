SPECIFICATION LoopSpec
CONSTANTS
  Period = 2
  MaxRxAge = 2
  RxSlots = 2
  MaxTick = 4
INVARIANT OnlyStaleIsDiscarded
CHECK_DEADLOCK FALSE
