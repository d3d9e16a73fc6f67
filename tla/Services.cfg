CONSTANTS
  Batches = {"a", "b"}
  Blank = "blank"
  Torn = "torn"
  SlotCount = 2
  MaxSeq = 5
  SeqModulus = 16
  Files = {"steering", "driving"}
  MaxVersion = 2
  MaxCrashes = 1
  MaxFrame = 2
  PathCount = 2
  MaxContent = 2
  MaxLives = 2
  Notes = 2
  Brightness = {"dim", "bright"}
  ProcCount = 3
  MaxExits = 2
SPECIFICATION ServicesSpec
INVARIANTS ServicesInv NoSlotRace PlansWithItsParams NothingIsLeftBehind DevicesAreAsAsked
PROPERTIES ImplementsFifo EventuallyDelivered SavesAreTaken LearnedFilesAreWhole DeadIsRestarted
CHECK_DEADLOCK FALSE
