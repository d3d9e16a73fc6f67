CONSTANTS
  MaxPending = 1
  Faults = {"refused", "directory", "chunk", "full", "segment", "copy"}
  MaxSent = 2
  MaxSessions = 2
  MaxParts = 1
  MaxCrashes = 1
  Gop = 2
  RawBuffers = 2
  QueueLimit = 3
  MaxPictures = 5
  MaxSwitches = 2
  MaxTrouble = 2
  HeaderUnits = 2
  PayloadSizes = {0, 2}
  PacketSizes = {1, 2}
  ConfigSize = 1
  MaxWrites = 4
  MaxFiles = 2
  Ranges = {"left"}
  RingSize = 2
  MinPoints = 2
  Values = {1, 2}
  Factors = {2, 4}
  Fits = {1, 3, 6}
  Sanity = 1
  PublishEvery = 2
  PersistEvery = 4
SPECIFICATION StorageSpec
INVARIANTS RecTypeOK 
PROPERTIES CloseReturns FilesAreReadBack
CHECK_DEADLOCK FALSE
