CONSTANTS
  Batches = {"a", "b"}
  Blank = "blank"
  Torn = "torn"
  SlotCount = 2
  MaxSeq = 3
  SeqModulus = 16
  MaxRestarts = 2
SPECIFICATION RSpec
PROPERTIES RestartRejectsOnlyWhenFull
CHECK_DEADLOCK FALSE
