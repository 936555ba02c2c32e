SPECIFICATION FairSpec
CONSTANTS
  MaxEvents = 4
  MaxKills = 1
  NoValue = {2, 3}
  BatchSize = 2
  Ages = TRUE
  StartOffsets = {"OFFSET_STORED", "OFFSET_END"}
INVARIANTS FifoThroughSink CommittedAreSettled
PROPERTIES ImplementsAtLeastOnce EventuallyCommitted
CHECK_DEADLOCK FALSE
