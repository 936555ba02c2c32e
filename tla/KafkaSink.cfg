\* Four messages, of which librdkafka refuses the last one for good, and a
\* librdkafka that holds two; every failure; the sink may be destroyed.  A dead
\* process or a destroyed sink stops.
SPECIFICATION FairSpec
CONSTANTS
  MaxMsgs = 4
  OutqMax = 2
  Rejected = {4}
  MayFail = TRUE
  MayDestroy = TRUE
INVARIANTS FifoHandOver NothingLost PopsMatchProduces
PROPERTIES DestructorReturns EventuallyStored
CHECK_DEADLOCK FALSE
