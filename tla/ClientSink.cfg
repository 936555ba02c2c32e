\* The metric sink: failures, lost replies, purges, null events among others
\* and at the end; it may be destroyed, and stops then.
SPECIFICATION FairSpec
CONSTANTS
  MaxEvents = 5
  Nulls = {2, 5}
  BatchSize = 2
  MaxQueue = 2
  Purges = TRUE
  MayDestroy = TRUE
INVARIANTS EachInOnePlace PurgeTakesTheExcess EofIsOneBatchBehind
PROPERTIES ImplementsAtLeastOnce EventuallyAccepted FlushEnds DestructorReturns
CHECK_DEADLOCK FALSE
