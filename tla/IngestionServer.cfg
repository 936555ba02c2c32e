\* Two calls in flight, permissions that come and go, a topic that Kafka does
\* not have.  A stopped or dead server does nothing.
SPECIFICATION FairSpec
CONSTANTS
  StartOrder <- MCStartOrder
  Clients = {c1}
  Topics = {t1, t2}
  Missing = {t2}
  Denied = denied
  Bundles <- MCBundles
  MaxCalls = 2
  MayStop = TRUE
INVARIANTS OneWaitingObject OneEventPerObject RepliesAreTrue
PROPERTY EveryCallEnds
CHECK_DEADLOCK FALSE
