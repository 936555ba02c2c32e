\* SIGTERM while the loop waits for an event.
SPECIFICATION FairSpec
CONSTANTS
  StartOrder <- OneMethod
  Clients = {c1}
  Topics = {t1}
  Missing = {}
  Denied = denied
  Bundles <- MCBundles
  MaxCalls = 1
  MayStop = TRUE
PROPERTY SigtermEndsLoop
CHECK_DEADLOCK FALSE
