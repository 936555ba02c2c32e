\* Two calls of any kind, two channels, answers of up to two records; c-ares may
\* fail to initialise, and the resolver may be closed and destroyed at any time.
SPECIFICATION FairSpec
CONSTANTS
  Calls = {c1, c2}
  SyncCalls = {c2}
  MaxRR = 2
  MaxChannels = 2
INVARIANTS EachCallInOnePlace SuccessIsWhole
PROPERTIES CallsEnd CloseReturns DestroyEndsCalls
CHECK_DEADLOCK FALSE
