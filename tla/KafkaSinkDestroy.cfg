CONSTANTS
  MaxMsgs = 3
  OutqMax = 2
  Rejected = {}
  MayFail = FALSE
  MayDestroy = TRUE
SPECIFICATION Spec
INVARIANTS PoppedWereProduced
CHECK_DEADLOCK FALSE
