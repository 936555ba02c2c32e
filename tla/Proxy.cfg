\* The five proxies, two requests of up to two events, and for the log proxy one
\* session with a buffer of three bytes.
SPECIFICATION FairSpec
CONSTANTS
  Programs = {"dd_log", "dd_metrics", "splunk", "pushgateway", "promstore"}
  Requests = {1, 2}
  MaxBody = 2
  MaxQueue = 1
  Wires <- MCWires
  max_length = 3
INVARIANTS Framing ReadsHaveRoom AnsweredIsKept FlushedIsOut
PROPERTIES InsertedIsDelivered SessionEnds MainEnds
CHECK_DEADLOCK FALSE
