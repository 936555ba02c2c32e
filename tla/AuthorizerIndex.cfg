CONSTANTS
  Ids = {1, 2}
  ApiKeys = {"k1", "k2"}
  Secrets = {"s1", "s2"}
  TopicNames = {"metrics", "logs"}
  Feed <- MCFeed
  MaxLog = 3
  MaxRestarts = 1
SPECIFICATION Spec
INVARIANTS IndexNamesARow
CHECK_DEADLOCK FALSE
