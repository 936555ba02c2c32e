\* Any three records about two rows, one restart; the authorizer may be
\* destroyed, after which nothing happens.
SPECIFICATION FairSpec
CONSTANTS
  Ids = {1, 2}
  ApiKeys = {"k1", "k2"}
  Secrets = {"s1", "s2"}
  TopicNames = {"metrics", "logs"}
  Feed <- MCFeed
  MaxLog = 3
  MaxRestarts = 1
INVARIANTS TypeOK RowsMatchFeed GrantIsCurrent LiveRowAuthorised
PROPERTIES FeedApplied DestructorReturns
CHECK_DEADLOCK FALSE
