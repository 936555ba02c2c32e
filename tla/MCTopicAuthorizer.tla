-------------------------- MODULE MCTopicAuthorizer --------------------------
(* Model-checking instance of TopicAuthorizer: two rows whose credentials    *)
(* meet, change and go, and the callers that hold them.                      *)
EXTENDS TopicAuthorizer

Row(id, key, hash, topic, rw, complete, gone) ==
  [ id |-> id, tenant_id |-> id, api_key |-> key,
    secret_access_key_hash |-> hash, topic_name |-> topic,
    kafka_topic |-> IF id = 1 THEN "kt1" ELSE "kt2",
    read_access |-> TRUE, write_access |-> rw,
    complete |-> complete, is_disabled |-> gone, is_deleted |-> FALSE ]

InForce(id, key, hash) == Row(id, key, hash, "metrics", TRUE, TRUE, FALSE)

MCFeed ==
  { InForce(1, "k1", md5("s1")),
    InForce(1, "k1", md5("s2")),
    InForce(1, "k2", md5("s1")),
    InForce(1, "k1", NoSecret),
    Row(1, "k1", md5("s1"), "logs", TRUE, TRUE, FALSE),
    Row(1, "k1", md5("s1"), "metrics", TRUE, FALSE, FALSE),
    Row(1, "k1", md5("s1"), "metrics", TRUE, TRUE, TRUE),
    InForce(2, "k1", md5("s1")),
    Row(2, "k1", md5("s1"), "metrics", FALSE, TRUE, FALSE),
    [InForce(2, "k1", md5("s1")) EXCEPT !.is_deleted = TRUE] }
=============================================================================
