--------------------------- MODULE TopicAuthorizer ---------------------------
(***************************************************************************)
(* grpc_topic_authorizer: the in-memory copy of the topic_auth_view rows   *)
(* that the ingestion server authorizes every call against.  A background  *)
(* thread replays the auth topic from its beginning and then follows it;   *)
(* every record goes through one visitor that maintains two maps under a   *)
(* spinlock, so one visited record is one atomic step:                     *)
(*   authdata_   row id -> the row as last seen                            *)
(*   apikey2id_  md5(topic#api_key#md5(secret)) -> row id                  *)
(* authorize_read/authorize_write look both up under the same spinlock.    *)
(*                                                                         *)
(* The auth topic is external: an append-only sequence of records, each    *)
(* from the constant set Feed, at most MaxLog of them.  The process may be *)
(* killed and started again (at most MaxRestarts times): the maps are      *)
(* lost, the topic is not.                                                 *)
(***************************************************************************)
EXTENDS Integers, Sequences

CONSTANTS
  Ids,                \* row ids of topic_security_group
  ApiKeys, Secrets,   \* what callers present
  TopicNames,         \* logical topics
  Feed,               \* the records the auth topic may carry
  MaxLog,             \* bound: records appended to the auth topic
  MaxRestarts         \* bound: restarts of the process

(***************************************************************************)
(* md5 (external): collision free, and its image is disjoint from the      *)
(* plain strings the code also uses as keys of apikey2id_.                 *)
(***************************************************************************)
md5(x) == <<"md5", x>>
Plain(x) == <<"plain", x>>
NoSecret == Plain("")      \* an empty secret_access_key_hash column

AuthFields == {"id", "tenant_id", "api_key", "secret_access_key_hash",
               "read_access", "write_access", "topic_name", "kafka_topic"}

(***************************************************************************)
(* A record: the columns of the view, and whether all the columns the      *)
(* visitor insists on are present.                                         *)
(***************************************************************************)
IsRecord(r) ==
  /\ DOMAIN r = AuthFields \cup {"complete", "is_disabled", "is_deleted"}
  /\ r.id \in Ids
  /\ {r.complete, r.is_disabled, r.is_deleted,
      r.read_access, r.write_access} \subseteq BOOLEAN

ASSUME FeedAssumption == \A r \in Feed : IsRecord(r)
ASSUME BoundsAssumption == MaxLog \in Nat /\ MaxRestarts \in Nat

VARIABLES
  log,         \* the auth topic
  pos,         \* how many of its records the consumer has visited
  authdata_, apikey2id_, run_,
  owner,       \* the thread that constructs and destroys the authorizer
  bg,          \* bg_thread
  push,        \* pushgatateway_thread
  restarts

vars == <<log, pos, authdata_, apikey2id_, run_, owner, bg, push, restarts>>
maps == <<authdata_, apikey2id_>>
threads == <<run_, owner, bg, push, restarts>>

-----------------------------------------------------------------------------
(* Keys and lookups *)

Credentials(r) == <<r.topic_name, r.api_key, r.secret_access_key_hash>>
IndexKey(r) == md5(Credentials(r))

\* An erased or an added entry of a std::map.
Erase(f, k) == [x \in DOMAIN f \ {k} |-> f[x]]
Put(f, k, v) == [x \in DOMAIN f \cup {k} |-> IF x = k THEN v ELSE f[x]]

Denied == [kafka_topic |-> "", tenant_id |-> 0]
Granted(ad) == [kafka_topic |-> ad.kafka_topic, tenant_id |-> ad.tenant_id]

\* The rows an authorize call ends at: none, or the one its index entry names.
Found(api_key, secret, topic) ==
  LET hash == md5(<<topic, api_key, md5(secret)>>) IN
  { authdata_[i] : i \in { j \in DOMAIN authdata_ :
                             hash \in DOMAIN apikey2id_ /\ apikey2id_[hash] = j } }

\* Mutant: the secret of the row found is not checked again.
RowAcceptsAnySecret(ad, secret, topic) == ad.topic_name = topic

\* The checks both calls make on the row they found.
RowAccepts(ad, secret, topic) ==
  /\ ad.secret_access_key_hash \in {NoSecret, md5(secret)}
  /\ ad.topic_name = topic

authorize_read(api_key, secret, topic) ==
  LET ok == { ad \in Found(api_key, secret, topic) :
                RowAccepts(ad, secret, topic) /\ ad.read_access }
  IN IF ok = {} THEN Denied ELSE Granted(CHOOSE ad \in ok : TRUE)

authorize_write(api_key, secret, topic) ==
  LET ok == { ad \in Found(api_key, secret, topic) :
                RowAccepts(ad, secret, topic) /\ ad.write_access }
  IN IF ok = {} THEN Denied ELSE Granted(CHOOSE ad \in ok : TRUE)

-----------------------------------------------------------------------------
(* The auth topic *)

DeleteMe(r) == r.is_disabled \/ r.is_deleted
AuthData(r) == [f \in AuthFields |-> r[f]]

\* Record m is the last usable one for its row among the first n records.
IsCurrent(m, n) ==
  /\ m \in 1..n
  /\ log[m].complete
  /\ \A l \in (m + 1)..n : ~(log[l].complete /\ log[l].id = log[m].id)

\* ... and it says that the row is in force.
IsLive(m, n) == IsCurrent(m, n) /\ ~DeleteMe(log[m])

Publish(r) ==
  /\ Len(log) < MaxLog
  /\ log' = Append(log, r)
  /\ UNCHANGED <<pos, authdata_, apikey2id_, threads>>

-----------------------------------------------------------------------------
(* The visitor in bg_thread *)

VisitIgnored(r) ==
  /\ ~r.complete
  /\ UNCHANGED maps

\* Mutant: the row itself is left behind.
VisitDeletedKeepsRow(r) ==
  /\ r.complete /\ DeleteMe(r)
  /\ UNCHANGED maps

\* The index entry is erased under the plain "topic#api_key" string.
VisitDeleted(r) ==
  /\ r.complete /\ DeleteMe(r)
  /\ IF r.id \in DOMAIN authdata_
       THEN LET ad == authdata_[r.id] IN
            /\ apikey2id_' = Erase(apikey2id_, Plain(<<ad.topic_name, ad.api_key>>))
            /\ authdata_' = Erase(authdata_, r.id)
       ELSE UNCHANGED maps

\* Mutant: std::map::insert semantics, an index entry that is there stays.
VisitUpsertInserts(r) ==
  /\ r.complete /\ ~DeleteMe(r)
  /\ authdata_' = Put(authdata_, r.id, AuthData(r))
  /\ apikey2id_' = IF IndexKey(r) \in DOMAIN apikey2id_ THEN apikey2id_
                   ELSE Put(apikey2id_, IndexKey(r), r.id)

\* Mutant: the index is keyed by the plain string the delete path uses.
VisitUpsertPlainKey(r) ==
  /\ r.complete /\ ~DeleteMe(r)
  /\ authdata_' = Put(authdata_, r.id, AuthData(r))
  /\ apikey2id_' = Put(apikey2id_, Plain(<<r.topic_name, r.api_key>>), r.id)

VisitUpsert(r) ==
  /\ r.complete /\ ~DeleteMe(r)
  /\ authdata_' = Put(authdata_, r.id, AuthData(r))
  /\ apikey2id_' = Put(apikey2id_, IndexKey(r), r.id)

Visit ==
  /\ bg \in {"loading", "processing"}
  /\ pos < Len(log)
  /\ pos' = pos + 1
  /\ LET r == log[pos + 1] IN VisitIgnored(r) \/ VisitDeleted(r) \/ VisitUpsert(r)
  /\ UNCHANGED <<log, threads>>

\* topology->flush() returns at the end of the topic.
Loaded ==
  /\ bg = "loading" /\ pos = Len(log)
  /\ bg' = "testing"
  /\ UNCHANGED <<log, pos, maps, run_, owner, push, restarts>>

\* Mutant: the thread stops at the end of the topic instead of following it.
BgTestRunOnce ==
  /\ bg = "testing"
  /\ bg' = IF run_ /\ pos < Len(log) THEN "processing" ELSE "parked"
  /\ UNCHANGED <<log, pos, maps, run_, owner, push, restarts>>

\* while (run_)
BgTestRun ==
  /\ bg = "testing"
  /\ bg' = IF run_ THEN "processing" ELSE "exited"
  /\ UNCHANGED <<log, pos, maps, run_, owner, push, restarts>>

\* process_1s returns: at the end of the topic, or when its second is over.
BgBatchDone ==
  /\ bg = "processing"
  /\ bg' = "testing"
  /\ UNCHANGED <<log, pos, maps, run_, owner, push, restarts>>

\* pushgatateway_thread: one turn of while (run_), the push itself left out.
PushTestRun ==
  /\ push = "testing"
  /\ push' = IF run_ THEN "testing" ELSE "exited"
  /\ UNCHANGED <<log, pos, maps, run_, owner, bg, restarts>>

-----------------------------------------------------------------------------
(* Construction, destruction, process restart *)

\* Both threads run from the initializer list on; the body then sets run_.
ConstructorBody ==
  /\ owner = "constructing"
  /\ owner' = "using"
  /\ run_' = TRUE
  /\ UNCHANGED <<log, pos, maps, bg, push, restarts>>

DestructorBegin ==
  /\ owner = "using"
  /\ owner' = "joining"
  /\ run_' = FALSE
  /\ UNCHANGED <<log, pos, maps, bg, push, restarts>>

DestructorJoined ==
  /\ owner = "joining" /\ bg = "exited" /\ push = "exited"
  /\ owner' = "gone"
  /\ UNCHANGED <<log, pos, maps, run_, bg, push, restarts>>

Restart ==
  /\ restarts < MaxRestarts
  /\ restarts' = restarts + 1
  /\ pos' = 0
  /\ authdata_' = << >>
  /\ apikey2id_' = << >>
  /\ run_' = FALSE
  /\ owner' = "constructing"
  /\ bg' = "loading"
  /\ push' = "testing"
  /\ UNCHANGED log

Init ==
  /\ log = << >>
  /\ pos = 0
  /\ authdata_ = << >>
  /\ apikey2id_ = << >>
  /\ run_ = FALSE
  /\ owner = "constructing"
  /\ bg = "loading"
  /\ push = "testing"
  /\ restarts = 0

BgThread == Visit \/ Loaded \/ BgTestRun \/ BgBatchDone

Next ==
  \/ \E r \in Feed : Publish(r)
  \/ Visit
  \/ Loaded
  \/ BgTestRun
  \/ BgBatchDone
  \/ PushTestRun
  \/ ConstructorBody
  \/ DestructorBegin
  \/ DestructorJoined
  \/ Restart

(***************************************************************************)
(* The two threads and the owner are scheduled by the operating system;    *)
(* process_1s visits a record before it returns whenever one is there, so  *)
(* Visit cannot be passed over for ever (strong fairness).  Publishing,    *)
(* destruction and restarts are choices of the environment.                *)
(***************************************************************************)
Fairness ==
  /\ SF_vars(Visit)
  /\ WF_vars(BgThread)
  /\ WF_vars(PushTestRun)
  /\ WF_vars(ConstructorBody)
  /\ WF_vars(DestructorJoined)

Spec == Init /\ [][Next]_vars
FairSpec == Spec /\ Fairness

-----------------------------------------------------------------------------
(* Properties *)

Keys == { IndexKey(r) : r \in Feed }

\* Every variable keeps its type: the index maps md5 keys to row ids only.
TypeOK ==
  /\ log \in Seq(Feed)
  /\ pos \in 0..Len(log)
  /\ DOMAIN authdata_ \subseteq Ids
  /\ \A i \in DOMAIN authdata_ : authdata_[i] \in { AuthData(r) : r \in Feed }
  /\ DOMAIN apikey2id_ \subseteq Keys
  /\ \A k \in DOMAIN apikey2id_ : apikey2id_[k] \in Ids
  /\ run_ \in BOOLEAN
  /\ owner \in {"constructing", "using", "joining", "gone"}
  /\ bg \in {"loading", "testing", "processing", "exited"}
  /\ push \in {"testing", "exited"}
  /\ restarts \in 0..MaxRestarts

(***************************************************************************)
(* authdata_ is at every moment exactly what the visited part of the auth  *)
(* topic says, whatever the order of updates, deletions, unusable records  *)
(* and restarts: a row is present iff its last usable record is in force,  *)
(* with the columns of that record.                                        *)
(***************************************************************************)
RowsMatchFeed ==
  /\ \A i \in DOMAIN authdata_ :
       \E m \in 1..pos : IsLive(m, pos) /\ log[m].id = i
  /\ \A m \in 1..pos : IsLive(m, pos) =>
       /\ log[m].id \in DOMAIN authdata_
       /\ authdata_[log[m].id] = AuthData(log[m])

(***************************************************************************)
(* A granted write is backed by a row in force in the visited part of the  *)
(* auth topic: its topic and write access now, the secret of the row       *)
(* unless it has none, and the answer is that row's kafka topic and        *)
(* tenant.  The caller's three credentials together are ones that this     *)
(* very row has or had in an earlier record, so an index entry that other  *)
(* rows came and went over never leads to somebody else's row.  "Had": the *)
(* secret and the topic are checked again on the row found, the api key is *)
(* not, so a row that changed its api key and kept its secret still grants *)
(* the former key through the entry that nothing erases.                   *)
(***************************************************************************)
GrantIsCurrent ==
  \A k \in ApiKeys, s \in Secrets, t \in TopicNames :
    LET res == authorize_write(k, s, t) IN
    res # Denied =>
      \E m \in 1..pos :
        /\ IsLive(m, pos)
        /\ log[m].topic_name = t
        /\ log[m].write_access
        /\ log[m].secret_access_key_hash \in {NoSecret, md5(s)}
        /\ res = Granted(log[m])
        /\ \E h \in 1..pos :
             /\ log[h].id = log[m].id
             /\ log[h].complete /\ ~DeleteMe(log[h])
             /\ Credentials(log[h]) = <<t, k, md5(s)>>

\* No two rows were ever in force together with the same credentials.
CredentialsUnique ==
  \A n \in 1..pos : \A m1, m2 \in 1..n :
    IsLive(m1, n) /\ IsLive(m2, n) /\ Credentials(log[m1]) = Credentials(log[m2])
      => log[m1].id = log[m2].id

(***************************************************************************)
(* Nobody with valid credentials is locked out: as long as rows in force   *)
(* have had different credentials, every such row with a secret is what    *)
(* its own key, secret and topic lead to, also after its credentials moved *)
(* between rows or the row was disabled and enabled again.                 *)
(***************************************************************************)
LiveRowAuthorised ==
  CredentialsUnique =>
    \A m \in 1..pos : \A s \in Secrets :
      IsLive(m, pos) /\ log[m].secret_access_key_hash = md5(s) =>
        LET r == log[m] IN
        /\ r.write_access =>
             authorize_write(r.api_key, s, r.topic_name) = Granted(r)
        /\ r.read_access =>
             authorize_read(r.api_key, s, r.topic_name) = Granted(r)

(***************************************************************************)
(* What the two LOG(ERROR) lines "auth lookup failed ... should never      *)
(* happen" claim: an index entry names a row that is there.                *)
(***************************************************************************)
IndexNamesARow ==
  \A k \in DOMAIN apikey2id_ : apikey2id_[k] \in DOMAIN authdata_

(***************************************************************************)
(* What pushgatateway_thread's comments say ("time for report", sleep "at  *)
(* least 10 more seconds", then report again): while the authorizer is in  *)
(* use its reporting thread is there to report.                            *)
(***************************************************************************)
ReporterStaysUp == owner = "using" => push # "exited"

(***************************************************************************)
(* Every record published is visited in the end, unless the consumer       *)
(* thread has left its loop (destruction, or run_ read before it was set). *)
(***************************************************************************)
FeedApplied ==
  \A n \in 1..MaxLog : (Len(log) >= n) ~> (pos >= n \/ bg = "exited")

\* The destructor returns: both threads notice run_ and can be joined.
DestructorReturns == (owner = "joining") ~> (owner = "gone" \/ owner = "constructing")
=============================================================================
