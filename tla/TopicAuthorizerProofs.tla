------------------------ MODULE TopicAuthorizerProofs ------------------------
(***************************************************************************)
(* Proofs about TopicAuthorizer for every set of ids, callers and records  *)
(* and every bound.  RowsMatchFeed is inductive with TypeOK; that a row in *)
(* force is authorised also needs to know that its index entry names it,   *)
(* which in turn needs that the visited records never had two rows in      *)
(* force with the same credentials; that a grant goes to credentials its   *)
(* row was given needs to know that every index entry, stale ones too, was *)
(* made by a visited record of the row it names.                           *)
(***************************************************************************)
EXTENDS TopicAuthorizer, TLAPS

\* Every row present is the one its own index entry names.
IndexNamesLiveRows ==
  CredentialsUnique =>
    \A i \in DOMAIN authdata_ :
      /\ IndexKey(authdata_[i]) \in DOMAIN apikey2id_
      /\ apikey2id_[IndexKey(authdata_[i])] = i

IInv == TypeOK /\ RowsMatchFeed /\ IndexNamesLiveRows

-----------------------------------------------------------------------------
(* Facts about the operators *)

\* A row keeps the columns of its record.
LEMMA AuthDataColumns ==
  ASSUME NEW r \in Feed
  PROVE  /\ AuthData(r).id = r.id
         /\ AuthData(r).tenant_id = r.tenant_id
         /\ AuthData(r).kafka_topic = r.kafka_topic
         /\ AuthData(r).topic_name = r.topic_name
         /\ AuthData(r).api_key = r.api_key
         /\ AuthData(r).secret_access_key_hash = r.secret_access_key_hash
         /\ AuthData(r).read_access = r.read_access
         /\ AuthData(r).write_access = r.write_access
BY DEF AuthData, AuthFields

\* ... and so is found under the key of its record.
LEMMA AuthDataKey ==
  ASSUME NEW r \in Feed
  PROVE  IndexKey(AuthData(r)) = IndexKey(r) /\ Granted(AuthData(r)) = Granted(r)
BY AuthDataColumns DEF IndexKey, Credentials, Granted

\* md5 keys of different credentials differ (md5 is collision free).
LEMMA KeyInjective ==
  ASSUME NEW r, NEW q, IndexKey(r) = IndexKey(q)
  PROVE  Credentials(r) = Credentials(q)
BY DEF IndexKey, md5

\* What std::map's erase does.
LEMMA EraseIs ==
  ASSUME NEW f, NEW k
  PROVE  /\ DOMAIN Erase(f, k) = DOMAIN f \ {k}
         /\ \A x \in DOMAIN f \ {k} : Erase(f, k)[x] = f[x]
BY DEF Erase

\* The plain string erased by the delete path is never an md5 key.
LEMMA PlainIsNoKey ==
  ASSUME NEW x, Plain(x) \in Keys
  PROVE  FALSE
BY DEF Plain, Keys, IndexKey, md5

\* The records in force after one more record: the old ones it is not about,
\* and itself.
LEMMA LiveStep ==
  ASSUME NEW n \in Nat, NEW m \in 1..(n + 1)
  PROVE  IsLive(m, n + 1) <=>
           IF m = n + 1
             THEN log[n + 1].complete /\ ~DeleteMe(log[n + 1])
             ELSE IsLive(m, n) /\ ~(log[n + 1].complete /\ log[n + 1].id = log[m].id)
<1>1. CASE m = n + 1
  BY <1>1 DEF IsLive, IsCurrent
<1>2. CASE m # n + 1
  <2>1. m \in 1..n  BY <1>2
  <2>2. (m + 1)..(n + 1) = ((m + 1)..n) \cup {n + 1}  BY <2>1
  <2> QED  BY <1>2, <2>1, <2>2 DEF IsLive, IsCurrent
<1> QED  BY <1>1, <1>2

\* Appending to the topic leaves its prefixes alone.
LEMMA LiveStable ==
  ASSUME log \in Seq(Feed), NEW r \in Feed, log' = Append(log, r)
  PROVE  /\ Len(log') = Len(log) + 1
         /\ log'[Len(log) + 1] = r
         /\ \A m \in 1..Len(log) : log'[m] = log[m]
         /\ \A n \in 0..Len(log) : \A m \in 1..n : IsLive(m, n)' <=> IsLive(m, n)
<1>1. /\ Len(log') = Len(log) + 1
      /\ log'[Len(log) + 1] = r
      /\ \A m \in 1..Len(log) : log'[m] = log[m]
  OBVIOUS
<1>2. ASSUME NEW n \in 0..Len(log), NEW m \in 1..n
      PROVE  IsLive(m, n)' <=> IsLive(m, n)
  <2>1. Len(log) \in Nat /\ m \in 1..Len(log) /\ \A l \in (m + 1)..n : l \in 1..Len(log)
    BY <1>2
  <2> QED  BY <1>1, <2>1 DEF IsLive, IsCurrent, DeleteMe
<1> QED  BY <1>1, <1>2

-----------------------------------------------------------------------------
(* Type correctness *)

\* The empty std::map has no keys.
LEMMA EmptyMap == DOMAIN << >> = {}
OBVIOUS

\* The maps are empty and the threads at their start.
LEMMA InitType == Init => TypeOK
<1> SUFFICES ASSUME Init PROVE TypeOK
  OBVIOUS
<1>1. log \in Seq(Feed) /\ pos \in 0..Len(log) /\ restarts \in 0..MaxRestarts
  BY BoundsAssumption DEF Init
<1>2. DOMAIN authdata_ = {} /\ DOMAIN apikey2id_ = {}
  BY EmptyMap DEF Init
<1> QED  BY <1>1, <1>2 DEF Init, TypeOK

\* What visiting a record in force does to the rows and to the index.
LEMMA UpsertRows ==
  ASSUME NEW r, VisitUpsert(r)
  PROVE  /\ DOMAIN authdata_' = DOMAIN authdata_ \cup {r.id}
         /\ authdata_'[r.id] = AuthData(r)
         /\ \A i \in DOMAIN authdata_ : i # r.id => authdata_'[i] = authdata_[i]
BY DEF VisitUpsert, Put

\* ... which gains one entry, under the key of the record.
LEMMA UpsertIndex ==
  ASSUME NEW r, NEW h, h = IndexKey(r), VisitUpsert(r)
  PROVE  /\ DOMAIN apikey2id_' = DOMAIN apikey2id_ \cup {h}
         /\ apikey2id_'[h] = r.id
         /\ \A x \in DOMAIN apikey2id_ : x # h => apikey2id_'[x] = apikey2id_[x]
BY DEF VisitUpsert, Put

\* What visiting a record that disables or deletes does: the row goes, the
\* index keeps every entry it had.
LEMMA DeleteEffect ==
  ASSUME NEW r, TypeOK, VisitDeleted(r)
  PROVE  /\ DOMAIN authdata_' = DOMAIN authdata_ \ {r.id}
         /\ \A i \in DOMAIN authdata_ : i # r.id => authdata_'[i] = authdata_[i]
         /\ DOMAIN apikey2id_' = DOMAIN apikey2id_
         /\ \A x \in DOMAIN apikey2id_ : apikey2id_'[x] = apikey2id_[x]
<1>1. CASE r.id \notin DOMAIN authdata_
  BY <1>1 DEF VisitDeleted, maps
<1>2. CASE r.id \in DOMAIN authdata_
  <2> DEFINE k == Plain(<<authdata_[r.id].topic_name, authdata_[r.id].api_key>>)
  <2>1. authdata_' = Erase(authdata_, r.id) /\ apikey2id_' = Erase(apikey2id_, k)
    BY <1>2 DEF VisitDeleted
  <2>2. k \notin DOMAIN apikey2id_
    BY PlainIsNoKey DEF TypeOK
  <2> HIDE DEF k
  <2>3. /\ DOMAIN authdata_' = DOMAIN authdata_ \ {r.id}
        /\ \A i \in DOMAIN authdata_ : i # r.id => authdata_'[i] = authdata_[i]
    BY <2>1, EraseIs
  <2>4. /\ DOMAIN apikey2id_' = DOMAIN apikey2id_
        /\ \A x \in DOMAIN apikey2id_ : apikey2id_'[x] = apikey2id_[x]
    <3>1. /\ DOMAIN apikey2id_' = DOMAIN apikey2id_ \ {k}
          /\ \A x \in DOMAIN apikey2id_ \ {k} : apikey2id_'[x] = apikey2id_[x]
      BY <2>1, EraseIs
    <3> QED  BY <2>2, <3>1
  <2> QED  BY <2>3, <2>4
<1> QED  BY <1>1, <1>2

\* Visiting one record keeps both maps well formed.
LEMMA VisitType ==
  ASSUME TypeOK, Visit
  PROVE  TypeOK'
<1> DEFINE Rows == { AuthData(q) : q \in Feed }
<1>1. PICK r \in Feed : r = log[pos + 1] /\ r.id \in Ids
  BY FeedAssumption DEF TypeOK, Visit, IsRecord
<1>2. log' \in Seq(Feed) /\ pos' \in 0..Len(log')
  BY DEF TypeOK, Visit
<1>3. /\ DOMAIN authdata_' \subseteq Ids /\ DOMAIN apikey2id_' \subseteq Keys
      /\ \A i \in DOMAIN authdata_' : authdata_'[i] \in Rows
      /\ \A k \in DOMAIN apikey2id_' : apikey2id_'[k] \in Ids
  <2>1. CASE VisitIgnored(r)
    BY <2>1 DEF TypeOK, VisitIgnored, maps
  <2>2. CASE VisitDeleted(r)
    <3> HIDE DEF Rows
    <3> QED  BY <2>2, DeleteEffect DEF TypeOK, Rows
  <2>3. CASE VisitUpsert(r)
    <3>1. IndexKey(r) \in Keys /\ AuthData(r) \in Rows
      BY DEF Keys
    <3>2. \A i \in DOMAIN authdata_ : authdata_[i] \in Rows
      BY DEF TypeOK
    <3> HIDE DEF Rows
    <3>3. DOMAIN authdata_' \subseteq Ids /\ \A i \in DOMAIN authdata_' : authdata_'[i] \in Rows
      <4>1. /\ DOMAIN authdata_' = DOMAIN authdata_ \cup {r.id}
            /\ authdata_'[r.id] = AuthData(r)
            /\ \A i \in DOMAIN authdata_ : i # r.id => authdata_'[i] = authdata_[i]
        BY <2>3, UpsertRows
      <4> QED  BY <1>1, <3>1, <3>2, <4>1 DEF TypeOK
    <3>4. DOMAIN apikey2id_' \subseteq Keys /\ \A k \in DOMAIN apikey2id_' : apikey2id_'[k] \in Ids
      <4>1. PICK h : h = IndexKey(r)
        OBVIOUS
      <4>2. /\ DOMAIN apikey2id_' = DOMAIN apikey2id_ \cup {h}
            /\ apikey2id_'[h] = r.id
            /\ \A x \in DOMAIN apikey2id_ : x # h => apikey2id_'[x] = apikey2id_[x]
        BY <2>3, <4>1, UpsertIndex
      <4> QED  BY <1>1, <3>1, <4>1, <4>2 DEF TypeOK
    <3> QED  BY <3>3, <3>4
  <2> QED  BY <1>1, <2>1, <2>2, <2>3 DEF Visit
<1> QED  BY <1>2, <1>3 DEF TypeOK, Visit, threads

\* Every step keeps the types.
LEMMA NextType == TypeOK /\ [Next]_vars => TypeOK'
<1> SUFFICES ASSUME TypeOK, [Next]_vars PROVE TypeOK'
  OBVIOUS
<1>1. ASSUME NEW r \in Feed, Publish(r) PROVE TypeOK'
  BY <1>1 DEF TypeOK, Publish, threads
<1>2. CASE Visit
  BY <1>2, VisitType
<1>3. CASE Loaded \/ BgTestRun \/ BgBatchDone \/ PushTestRun
  BY <1>3 DEF TypeOK, Loaded, BgTestRun, BgBatchDone, PushTestRun, maps
<1>4. CASE ConstructorBody \/ DestructorBegin \/ DestructorJoined
  BY <1>4 DEF TypeOK, ConstructorBody, DestructorBegin, DestructorJoined, maps
<1>5. CASE Restart
  <2>1. DOMAIN authdata_' = {} /\ DOMAIN apikey2id_' = {}
    BY <1>5, EmptyMap DEF Restart
  <2>2. restarts' \in 0..MaxRestarts
    BY <1>5, BoundsAssumption DEF TypeOK, Restart
  <2>3. log' \in Seq(Feed) /\ pos' \in 0..Len(log')
    BY <1>5 DEF TypeOK, Restart
  <2> QED  BY <1>5, <2>1, <2>2, <2>3 DEF TypeOK, Restart
<1>6. CASE UNCHANGED vars
  BY <1>6 DEF TypeOK, vars
<1> QED  BY <1>1, <1>2, <1>3, <1>4, <1>5, <1>6 DEF Next

\* The authorizer's two maps and its threads keep their types for ever.
THEOREM TypeCorrect == Spec => []TypeOK
BY InitType, NextType, PTL DEF Spec

-----------------------------------------------------------------------------
(* The rows are what the visited part of the topic says *)

\* Nothing is visited and no row is there.
LEMMA InitRows == Init => RowsMatchFeed
<1> SUFFICES ASSUME Init PROVE RowsMatchFeed
  OBVIOUS
<1>1. DOMAIN authdata_ = {} /\ 1..pos = {}
  BY EmptyMap DEF Init
<1> QED  BY <1>1 DEF RowsMatchFeed

\* Only the topic and the position decide which records are in force.
LEMMA LiveUnchanged ==
  ASSUME UNCHANGED log, NEW m, NEW n
  PROVE  IsLive(m, n)' <=> IsLive(m, n)
BY DEF IsLive, IsCurrent, DeleteMe

\* Visiting one record brings its row, and only its row, up to date.
LEMMA VisitRows ==
  ASSUME TypeOK, RowsMatchFeed, Visit
  PROVE  RowsMatchFeed'
<1> DEFINE n == pos + 1
<1>1. /\ pos \in Nat /\ n \in 1..Len(log) /\ pos' = n /\ log' = log
  BY DEF TypeOK, Visit
<1>2. PICK r \in Feed : r = log[n] /\ r.id \in Ids /\ r.complete \in BOOLEAN
  BY <1>1, FeedAssumption DEF TypeOK, IsRecord
<1>3. /\ \A m \in 1..pos : IsLive(m, n) <=> IsLive(m, pos) /\ ~(r.complete /\ r.id = log[m].id)
      /\ IsLive(n, n) <=> r.complete /\ ~DeleteMe(r)
  <2>1. ASSUME NEW m \in 1..pos
        PROVE  IsLive(m, n) <=> IsLive(m, pos) /\ ~(r.complete /\ r.id = log[m].id)
    <3>1. m \in 1..(pos + 1) /\ m # pos + 1
      BY <1>1
    <3> QED  BY <1>1, <1>2, <3>1, LiveStep
  <2>2. IsLive(n, n) <=> r.complete /\ ~DeleteMe(r)
    <3>1. pos + 1 \in 1..(pos + 1)
      BY <1>1
    <3>2. IsLive(pos + 1, pos + 1) <=> log[pos + 1].complete /\ ~DeleteMe(log[pos + 1])
      BY <1>1, <3>1, LiveStep
    <3> QED  BY <1>2, <3>2
  <2> QED  BY <2>1, <2>2
<1>4. 1..n = 1..pos \cup {n} /\ n \notin 1..pos
  BY <1>1
<1> HIDE DEF n
<1> DEFINE Inv1 == \A i \in DOMAIN authdata_' : \E m \in 1..n : IsLive(m, n) /\ log[m].id = i
           Inv2 == \A m \in 1..n : IsLive(m, n) =>
                     log[m].id \in DOMAIN authdata_' /\ authdata_'[log[m].id] = AuthData(log[m])
<1>5. SUFFICES Inv1 /\ Inv2
  BY <1>1 DEF RowsMatchFeed, IsLive, IsCurrent, DeleteMe, AuthData
<1>6. CASE VisitIgnored(r)
  <2>1. ~r.complete /\ authdata_' = authdata_
    BY <1>6 DEF VisitIgnored, maps
  <2> QED  BY <1>2, <1>3, <1>4, <2>1 DEF RowsMatchFeed
<1>7. CASE VisitDeleted(r)
  <2>1. r.complete /\ DeleteMe(r)
    BY <1>7 DEF VisitDeleted
  <2>2. /\ DOMAIN authdata_' = DOMAIN authdata_ \ {r.id}
        /\ \A i \in DOMAIN authdata_ : i # r.id => authdata_'[i] = authdata_[i]
    BY <1>7, DeleteEffect
  <2>3. Inv1
    BY <1>2, <1>3, <1>4, <2>1, <2>2 DEF RowsMatchFeed
  <2>4. Inv2
    BY <1>2, <1>3, <1>4, <2>1, <2>2 DEF RowsMatchFeed
  <2> QED  BY <2>3, <2>4
<1>8. CASE VisitUpsert(r)
  <2>1. r.complete /\ ~DeleteMe(r)
    BY <1>8 DEF VisitUpsert
  <2>2. /\ DOMAIN authdata_' = DOMAIN authdata_ \cup {r.id}
        /\ authdata_'[r.id] = AuthData(r)
        /\ \A i \in DOMAIN authdata_ : i # r.id => authdata_'[i] = authdata_[i]
    BY <1>8, UpsertRows
  <2>3. Inv1
    BY <1>2, <1>3, <1>4, <2>1, <2>2 DEF RowsMatchFeed
  <2>4. Inv2
    BY <1>2, <1>3, <1>4, <2>1, <2>2 DEF RowsMatchFeed
  <2> QED  BY <2>3, <2>4
<1> QED  BY <1>2, <1>6, <1>7, <1>8 DEF Visit, n

\* No step but Visit and Restart touches the rows or the visited records.
LEMMA NextRows == TypeOK /\ RowsMatchFeed /\ [Next]_vars => RowsMatchFeed'
<1> SUFFICES ASSUME TypeOK, RowsMatchFeed, [Next]_vars PROVE RowsMatchFeed'
  OBVIOUS
<1>1. ASSUME NEW r \in Feed, Publish(r) PROVE RowsMatchFeed'
  <2>1. log \in Seq(Feed) /\ log' = Append(log, r) /\ pos' = pos /\ authdata_' = authdata_
    BY <1>1 DEF TypeOK, Publish
  <2>2. pos \in 0..Len(log) /\ \A m \in 1..pos : m \in 1..Len(log)
    BY DEF TypeOK
  <2>3. \A m \in 1..pos : (IsLive(m, pos)' <=> IsLive(m, pos)) /\ log'[m] = log[m]
    BY <2>1, <2>2, LiveStable
  <2> QED  BY <2>1, <2>3, ZenonT(60) DEF RowsMatchFeed
<1>2. CASE Visit
  BY <1>2, VisitRows
<1>3. CASE UNCHANGED <<log, pos, authdata_>>
  BY <1>3, LiveUnchanged DEF RowsMatchFeed
<1>4. CASE Restart
  <2>1. DOMAIN authdata_' = {} /\ 1..pos' = {}
    BY <1>4, EmptyMap DEF Restart
  <2> QED  BY <2>1 DEF RowsMatchFeed
<1> QED
  BY <1>1, <1>2, <1>3, <1>4 DEF Next, Loaded, BgTestRun, BgBatchDone, PushTestRun,
     ConstructorBody, DestructorBegin, DestructorJoined, maps, vars

\* authdata_ is always exactly what the visited part of the auth topic says.
THEOREM RowsMatchFeedAlways == Spec => []RowsMatchFeed
<1>1. Init => TypeOK /\ RowsMatchFeed
  BY InitType, InitRows
<1>2. (TypeOK /\ RowsMatchFeed) /\ [Next]_vars => (TypeOK /\ RowsMatchFeed)'
  BY NextType, NextRows
<1> QED  BY <1>1, <1>2, PTL DEF Spec

-----------------------------------------------------------------------------
(* Grants *)

\* Every index entry was made by a visited record that named its row.
IndexFromFeed ==
  \A x \in DOMAIN apikey2id_ :
    \E h \in 1..pos :
      /\ log[h].complete /\ ~DeleteMe(log[h])
      /\ IndexKey(log[h]) = x /\ log[h].id = apikey2id_[x]

\* Visiting one record keeps the origin of every entry, and gives the new one.
LEMMA VisitOrigins ==
  ASSUME TypeOK, IndexFromFeed, Visit
  PROVE  IndexFromFeed'
<1> SUFFICES ASSUME NEW x \in DOMAIN apikey2id_'
             PROVE  \E h \in 1..pos' : /\ log'[h].complete /\ ~DeleteMe(log'[h])
                                       /\ IndexKey(log'[h]) = x
                                       /\ log'[h].id = apikey2id_'[x]
  BY DEF IndexFromFeed, DeleteMe, IndexKey, Credentials, md5
<1>1. /\ pos \in Nat /\ pos' = pos + 1 /\ log' = log /\ pos + 1 \in 1..pos'
      /\ \A h \in 1..pos : h \in 1..pos'
  BY DEF TypeOK, Visit
<1>2. PICK r \in Feed : r = log[pos + 1]
  BY DEF TypeOK, Visit
<1>3. CASE x \in DOMAIN apikey2id_ /\ apikey2id_'[x] = apikey2id_[x]
  BY <1>1, <1>3 DEF IndexFromFeed
<1>4. CASE VisitIgnored(r)
  BY <1>3, <1>4 DEF VisitIgnored, maps
<1>5. CASE VisitDeleted(r)
  BY <1>3, <1>5, DeleteEffect
<1>6. CASE VisitUpsert(r)
  <2>1. PICK g : g = IndexKey(r)
    OBVIOUS
  <2>2. /\ DOMAIN apikey2id_' = DOMAIN apikey2id_ \cup {g}
        /\ apikey2id_'[g] = r.id
        /\ \A y \in DOMAIN apikey2id_ : y # g => apikey2id_'[y] = apikey2id_[y]
    BY <1>6, <2>1, UpsertIndex
  <2>3. CASE x = g
    BY <1>1, <1>2, <1>6, <2>1, <2>2, <2>3 DEF VisitUpsert
  <2>4. CASE x # g
    BY <1>3, <2>2, <2>4
  <2> QED  BY <2>3, <2>4
<1> QED  BY <1>2, <1>4, <1>5, <1>6 DEF Visit

\* Every step keeps the origin of every entry.
LEMMA NextOrigins == TypeOK /\ IndexFromFeed /\ [Next]_vars => IndexFromFeed'
<1> SUFFICES ASSUME TypeOK, IndexFromFeed, [Next]_vars PROVE IndexFromFeed'
  OBVIOUS
<1>1. ASSUME NEW r \in Feed, Publish(r) PROVE IndexFromFeed'
  <2>1. /\ log \in Seq(Feed) /\ log' = Append(log, r) /\ pos' = pos
        /\ apikey2id_' = apikey2id_
    BY <1>1 DEF TypeOK, Publish
  <2>2. \A h \in 1..pos : h \in 1..Len(log)
    BY DEF TypeOK
  <2>3. \A h \in 1..pos : log'[h] = log[h]
    BY <2>1, <2>2
  <2>4. ASSUME NEW x \in DOMAIN apikey2id_
        PROVE  \E h \in 1..pos : /\ log'[h].complete /\ ~DeleteMe(log'[h])
                                  /\ IndexKey(log'[h]) = x
                                  /\ log'[h].id = apikey2id_[x]
    BY <2>3 DEF IndexFromFeed
  <2> QED  BY <2>1, <2>4, Zenon DEF IndexFromFeed, DeleteMe, IndexKey, Credentials, md5
<1>2. CASE Visit
  BY <1>2, VisitOrigins
<1>3. CASE UNCHANGED <<log, pos, apikey2id_>>
  BY <1>3 DEF IndexFromFeed, DeleteMe, IndexKey, Credentials, md5
<1>4. CASE Restart
  <2>1. DOMAIN apikey2id_' = {}
    BY <1>4, EmptyMap DEF Restart
  <2> QED  BY <2>1 DEF IndexFromFeed
<1> QED
  BY <1>1, <1>2, <1>3, <1>4 DEF Next, Loaded, BgTestRun, BgBatchDone, PushTestRun,
     ConstructorBody, DestructorBegin, DestructorJoined, maps, vars

\* What a granting authorize_write found.
LEMMA WriteGranted ==
  ASSUME NEW k, NEW s, NEW t, authorize_write(k, s, t) # Denied
  PROVE  \E i \in DOMAIN authdata_ :
           /\ RowAccepts(authdata_[i], s, t) /\ authdata_[i].write_access
           /\ authorize_write(k, s, t) = Granted(authdata_[i])
           /\ md5(<<t, k, md5(s)>>) \in DOMAIN apikey2id_
           /\ apikey2id_[md5(<<t, k, md5(s)>>)] = i
<1> DEFINE ok == { ad \in Found(k, s, t) : RowAccepts(ad, s, t) /\ ad.write_access }
<1>1. ok # {} /\ authorize_write(k, s, t) = Granted(CHOOSE ad \in ok : TRUE)
  BY DEF authorize_write
<1>2. PICK ad : ad \in ok /\ ad = (CHOOSE x \in ok : TRUE)
  BY <1>1
<1>3. PICK i \in DOMAIN authdata_ :
        /\ ad = authdata_[i]
        /\ md5(<<t, k, md5(s)>>) \in DOMAIN apikey2id_
        /\ apikey2id_[md5(<<t, k, md5(s)>>)] = i
  BY <1>2 DEF Found
<1> QED  BY <1>1, <1>2, <1>3

\* A grant is backed by a row in force as the auth topic describes it, for
\* credentials that were given to that row.
THEOREM GrantsAreCurrent == Spec => []GrantIsCurrent
<1>1. TypeOK /\ RowsMatchFeed /\ IndexFromFeed => GrantIsCurrent
  <2> SUFFICES ASSUME TypeOK, RowsMatchFeed, IndexFromFeed,
                      NEW k \in ApiKeys, NEW s \in Secrets, NEW t \in TopicNames,
                      authorize_write(k, s, t) # Denied
               PROVE  \E m \in 1..pos :
                        /\ IsLive(m, pos) /\ log[m].topic_name = t /\ log[m].write_access
                        /\ log[m].secret_access_key_hash \in {NoSecret, md5(s)}
                        /\ authorize_write(k, s, t) = Granted(log[m])
                        /\ \E h \in 1..pos :
                             /\ log[h].id = log[m].id
                             /\ log[h].complete /\ ~DeleteMe(log[h])
                             /\ Credentials(log[h]) = <<t, k, md5(s)>>
    BY DEF GrantIsCurrent
  <2>1. PICK i \in DOMAIN authdata_ :
           /\ RowAccepts(authdata_[i], s, t) /\ authdata_[i].write_access
           /\ authorize_write(k, s, t) = Granted(authdata_[i])
           /\ md5(<<t, k, md5(s)>>) \in DOMAIN apikey2id_
           /\ apikey2id_[md5(<<t, k, md5(s)>>)] = i
    BY WriteGranted
  <2>2. PICK m \in 1..pos : IsLive(m, pos) /\ log[m].id = i /\ authdata_[i] = AuthData(log[m])
    BY <2>1 DEF RowsMatchFeed
  <2>3. log[m] \in Feed
    BY <2>2 DEF TypeOK
  <2>4. PICK h \in 1..pos :
          /\ log[h].complete /\ ~DeleteMe(log[h])
          /\ IndexKey(log[h]) = md5(<<t, k, md5(s)>>) /\ log[h].id = i
    BY <2>1 DEF IndexFromFeed
  <2>5. Credentials(log[h]) = <<t, k, md5(s)>>
    BY <2>4 DEF IndexKey, md5
  <2>6. /\ log[m].topic_name = t /\ log[m].write_access
        /\ log[m].secret_access_key_hash \in {NoSecret, md5(s)}
        /\ authorize_write(k, s, t) = Granted(log[m])
    BY <2>1, <2>2, <2>3, AuthDataColumns, AuthDataKey DEF RowAccepts
  <2> QED  BY <2>2, <2>4, <2>5, <2>6
<1>2. Init => IndexFromFeed
  BY EmptyMap DEF Init, IndexFromFeed
<1>3. (TypeOK /\ IndexFromFeed) /\ [Next]_vars => (TypeOK /\ IndexFromFeed)'
  BY NextType, NextOrigins
<1> QED  BY <1>1, <1>2, <1>3, InitType, RowsMatchFeedAlways, PTL DEF Spec

\* The row an index entry names is the one both calls decide on.
LEMMA IndexedRowFound ==
  ASSUME NEW r, NEW s, r.secret_access_key_hash = md5(s),
         NEW i \in DOMAIN authdata_, authdata_[i] = AuthData(r), r \in Feed,
         IndexKey(r) \in DOMAIN apikey2id_, apikey2id_[IndexKey(r)] = i
  PROVE  /\ r.write_access => authorize_write(r.api_key, s, r.topic_name) = Granted(r)
         /\ r.read_access => authorize_read(r.api_key, s, r.topic_name) = Granted(r)
<1>1. IndexKey(r) = md5(<<r.topic_name, r.api_key, md5(s)>>)
  BY DEF IndexKey, Credentials
<1>2. Found(r.api_key, s, r.topic_name) = {AuthData(r)}
  BY <1>1 DEF Found
<1>3. RowAccepts(AuthData(r), s, r.topic_name)
  BY AuthDataColumns DEF RowAccepts
<1>4. ASSUME r.write_access PROVE authorize_write(r.api_key, s, r.topic_name) = Granted(r)
  <2>1. { ad \in Found(r.api_key, s, r.topic_name) :
            RowAccepts(ad, s, r.topic_name) /\ ad.write_access } = {AuthData(r)}
    BY <1>2, <1>3, <1>4, AuthDataColumns
  <2>2. (CHOOSE ad \in {AuthData(r)} : TRUE) = AuthData(r)
    OBVIOUS
  <2> QED  BY <2>1, <2>2, AuthDataKey DEF authorize_write
<1>5. ASSUME r.read_access PROVE authorize_read(r.api_key, s, r.topic_name) = Granted(r)
  <2>1. { ad \in Found(r.api_key, s, r.topic_name) :
            RowAccepts(ad, s, r.topic_name) /\ ad.read_access } = {AuthData(r)}
    BY <1>2, <1>3, <1>5, AuthDataColumns
  <2>2. (CHOOSE ad \in {AuthData(r)} : TRUE) = AuthData(r)
    OBVIOUS
  <2> QED  BY <2>1, <2>2, AuthDataKey DEF authorize_read
<1> QED  BY <1>4, <1>5

-----------------------------------------------------------------------------
(* Unique credentials and the index *)

\* Credentials that are unique after a step were unique before it.
LEMMA UniqueBefore ==
  ASSUME TypeOK, [Next]_vars, ~Restart, CredentialsUnique'
  PROVE  CredentialsUnique
<1> SUFFICES ASSUME NEW n \in 1..pos, NEW m1 \in 1..n, NEW m2 \in 1..n,
                    IsLive(m1, n), IsLive(m2, n),
                    Credentials(log[m1]) = Credentials(log[m2])
             PROVE  log[m1].id = log[m2].id
  BY DEF CredentialsUnique
<1>1. pos \in 0..Len(log) /\ log \in Seq(Feed)
  BY DEF TypeOK
<1>2. n \in 0..Len(log) /\ m1 \in 1..Len(log) /\ m2 \in 1..Len(log)
  BY <1>1
<1>3. ASSUME NEW r \in Feed, Publish(r) PROVE log[m1].id = log[m2].id
  <2>1. log' = Append(log, r) /\ pos' = pos
    BY <1>3 DEF Publish
  <2>2. /\ log'[m1] = log[m1] /\ log'[m2] = log[m2]
        /\ IsLive(m1, n)' /\ IsLive(m2, n)'
    BY <1>1, <1>2, <2>1, LiveStable
  <2> QED  BY <2>1, <2>2, ZenonT(60) DEF CredentialsUnique, Credentials
<1>4. CASE UNCHANGED log /\ pos' \in {pos, pos + 1}
  <2>1. n \in 1..pos'
    BY <1>1, <1>4
  <2>2. IsLive(m1, n)' /\ IsLive(m2, n)'
    BY <1>4, LiveUnchanged
  <2> QED  BY <1>4, <2>1, <2>2 DEF CredentialsUnique, Credentials
<1> QED
  BY <1>3, <1>4 DEF Next, Visit, Loaded, BgTestRun, BgBatchDone, PushTestRun,
     ConstructorBody, DestructorBegin, DestructorJoined, vars

\* The key of a row that stays is not the key of the record that arrives.
LEMMA OtherKeysDiffer ==
  ASSUME TypeOK, RowsMatchFeed, Visit, CredentialsUnique',
         log[pos + 1].complete, ~DeleteMe(log[pos + 1]),
         NEW i \in DOMAIN authdata_, i # log[pos + 1].id
  PROVE  IndexKey(authdata_[i]) # IndexKey(log[pos + 1])
<1>1. PICK n \in Nat : n = pos
  BY DEF TypeOK
<1>2. n + 1 \in 0..Len(log) /\ n + 1 \in 1..(n + 1)
  BY <1>1 DEF TypeOK, Visit
<1>3. PICK m \in 1..n : IsLive(m, n) /\ log[m].id = i /\ authdata_[i] = AuthData(log[m])
  BY <1>1 DEF RowsMatchFeed
<1>4. m \in 1..(n + 1) /\ m # n + 1 /\ log[m] \in Feed
  BY <1>2, <1>3 DEF TypeOK
<1>5. IsLive(m, n + 1) /\ IsLive(n + 1, n + 1)
  BY <1>1, <1>2, <1>3, <1>4, LiveStep
<1>6. Credentials(log[m]) # Credentials(log[n + 1])
  <2>1. pos' = n + 1 /\ log' = log /\ n + 1 \in 1..pos'
    BY <1>1, <1>2 DEF Visit
  <2>2. IsLive(m, n + 1)' /\ IsLive(n + 1, n + 1)'
    BY <1>5, <2>1, LiveUnchanged
  <2> QED  BY <1>1, <1>2, <1>3, <1>4, <2>1, <2>2 DEF CredentialsUnique, Credentials
<1> QED  BY <1>1, <1>3, <1>4, <1>6, AuthDataKey, KeyInjective

\* Visiting one record keeps an index entry for every row in force.
LEMMA VisitIndex ==
  ASSUME TypeOK, RowsMatchFeed, IndexNamesLiveRows, Visit,
         CredentialsUnique, CredentialsUnique'
  PROVE  \A i \in DOMAIN authdata_' :
           /\ IndexKey(authdata_'[i]) \in DOMAIN apikey2id_'
           /\ apikey2id_'[IndexKey(authdata_'[i])] = i
<1>1. PICK r \in Feed : r = log[pos + 1]
  BY DEF TypeOK, Visit
<1>2. CASE VisitIgnored(r)
  BY <1>2 DEF VisitIgnored, maps, IndexNamesLiveRows
<1>3. CASE VisitDeleted(r)
  <2>1. /\ DOMAIN authdata_' = DOMAIN authdata_ \ {r.id}
        /\ \A i \in DOMAIN authdata_ : i # r.id => authdata_'[i] = authdata_[i]
        /\ DOMAIN apikey2id_' = DOMAIN apikey2id_
        /\ \A x \in DOMAIN apikey2id_ : apikey2id_'[x] = apikey2id_[x]
    BY <1>3, DeleteEffect
  <2> QED  BY <2>1 DEF IndexNamesLiveRows
<1>4. CASE VisitUpsert(r)
  <2>1. PICK h : h = IndexKey(r)
    OBVIOUS
  <2>2. /\ DOMAIN authdata_' = DOMAIN authdata_ \cup {r.id}
        /\ authdata_'[r.id] = AuthData(r)
        /\ \A i \in DOMAIN authdata_ : i # r.id => authdata_'[i] = authdata_[i]
    BY <1>4, UpsertRows
  <2>3. /\ DOMAIN apikey2id_' = DOMAIN apikey2id_ \cup {h}
        /\ apikey2id_'[h] = r.id
        /\ \A x \in DOMAIN apikey2id_ : x # h => apikey2id_'[x] = apikey2id_[x]
    BY <1>4, <2>1, UpsertIndex
  <2>4. IndexKey(authdata_'[r.id]) = h
    BY <2>1, <2>2, AuthDataKey
  <2>5. ASSUME NEW i \in DOMAIN authdata_, i # r.id
        PROVE  /\ IndexKey(authdata_'[i]) \in DOMAIN apikey2id_'
               /\ apikey2id_'[IndexKey(authdata_'[i])] = i
    <3>1. PICK g : g = IndexKey(authdata_[i])
      OBVIOUS
    <3>2. g # h
      BY <1>1, <1>4, <2>1, <2>5, <3>1, OtherKeysDiffer DEF VisitUpsert
    <3>3. g \in DOMAIN apikey2id_ /\ apikey2id_[g] = i
      BY <3>1 DEF IndexNamesLiveRows
    <3>4. authdata_'[i] = authdata_[i]
      BY <2>2, <2>5
    <3> QED  BY <2>3, <3>1, <3>2, <3>3, <3>4
  <2>6. ASSUME NEW i \in DOMAIN authdata_', i = r.id
        PROVE  /\ IndexKey(authdata_'[i]) \in DOMAIN apikey2id_'
               /\ apikey2id_'[IndexKey(authdata_'[i])] = i
    BY <2>3, <2>4, <2>6
  <2> QED  BY <2>2, <2>5, <2>6
<1> QED  BY <1>1, <1>2, <1>3, <1>4 DEF Visit

\* Every step keeps an index entry for every row in force.
LEMMA NextIndex == IInv /\ [Next]_vars => IndexNamesLiveRows'
<1> SUFFICES ASSUME IInv, [Next]_vars, CredentialsUnique'
             PROVE  \A i \in DOMAIN authdata_' :
                      /\ IndexKey(authdata_'[i]) \in DOMAIN apikey2id_'
                      /\ apikey2id_'[IndexKey(authdata_'[i])] = i
  BY DEF IndexNamesLiveRows, IndexKey, Credentials, md5
<1>0. CASE ~Restart /\ CredentialsUnique
  <2>1. CASE Visit
    BY <1>0, <2>1, VisitIndex DEF IInv
  <2>2. CASE UNCHANGED <<authdata_, apikey2id_>>
    BY <1>0, <2>2 DEF IInv, IndexNamesLiveRows
  <2> QED
    BY <1>0, <2>1, <2>2 DEF Next, Publish, Loaded, BgTestRun, BgBatchDone, PushTestRun,
       ConstructorBody, DestructorBegin, DestructorJoined, maps, vars
<1>1. CASE Restart
  <2>1. DOMAIN authdata_' = {}
    BY <1>1, EmptyMap DEF Restart
  <2> QED  BY <2>1
<1> QED  BY <1>0, <1>1, UniqueBefore DEF IInv

\* The empty authorizer satisfies the inductive invariant.
LEMMA InitIInv == Init => IInv
<1> SUFFICES ASSUME Init PROVE IInv
  OBVIOUS
<1>1. IndexNamesLiveRows
  BY EmptyMap DEF Init, IndexNamesLiveRows
<1> QED  BY <1>1, InitType, InitRows DEF IInv

\* The inductive invariant behind LiveRowAuthorised.
THEOREM InductiveInvariant == Spec => []IInv
<1>1. IInv /\ [Next]_vars => IInv'
  BY NextType, NextRows, NextIndex DEF IInv
<1> QED  BY <1>1, InitIInv, PTL DEF Spec

\* With unique credentials nobody whose row is in force is locked out.
THEOREM LiveRowsAreAuthorised == Spec => []LiveRowAuthorised
<1>1. IInv => LiveRowAuthorised
  <2> SUFFICES ASSUME IInv, CredentialsUnique,
                      NEW m \in 1..pos, NEW s \in Secrets, IsLive(m, pos),
                      log[m].secret_access_key_hash = md5(s)
               PROVE  /\ log[m].write_access =>
                           authorize_write(log[m].api_key, s, log[m].topic_name) = Granted(log[m])
                      /\ log[m].read_access =>
                           authorize_read(log[m].api_key, s, log[m].topic_name) = Granted(log[m])
    BY DEF LiveRowAuthorised
  <2>1. PICK r \in Feed : r = log[m]
    BY DEF IInv, TypeOK
  <2>2. r.id \in DOMAIN authdata_ /\ authdata_[r.id] = AuthData(r)
    BY <2>1 DEF IInv, RowsMatchFeed
  <2>3. IndexKey(r) \in DOMAIN apikey2id_ /\ apikey2id_[IndexKey(r)] = r.id
    BY <2>2, AuthDataKey DEF IInv, IndexNamesLiveRows
  <2> QED  BY <2>1, <2>2, <2>3, IndexedRowFound
<1> QED  BY <1>1, InductiveInvariant, PTL
=============================================================================
