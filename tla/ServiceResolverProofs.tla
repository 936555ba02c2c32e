----------------------- MODULE ServiceResolverProofs -----------------------
(***************************************************************************)
(* Proofs about ServiceResolver, for any calls, any number of channels and *)
(* answers of any length: a call's callback runs once, and what it is told *)
(* is the answer to its own lookup.                                        *)
(***************************************************************************)
EXTENDS ServiceResolver, SequenceFacts

\* A callback for call c is posted; none is posted twice.
In(q, c) == \E m \in ToSet(q) : m.call = c
Single(q) == IsInjective(q) /\ \A m, n \in ToSet(q) : m.call = n.call => m = n
InIos(c) == In(ios, c)

\* No callback is posted twice, a call is in one place at most, and unless
\* something was used after its end a call that was made is in one.
PlaceOf(c) ==
  /\ query[c].chan # 0 => ~InIos(c) /\ fired[c] = 0 /\ Started(c)
  /\ InIos(c) => fired[c] = 0 /\ Started(c)
  /\ fired[c] # 0 => Started(c)
  /\ Started(c) /\ ~crashed => query[c].chan # 0 \/ InIos(c) \/ fired[c] # 0

Place == Single(ios) /\ \A c \in Calls : PlaceOf(c)

\* There is a channel from when run_task has begun, and from when a lookup was
\* put on one.
Channel ==
  /\ is_init = "yes" \/ pc # "wait" => channel # 0
  /\ pc = "processing" => processing # 0
  /\ \A c \in Calls : kind[c] \notin {"none", "bad"} => channel # 0 \/ crashed

\* A lookup on a channel is its call's first, or the lookup of the host that a
\* whole SRV answer named first.
Lookup(c) ==
  \/ query[c].what = "srv" /\ kind[c] \in {"query_srv", "srv"}
  \/ query[c].what = "host" /\ kind[c] = "host" /\ query[c].of = 0
  \/ query[c].what = "host" /\ kind[c] = "srv" /\ query[c].of = 1 /\ AllSRV(seen[c])

\* What is posted for a call is an answer to such a lookup.
Answer(m) ==
  \/ /\ m.what = "srv" /\ kind[m.call] \in {"query_srv", "srv"}
     /\ m.ec = "ok" /\ m.v # << >> =>
          AllSRV(seen[m.call]) /\ Len(m.v) = Len(seen[m.call]) /\ m.v[1] = 1
  \/ m.what = "host" /\ kind[m.call] = "host" /\ (m.ec = "ok" => m.v = <<0>>)
  \/ m.what = "host" /\ kind[m.call] = "srv" /\ (m.ec = "ok" => AllSRV(seen[m.call]) /\ m.v = <<1>>)
  \/ m.what = "end" /\ kind[m.call] = "bad" /\ m.ec = "error"

Lookups == \A c \in Calls : query[c].chan # 0 => Lookup(c)
Answers == \A m \in ToSet(ios) : Answer(m)

IInv == TypeOK /\ Place /\ Channel /\ Lookups /\ Answers /\ SuccessIsWhole

-----------------------------------------------------------------------------
(* Posted callbacks *)

LEMMA PostFacts ==
  ASSUME NEW q \in Seq(Messages), NEW m \in Messages
  PROVE  /\ Append(q, m) \in Seq(Messages) /\ ToSet(Append(q, m)) = ToSet(q) \cup {m}
         /\ \A c : In(Append(q, m), c) <=> In(q, c) \/ c = m.call
         /\ Single(q) /\ ~In(q, m.call) => Single(Append(q, m))
<1> DEFINE M == Messages
<1>0. q \in Seq(M) /\ m \in M
  OBVIOUS
<1> HIDE DEF M
<1>1. /\ Append(q, m) \in Seq(M) /\ ToSet(Append(q, m)) = ToSet(q) \cup {m}
      /\ IsInjective(q) /\ m \notin ToSet(q) => IsInjective(Append(q, m))
  BY <1>0, ElementsOfAppend
<1> QED  BY <1>1, Zenon DEF M, In, Single

LEMMA TakeFacts ==
  ASSUME NEW q \in Seq(Messages), q # << >>
  PROVE  /\ Head(q) \in Messages /\ Tail(q) \in Seq(Messages)
         /\ ToSet(q) = {Head(q)} \cup ToSet(Tail(q))
         /\ In(q, Head(q).call)
         /\ Single(q) => /\ Single(Tail(q)) /\ ~In(Tail(q), Head(q).call)
                         /\ \A c : In(Tail(q), c) <=> In(q, c) /\ c # Head(q).call
<1> DEFINE M == Messages
<1>0. q \in Seq(M)
  OBVIOUS
<1> HIDE DEF M
<1>1. /\ Head(q) \in M /\ Tail(q) \in Seq(M) /\ ToSet(q) = {Head(q)} \cup ToSet(Tail(q))
      /\ IsInjective(q) => IsInjective(Tail(q)) /\ Head(q) \notin ToSet(Tail(q))
  BY <1>0, ElementsOfTail
<1> QED  BY <1>1, Zenon DEF M, In, Single

\* A set is brought into a sequence that has each of its elements once.
LEMMA SetToSeqFacts ==
  ASSUME NEW S, IsFiniteSet(S)
  PROVE  /\ SetToSeq(S) \in Seq(S) /\ IsInjective(SetToSeq(S)) /\ ToSet(SetToSeq(S)) = S
<1> DEFINE n == Cardinality(S)
           f == SetToSeq(S)
<1>1. n \in Nat
  BY FS_CardinalityType
<1>2. \E g \in [1..n -> S] : IsInjective(g)
  <2>1. ExistsBijection(1..n, S)
    BY FS_CardinalityType
  <2>2. PICK g \in Bijection(1..n, S) : TRUE
    BY <2>1 DEF ExistsBijection
  <2>3. g \in [1..n -> S] /\ IsInjective(g)
    BY <2>2 DEF Bijection, Injection, IsInjective
  <2> QED  BY <2>3
<1>3. f \in [1..n -> S] /\ IsInjective(f)
  BY <1>2 DEF SetToSeq
<1> HIDE DEF f
<1>4. f \in Seq(S) /\ Len(f) = n
  BY <1>1, <1>3
<1>5. ToSet(f) \subseteq S /\ Cardinality(ToSet(f)) = n /\ IsFiniteSet(ToSet(f))
  BY <1>3, <1>4, LengthIsSize, ElementsAt
<1>6. ToSet(f) = S
  BY <1>5, FS_Subset
<1> QED  BY <1>3, <1>4, <1>6 DEF f

\* The posted callbacks of a call are one or none.
LEMMA PostedIsOne ==
  ASSUME TypeOK, Single(ios), NEW c
  PROVE  Posted(c) = IF InIos(c) THEN 1 ELSE 0
<1> DEFINE P == {i \in DOMAIN ios : ios[i].call = c}
<1>0. ios \in Seq(Messages) /\ DOMAIN ios = 1..Len(ios)
  BY DEF TypeOK
<1>1. CASE InIos(c)
  <2>1. PICK m \in ToSet(ios) : m.call = c
    BY <1>1 DEF InIos, In
  <2>2. PICK i \in DOMAIN ios : ios[i] = m
    BY DEF ToSet
  <2>3. ASSUME NEW j \in DOMAIN ios, ios[j].call = c PROVE j = i
    <3>1. ios[j] \in ToSet(ios)
      BY DEF ToSet
    <3>2. ios[j] = ios[i]
      BY <2>1, <2>2, <2>3, <3>1, Zenon DEF Single
    <3> QED  BY <3>2, Zenon DEF Single, IsInjective
  <2>4. P = {i}
    BY <2>1, <2>2, <2>3, Zenon
  <2> QED  BY <1>1, <2>4, FS_Singleton DEF Posted
<1>2. CASE ~InIos(c)
  <2>1. P = {}
    BY <1>2, Zenon DEF InIos, In, ToSet
  <2> QED  BY <1>2, <2>1, FS_EmptySet DEF Posted
<1> QED  BY <1>1, <1>2

-----------------------------------------------------------------------------
(* SRV answers *)

\* ares_srv_callback gives no more records than the bound, and a result other
\* than an error or nothing is the whole answer.
LEMMA ParseFacts ==
  ASSUME NEW p \in Packets
  PROVE  /\ p.rrs \in Seq(RRs)
         /\ parse_srv(p).ec \in {"ok", "error"} /\ parse_srv(p).v \in Seq(0..MaxRR)
         /\ parse_srv(p).ec = "ok" /\ parse_srv(p).v # << >> =>
              AllSRV(p.rrs) /\ Len(parse_srv(p).v) = Len(p.rrs) /\ parse_srv(p).v[1] = 1
<1>0. /\ p.rrs \in Seq(RRs) /\ p.status \in {"ok", "error"} /\ p.question \in BOOLEAN
      /\ p.status = "ok" /\ p.question => \E m \in 0..MaxRR : p.rrs \in [1..m -> RRs]
  <2>1. CASE p \in [status : {"ok"}, question : {TRUE}, rrs : SeqOf(RRs, MaxRR)]
    <3>1. p.status = "ok" /\ p.question = TRUE /\ p.rrs \in SeqOf(RRs, MaxRR)
      BY <2>1
    <3>2. PICK m \in 0..MaxRR : p.rrs \in [1..m -> RRs]
      BY <3>1 DEF SeqOf
    <3>3. p.rrs \in Seq(RRs)
      BY <3>2, BoundAssumption
    <3> QED  BY <3>1, <3>2, <3>3
  <2>2. CASE p \in [status : {"ok"}, question : {FALSE}, rrs : {<<"srv">>}]
    <3>1. p.status = "ok" /\ p.question = FALSE /\ p.rrs = <<"srv">>
      BY <2>2
    <3>2. <<"srv">> \in Seq(RRs)
      BY DEF RRs
    <3> QED  BY <3>1, <3>2
  <2>3. CASE p \in [status : {"error"}, question : {TRUE}, rrs : {<< >>}]
    <3>1. p.status = "error" /\ p.question = TRUE /\ p.rrs = << >>
      BY <2>3
    <3>2. << >> \in Seq(RRs)
      OBVIOUS
    <3> QED  BY <3>1, <3>2
  <2> QED  BY <2>1, <2>2, <2>3, Zenon DEF Packets
<1>1. CASE p.status # "ok" \/ ~p.question
  <2>1. PICK e \in {"ok", "error"} : parse_srv(p) = [ec |-> e, v |-> << >>]
    BY <1>0, <1>1 DEF parse_srv
  <2>2. << >> \in Seq(0..MaxRR)
    OBVIOUS
  <2>3. parse_srv(p).ec = e /\ parse_srv(p).v = << >>
    BY <2>1
  <2> QED  BY <1>0, <2>2, <2>3
<1>2. CASE p.status = "ok" /\ p.question
  <2> DEFINE rrs == p.rrs
             good == {n \in DOMAIN rrs : \A i \in 1..n : rrs[i] = "srv"}
  <2>1. parse_srv(p) = [ec |-> IF good = DOMAIN rrs THEN "ok" ELSE "error",
                        v |-> [i \in 1..Cardinality(good) |-> i]]
    BY <1>2 DEF parse_srv, parse_rrs
  <2>2. PICK m \in 0..MaxRR : rrs \in [1..m -> RRs]
    BY <1>0, <1>2
  <2>3. m \in Nat /\ DOMAIN rrs = 1..m /\ Len(rrs) = m /\ m <= MaxRR
    BY <2>2, BoundAssumption
  <2>4. IsFiniteSet(1..m) /\ Cardinality(1..m) = m
    <3>1. 1 \in Int /\ m \in Int
      BY <2>3
    <3>2. IsFiniteSet(1..m) /\ Cardinality(1..m) = IF 1 > m THEN 0 ELSE m - 1 + 1
      BY <3>1, FS_Interval, Zenon
    <3> QED  BY <2>3, <3>2
  <2>5. good \subseteq 1..m
    BY <2>3
  <2>8. ASSUME good = DOMAIN rrs PROVE AllSRV(rrs) /\ Cardinality(good) = Len(rrs)
    <3>1. Cardinality(good) = Len(rrs)
      BY <2>3, <2>4, <2>8
    <3>2. ASSUME NEW n \in DOMAIN rrs PROVE rrs[n] = "srv"
      <4>1. n \in good /\ n \in 1..n
        BY <2>3, <2>8, <3>2
      <4> QED  BY <4>1
    <3> QED  BY <3>1, <3>2 DEF AllSRV, ToSet
  <2> HIDE DEF good
  <2>6. PICK k \in Nat : k = Cardinality(good) /\ k <= m
    <3>1. IsFiniteSet(good) /\ Cardinality(good) <= Cardinality(1..m)
      BY <2>4, <2>5, FS_Subset
    <3>2. Cardinality(good) \in Nat
      BY <3>1, FS_CardinalityType
    <3> QED  BY <2>4, <3>1, <3>2
  <2>7. PICK w : w = [i \in 1..k |-> i]
    OBVIOUS
  <2>9. w \in Seq(0..MaxRR) /\ Len(w) = k /\ (w # << >> => w[1] = 1)
    <3>0. PICK S : S = 0..MaxRR
      OBVIOUS
    <3>1. w \in [1..k -> S]
      BY <2>3, <2>7, <2>6, <3>0, BoundAssumption
    <3>4. w \in Seq(S) /\ Len(w) = k
      BY <3>1
    <3>2. w \in Seq(0..MaxRR) /\ Len(w) = k
      BY <3>0, <3>4
    <3>3. ASSUME w # << >> PROVE w[1] = 1
      <4>1. k # 0
        BY <3>2, <3>3
      <4> QED  BY <2>7, <4>1
    <3> QED  BY <3>2, <3>3
  <2>10. parse_srv(p).ec = (IF good = DOMAIN rrs THEN "ok" ELSE "error") /\ parse_srv(p).v = w
    BY <2>1, <2>6, <2>7
  <2> QED  BY <1>0, <2>6, <2>8, <2>9, <2>10
<1> QED  BY <1>0, <1>1, <1>2

-----------------------------------------------------------------------------
(* Steps *)

Queries == [chan : 0..MaxChannels, what : {"none", "srv", "host"}, of : 0..MaxRR]
Results == [ec : {"none", "ok", "error"}, v : Seq(0..MaxRR)]

LEMMA ShortSeqs ==
  ASSUME NEW S, NEW x \in S
  PROVE  << >> \in Seq(S) /\ <<x>> \in Seq(S)
OBVIOUS

LEMMA InitIInv == Init => IInv
<1> SUFFICES ASSUME Init PROVE IInv
  OBVIOUS
<1> USE DEF Init
<1>1. ToSet(ios) = {} /\ Single(ios)
  BY DEF ToSet, Single, IsInjective
<1>2. TypeOK
  <2>1. None \in [chan : 0..MaxChannels, what : {"none", "srv", "host"}, of : 0..MaxRR]
    BY BoundAssumption DEF None
  <2>2. NoResult \in [ec : {"none", "ok", "error"}, v : Seq(0..MaxRR)]
    BY DEF NoResult
  <2>3. << >> \in Seq(RRs) /\ << >> \in Seq(Messages)
    OBVIOUS
  <2>4. query \in [Calls -> [chan : 0..MaxChannels, what : {"none", "srv", "host"},
                             of : 0..MaxRR]]
    BY <2>1
  <2>5. result \in [Calls -> [ec : {"none", "ok", "error"}, v : Seq(0..MaxRR)]]
    BY <2>2
  <2>6. seen \in [Calls -> Seq(RRs)] /\ ios \in Seq(Messages)
    BY <2>3
  <2>7. kind \in [Calls -> Kinds \cup {"none"}] /\ fired \in [Calls -> 0..1]
    OBVIOUS
  <2>8. channel \in 0..MaxChannels /\ processing \in 0..MaxChannels
    BY BoundAssumption
  <2> QED  BY <2>4, <2>5, <2>6, <2>7, <2>8 DEF TypeOK
<1>3. Place
  BY <1>1 DEF Place, PlaceOf, InIos, In, Started, None
<1>4. Channel
  BY DEF Channel
<1>5. Lookups /\ Answers /\ SuccessIsWhole
  BY <1>1 DEF Lookups, None, Answers, SuccessIsWhole, Whole
<1> QED  BY <1>2, <1>3, <1>4, <1>5 DEF IInv

\* What is not about lookups leaves them where they are.
LEMMA QuietStep ==
  ASSUME IInv,
         \/ service_resolver \/ set_dns_server \/ close \/ run_task \/ select_readable
         \/ \E c \in Calls : future_get(c)
  PROVE  IInv'
<1> USE DEF IInv
<1>1. UNCHANGED <<kind, query, seen, ios, result, fired, crashed>>
  BY Zenon DEF service_resolver, set_dns_server, close, run_task, run_task_loop,
     run_task_fds, run_task_timeout, run_task_process, run_task_processed, select_readable,
     future_get, lookupVars, ownerVars
<1>2. Place' /\ Lookups' /\ Answers' /\ SuccessIsWhole'
  BY <1>1 DEF Place, PlaceOf, InIos, Started, Lookups, Lookup, Answers, Answer,
     SuccessIsWhole, Whole
<1>3. /\ is_init' \in {"no", "yes", "failed"} /\ channel' \in 0..MaxChannels
      /\ mutex' \in BOOLEAN /\ blocked' \subseteq Calls
      /\ pc' \in {"wait", "top", "fds", "timeout", "forever", "select", "processing", "exited"}
      /\ processing' \in 0..MaxChannels
      /\ time_to_die' \in BOOLEAN /\ destroyed' \in BOOLEAN
      /\ Channel'
  <2>1. CASE service_resolver
    BY <2>1, BoundAssumption DEF service_resolver, TypeOK, Channel, lookupVars, taskVars
  <2>2. CASE set_dns_server
    BY <2>2, BoundAssumption DEF set_dns_server, TypeOK, Channel, lookupVars, taskVars
  <2>3. CASE close
    BY <2>3 DEF close, TypeOK, Channel, lookupVars, taskVars
  <2>4. CASE run_task \/ select_readable
    BY <2>4 DEF run_task, run_task_loop, run_task_fds, run_task_timeout, run_task_process,
       run_task_processed, select_readable, TypeOK, Channel, lookupVars, ownerVars
  <2>5. ASSUME NEW c \in Calls, future_get(c)
        PROVE  <1>3!1 /\ <1>3!2 /\ <1>3!3 /\ <1>3!4 /\ <1>3!5 /\ <1>3!6
    BY <2>5 DEF future_get, TypeOK, Channel, taskVars, ownerVars
  <2> QED  BY <2>1, <2>2, <2>3, <2>4, <2>5
<1>4. TypeOK'
  BY <1>1, <1>3 DEF TypeOK
<1> QED  BY <1>2, <1>3, <1>4

\* A step is about call c only.
Elsewhere(c) ==
  /\ \A d \in Calls \ {c} :
       /\ kind'[d] = kind[d] /\ query'[d] = query[d] /\ seen'[d] = seen[d]
       /\ fired'[d] = fired[d] /\ result'[d] = result[d]
       /\ In(ios', d) <=> InIos(d)
  /\ \A m \in ToSet(ios') : m.call \in Calls /\ (m.call # c => m \in ToSet(ios))

\* Such a step keeps the invariant if it keeps it for c.
LEMMA OneCallMoves ==
  ASSUME IInv, NEW c \in Calls, Elsewhere(c), crashed => crashed',
         Single(ios)', PlaceOf(c)', (query[c].chan # 0 => Lookup(c))', Whole(c)',
         \A m \in ToSet(ios') : m.call = c => Answer(m)'
  PROVE  Place' /\ Lookups' /\ Answers' /\ SuccessIsWhole'
<1>1. ASSUME NEW d \in Calls, d # c
      PROVE  PlaceOf(d)' /\ (query[d].chan # 0 => Lookup(d))' /\ Whole(d)'
  <2>1. /\ kind'[d] = kind[d] /\ query'[d] = query[d] /\ seen'[d] = seen[d]
        /\ fired'[d] = fired[d] /\ result'[d] = result[d]
        /\ In(ios', d) <=> InIos(d)
    BY <1>1, Zenon DEF Elsewhere
  <2>2. PlaceOf(d) /\ (query[d].chan # 0 => Lookup(d)) /\ Whole(d)
    BY DEF IInv, Place, Lookups, SuccessIsWhole
  <2>3. PlaceOf(d)'
    BY <2>1, <2>2 DEF PlaceOf, InIos, Started
  <2>4. (query[d].chan # 0 => Lookup(d))'
    BY <2>1, <2>2 DEF Lookup
  <2>5. Whole(d)'
    BY <2>1, <2>2 DEF Whole
  <2> QED  BY <2>3, <2>4, <2>5
<1>2. ASSUME NEW m \in ToSet(ios'), m.call # c
      PROVE  Answer(m)'
  <2>1. m.call \in Calls /\ m \in ToSet(ios)
    BY <1>2, Zenon DEF Elsewhere
  <2>2. kind'[m.call] = kind[m.call] /\ seen'[m.call] = seen[m.call]
    BY <1>2, <2>1, Zenon DEF Elsewhere
  <2>3. Answer(m)
    BY <2>1 DEF IInv, Answers
  <2> QED  BY <2>2, <2>3 DEF Answer
<1>3. Place'
  BY <1>1, Zenon DEF Place
<1>4. Lookups'
  BY <1>1, Zenon DEF Lookups
<1>5. SuccessIsWhole'
  BY <1>1, Zenon DEF SuccessIsWhole
<1>6. Answers'
  BY <1>2, Zenon DEF Answers
<1> QED  BY <1>3, <1>4, <1>5, <1>6

\* The callbacks that are posted but c's stay as they are.
OthersStay(q, c) ==
  /\ q \in Seq(Messages) /\ Single(q)
  /\ \A d \in Calls \ {c} : In(q, d) <=> InIos(d)
  /\ \A m \in ToSet(q) : m.call \in Calls /\ (m.call # c => m \in ToSet(ios))

LEMMA Stay ==
  ASSUME IInv, NEW c
  PROVE  OthersStay(ios, c)
<1>1. ios \in Seq(Messages) /\ Single(ios)
  BY DEF IInv, TypeOK, Place
<1>2. \A m \in ToSet(ios) : m.call \in Calls
  <2>1. ToSet(ios) \subseteq Messages
    BY <1>1 DEF ToSet
  <2>2. \A m \in Messages : m.call \in Calls
    BY DEF Messages
  <2> QED  BY <2>1, <2>2
<1> QED  BY <1>1, <1>2 DEF OthersStay, InIos

LEMMA Posting ==
  ASSUME NEW q, NEW m \in Messages, OthersStay(q, m.call), ~In(q, m.call)
  PROVE  /\ OthersStay(Append(q, m), m.call) /\ In(Append(q, m), m.call)
         /\ \A n \in ToSet(Append(q, m)) : n.call = m.call => n = m
<1>1. q \in Seq(Messages) /\ Single(q)
  BY DEF OthersStay
<1>2. /\ Append(q, m) \in Seq(Messages) /\ ToSet(Append(q, m)) = ToSet(q) \cup {m}
      /\ \A c : In(Append(q, m), c) <=> In(q, c) \/ c = m.call
      /\ Single(Append(q, m))
  BY <1>1, PostFacts
<1>3. m.call \in Calls
  BY DEF Messages
<1> QED  BY <1>2, <1>3, Zenon DEF OthersStay, In

LEMMA Taking ==
  ASSUME IInv, ios # << >>
  PROVE  /\ Head(ios) \in Messages /\ Head(ios) \in ToSet(ios)
         /\ InIos(Head(ios).call)
         /\ OthersStay(Tail(ios), Head(ios).call) /\ ~In(Tail(ios), Head(ios).call)
<1>1. ios \in Seq(Messages) /\ Single(ios)
  BY DEF IInv, TypeOK, Place
<1>2. /\ Head(ios) \in Messages /\ Tail(ios) \in Seq(Messages)
      /\ ToSet(ios) = {Head(ios)} \cup ToSet(Tail(ios))
      /\ In(ios, Head(ios).call)
      /\ Single(Tail(ios)) /\ ~In(Tail(ios), Head(ios).call)
      /\ \A c : In(Tail(ios), c) <=> In(ios, c) /\ c # Head(ios).call
  BY <1>1, TakeFacts
<1>3. \A m \in ToSet(ios) : m.call \in Calls
  BY Stay, Zenon DEF OthersStay
<1> QED  BY <1>2, <1>3, Zenon DEF OthersStay, InIos

\* A lookup that c-ares ends, or a wrong name, is posted.
LEMMA PostStep ==
  ASSUME IInv, NEW m \in Messages, NEW q, OthersStay(q, m.call), ~In(q, m.call),
         ios' = Append(q, m), fired[m.call] = 0,
         \A d \in Calls \ {m.call} :
           kind'[d] = kind[d] /\ query'[d] = query[d] /\ seen'[d] = seen[d],
         kind'[m.call] # "none", query'[m.call].chan = 0,
         UNCHANGED <<fired, result, crashed>>,
         Answer(m)'
  PROVE  ios' \in Seq(Messages) /\ Place' /\ Lookups' /\ Answers' /\ SuccessIsWhole'
<1> DEFINE c == m.call
<1>1. c \in Calls
  BY DEF Messages
<1>2. /\ OthersStay(ios', c) /\ In(ios', c)
      /\ \A n \in ToSet(ios') : n.call = c => n = m
  BY Posting
<1>3. Elsewhere(c) /\ Single(ios)' /\ ios' \in Seq(Messages)
  BY <1>2, Zenon DEF Elsewhere, OthersStay
<1>4. PlaceOf(c)'
  BY <1>2 DEF PlaceOf, InIos, Started
<1>5. Whole(c)'
  BY DEF Whole
<1>6. \A n \in ToSet(ios') : n.call = c => Answer(n)'
  BY <1>2, Zenon
<1> HIDE DEF c
<1>7. Place' /\ Lookups' /\ Answers' /\ SuccessIsWhole'
  BY <1>1, <1>3, <1>4, <1>5, <1>6, OneCallMoves DEF c
<1> QED  BY <1>3, <1>7

\* A lookup is put on the channel.
LEMMA QueryStep ==
  ASSUME IInv, NEW c \in Calls, OthersStay(ios', c), ~In(ios', c), fired[c] = 0,
         \A d \in Calls \ {c} :
           kind'[d] = kind[d] /\ query'[d] = query[d] /\ seen'[d] = seen[d],
         kind'[c] # "none", query'[c].chan # 0,
         UNCHANGED <<fired, result, crashed>>,
         Lookup(c)'
  PROVE  ios' \in Seq(Messages) /\ Place' /\ Lookups' /\ Answers' /\ SuccessIsWhole'
<1>3. Elsewhere(c) /\ Single(ios)' /\ ios' \in Seq(Messages)
  BY Zenon DEF Elsewhere, OthersStay
<1>4. PlaceOf(c)'
  BY DEF PlaceOf, InIos, Started
<1>5. Whole(c)'
  BY DEF Whole
<1>6. \A n \in ToSet(ios') : n.call = c => Answer(n)'
  BY Zenon DEF In
<1>7. Place' /\ Lookups' /\ Answers' /\ SuccessIsWhole'
  BY <1>3, <1>4, <1>5, <1>6, OneCallMoves
<1> QED  BY <1>3, <1>7

\* The state that a call's lookup is not part of.
Rest ==
  /\ is_init \in {"no", "yes", "failed"} /\ channel \in 0..MaxChannels
  /\ mutex \in BOOLEAN /\ blocked \subseteq Calls
  /\ pc \in {"wait", "top", "fds", "timeout", "forever", "select", "processing", "exited"}
  /\ processing \in 0..MaxChannels
  /\ time_to_die \in BOOLEAN /\ destroyed \in BOOLEAN /\ crashed \in BOOLEAN

LEMMA TypeParts ==
  TypeOK <=> /\ Rest
             /\ kind \in [Calls -> Kinds \cup {"none"}] /\ query \in [Calls -> Queries]
             /\ seen \in [Calls -> Seq(RRs)] /\ ios \in Seq(Messages)
             /\ result \in [Calls -> Results] /\ fired \in [Calls -> 0..1]
BY Zenon DEF TypeOK, Rest, Queries, Results

\* A call is nowhere until it is made.
LEMMA NotYet ==
  ASSUME IInv, NEW c \in Calls, ~Started(c)
  PROVE  query[c].chan = 0 /\ ~In(ios, c) /\ fired[c] = 0
BY Zenon DEF IInv, Place, PlaceOf, InIos

LEMMA CallStep ==
  ASSUME IInv, NEW c \in Calls, Call(c)
  PROVE  IInv'
<1> DEFINE Same == UNCHANGED <<is_init, channel, mutex, seen, result, fired, processing,
                               time_to_die, destroyed>>
<1>0. PICK k \in Kinds :
       /\ kind' = [kind EXCEPT ![c] = k]
       /\ blocked' = IF c \in SyncCalls THEN blocked \cup {c} ELSE blocked
       /\ \/ k = "bad" /\ post(c, "end", "error", << >>) /\ UNCHANGED <<query, crashed>>
          \/ /\ k # "bad" /\ ~mutex
             /\ IF channel = 0
                THEN crashed' = TRUE /\ UNCHANGED <<query, ios, pc>>
                ELSE /\ UNCHANGED crashed
                     /\ \/ /\ query' = [query EXCEPT ![c] = [chan |-> channel, of |-> 0,
                                                             what |-> FirstLookup(k)]]
                           /\ UNCHANGED <<ios, pc>>
                        \/ /\ \E a \in AtOnce(FirstLookup(k), 0) : post(c, FirstLookup(k), a.ec, a.v)
                           /\ UNCHANGED query
  BY Zenon DEF Call
<1>1. Same /\ ~Started(c) /\ is_init # "no" /\ ~destroyed /\ ~crashed
  BY Zenon DEF Call
<1>2. query[c].chan = 0 /\ ~In(ios, c) /\ fired[c] = 0
  BY <1>1, NotYet
<1>3. OthersStay(ios, c)
  BY Stay
<1>4. TypeOK /\ Rest /\ kind \in [Calls -> Kinds \cup {"none"}] /\ query \in [Calls -> Queries]
  BY TypeParts, Zenon DEF IInv
<1>5. /\ kind' \in [Calls -> Kinds \cup {"none"}] /\ kind'[c] = k /\ k # "none"
      /\ \A d \in Calls \ {c} : kind'[d] = kind[d]
  BY <1>0, <1>4 DEF Kinds
<1>6. blocked' \subseteq Calls
  BY <1>0, <1>4 DEF Rest
<1>7. FirstLookup(k) \in {"srv", "host"}
  BY DEF FirstLookup
<1>8. ASSUME k = "bad" \/ channel # 0 \/ crashed',
             pc' = pc, crashed' \in BOOLEAN, query' \in [Calls -> Queries],
             ios' \in Seq(Messages), Place', Lookups', Answers', SuccessIsWhole'
      PROVE  IInv'
  <2>1. Channel'
    BY <1>1, <1>5, <1>8 DEF IInv, Channel
  <2>2. Rest'
    BY <1>1, <1>4, <1>6, <1>8 DEF Rest
  <2>3. seen' \in [Calls -> Seq(RRs)] /\ result' \in [Calls -> Results] /\ fired' \in [Calls -> 0..1]
    BY <1>1, <1>4, TypeParts
  <2>4. TypeOK'
    BY <1>5, <1>8, <2>2, <2>3, Zenon DEF TypeOK, Rest, Queries, Results
  <2> QED  BY <1>8, <2>1, <2>4 DEF IInv
\* A callback is posted at once.
<1>9. ASSUME NEW what, NEW ec, NEW v, post(c, what, ec, v),
             NEW m, m = [call |-> c, what |-> what, ec |-> ec, v |-> v],
             m \in Messages, Answer(m)', UNCHANGED <<query, crashed>>,
             k = "bad" \/ channel # 0
      PROVE  IInv'
  <2>1. ios' = Append(ios, m) /\ pc' = pc
    BY <1>9 DEF post
  <2>2. m.call = c
    BY <1>9
  <2>3. /\ \A d \in Calls \ {c} :
             kind'[d] = kind[d] /\ query'[d] = query[d] /\ seen'[d] = seen[d]
        /\ query'[c].chan = 0 /\ kind'[c] # "none" /\ UNCHANGED <<fired, result, crashed>>
    BY <1>1, <1>2, <1>5, <1>9
  <2>4. ios' \in Seq(Messages) /\ Place' /\ Lookups' /\ Answers' /\ SuccessIsWhole'
    BY <1>2, <1>3, <1>9, <2>1, <2>2, <2>3, PostStep
  <2>5. crashed' \in BOOLEAN /\ query' \in [Calls -> Queries]
    BY <1>4, <1>9 DEF Rest
  <2> QED  BY <1>8, <1>9, <2>1, <2>4, <2>5
<1>10. CASE k = "bad" /\ post(c, "end", "error", << >>) /\ UNCHANGED <<query, crashed>>
  <2>1. PICK m : m = [call |-> c, what |-> "end", ec |-> "error", v |-> << >>]
    OBVIOUS
  <2>2. m \in Messages
    BY <2>1 DEF Messages
  <2>3. Answer(m)'
    BY <1>5, <1>10, <2>1 DEF Answer
  <2> QED  BY <1>9, <1>10, <2>1, <2>2, <2>3
<1>11. CASE k # "bad" /\ channel = 0 /\ crashed' = TRUE /\ UNCHANGED <<query, ios, pc>>
  <2>1. Elsewhere(c) /\ Single(ios)' /\ ios' \in Seq(Messages)
    BY <1>1, <1>3, <1>5, <1>11 DEF Elsewhere, OthersStay, InIos
  <2>2. PlaceOf(c)' /\ (query[c].chan # 0 => Lookup(c))' /\ Whole(c)'
    BY <1>1, <1>2, <1>5, <1>11 DEF PlaceOf, InIos, Started, Whole
  <2>3. \A n \in ToSet(ios') : n.call = c => Answer(n)'
    BY <1>2, <1>11, Zenon DEF In
  <2>4. Place' /\ Lookups' /\ Answers' /\ SuccessIsWhole'
    BY <1>11, <2>1, <2>2, <2>3, OneCallMoves
  <2> QED  BY <1>4, <1>8, <1>11, <2>1, <2>4
<1>12. CASE /\ k # "bad" /\ channel # 0 /\ UNCHANGED <<crashed, ios, pc>>
            /\ query' = [query EXCEPT ![c] = [chan |-> channel, of |-> 0,
                                              what |-> FirstLookup(k)]]
  <2>1. PICK r : r = [chan |-> channel, of |-> 0, what |-> FirstLookup(k)]
    OBVIOUS
  <2>2. r \in Queries
    BY <1>4, <1>7, <2>1, BoundAssumption DEF Rest, Queries
  <2>3. query' \in [Calls -> Queries] /\ query'[c] = r /\ \A d \in Calls \ {c} : query'[d] = query[d]
    BY <1>4, <1>12, <2>1, <2>2
  <2>4. Lookup(c)'
    BY <1>5, <1>12, <2>1, <2>3 DEF Lookup, FirstLookup, Kinds
  <2>5. /\ \A d \in Calls \ {c} :
             kind'[d] = kind[d] /\ query'[d] = query[d] /\ seen'[d] = seen[d]
        /\ query'[c].chan # 0 /\ kind'[c] # "none" /\ UNCHANGED <<fired, result, crashed>>
    BY <1>1, <1>5, <1>12, <2>1, <2>3
  <2>6. ios' \in Seq(Messages) /\ Place' /\ Lookups' /\ Answers' /\ SuccessIsWhole'
    BY <1>2, <1>3, <1>12, <2>4, <2>5, QueryStep
  <2> QED  BY <1>4, <1>8, <1>12, <2>3, <2>6 DEF Rest
<1>13. ASSUME k # "bad", channel # 0, UNCHANGED <<query, crashed>>,
              NEW a \in AtOnce(FirstLookup(k), 0), post(c, FirstLookup(k), a.ec, a.v)
       PROVE  IInv'
  <2>1. \/ a.ec = "error" /\ a.v = << >>
        \/ FirstLookup(k) = "host" /\ a.ec = "ok" /\ a.v = <<0>>
    BY DEF AtOnce
  <2>2. << >> \in Seq(0..MaxRR) /\ <<0>> \in Seq(0..MaxRR)
    BY BoundAssumption
  <2>3. PICK m : m = [call |-> c, what |-> FirstLookup(k), ec |-> a.ec, v |-> a.v]
    OBVIOUS
  <2>4. m \in Messages
    BY <1>7, <2>1, <2>2, <2>3 DEF Messages
  <2>5. Answer(m)'
    BY <1>5, <1>13, <2>1, <2>3 DEF Answer, FirstLookup, Kinds
  <2> QED  BY <1>9, <1>13, <2>3, <2>4, <2>5
<1> QED  BY <1>0, <1>10, <1>11, <1>12, <1>13

\* A call that is on a channel is nowhere else; one that is posted neither.
LEMMA OnlyThere ==
  ASSUME IInv, NEW c \in Calls
  PROVE  /\ query[c].chan # 0 => /\ ~In(ios, c) /\ fired[c] = 0 /\ kind[c] # "none"
                                 /\ Lookup(c)
         /\ InIos(c) => fired[c] = 0 /\ query[c].chan = 0 /\ kind[c] # "none"
BY Zenon DEF IInv, Place, PlaceOf, InIos, Started, Lookups

\* A callback of c-ares takes the lookup off its channel and posts.
LEMMA AnswerStep ==
  ASSUME IInv, NEW c \in Calls, pc = "processing", query[c].chan = processing,
         NEW m \in Messages, m.call = c, ios' = Append(ios, m), pc' = pc,
         query' = [query EXCEPT ![c] = None],
         seen' \in [Calls -> Seq(RRs)], \A d \in Calls \ {c} : seen'[d] = seen[d],
         UNCHANGED <<ownerVars, mutex, kind, result, fired, blocked, processing>>,
         Answer(m)'
  PROVE  IInv'
<1>1. query[c].chan # 0
  BY DEF IInv, Channel
<1>2. ~In(ios, c) /\ fired[c] = 0 /\ kind[c] # "none" /\ OthersStay(ios, c)
  BY <1>1, OnlyThere, Stay
<1>3. Rest /\ query \in [Calls -> Queries]
  BY TypeParts, Zenon DEF IInv
<1>4. None \in Queries /\ None.chan = 0
  BY BoundAssumption DEF Queries, None
<1>5. /\ query' \in [Calls -> Queries] /\ query'[c].chan = 0
      /\ \A d \in Calls \ {c} : query'[d] = query[d]
  BY <1>3, <1>4
<1>6. UNCHANGED <<fired, result, crashed, kind>>
  BY DEF ownerVars
<1>7. ios' \in Seq(Messages) /\ Place' /\ Lookups' /\ Answers' /\ SuccessIsWhole'
  BY <1>2, <1>5, <1>6, PostStep
<1>8. Channel'
  BY DEF IInv, Channel, ownerVars
<1>9. Rest'
  BY <1>3 DEF Rest, ownerVars
<1>10. kind' \in [Calls -> Kinds \cup {"none"}] /\ result' \in [Calls -> Results] /\ fired' \in [Calls -> 0..1]
  BY <1>6, TypeParts DEF IInv
<1>11. TypeOK'
  BY <1>5, <1>7, <1>9, <1>10, Zenon DEF TypeOK, Rest, Queries, Results
<1> QED  BY <1>7, <1>8, <1>11 DEF IInv

LEMMA SrvStep ==
  ASSUME IInv, NEW c \in Calls, ares_srv_callback(c)
  PROVE  IInv'
<1>1. /\ pc = "processing" /\ query[c].chan = processing /\ query[c].what = "srv"
      /\ query' = [query EXCEPT ![c] = None]
      /\ UNCHANGED <<ownerVars, mutex, kind, result, fired, blocked, processing>>
  BY Zenon DEF ares_srv_callback
<1>2. PICK p \in Packets :
        /\ post(c, "srv", parse_srv(p).ec, parse_srv(p).v)
        /\ seen' = [seen EXCEPT ![c] = p.rrs]
  BY Zenon DEF ares_srv_callback
<1>3. PICK ec, v : ec = parse_srv(p).ec /\ v = parse_srv(p).v
  OBVIOUS
<1>4. /\ p.rrs \in Seq(RRs) /\ ec \in {"ok", "error"} /\ v \in Seq(0..MaxRR)
      /\ ec = "ok" /\ v # << >> => AllSRV(p.rrs) /\ Len(v) = Len(p.rrs) /\ v[1] = 1
  BY <1>3, ParseFacts
<1>5. seen \in [Calls -> Seq(RRs)]
  BY TypeParts, Zenon DEF IInv
<1>6. /\ seen' \in [Calls -> Seq(RRs)] /\ seen'[c] = p.rrs
      /\ \A d \in Calls \ {c} : seen'[d] = seen[d]
  BY <1>2, <1>4, <1>5
<1>7. PICK m : m = [call |-> c, what |-> "srv", ec |-> ec, v |-> v]
  OBVIOUS
<1>8. m \in Messages /\ m.call = c /\ m.what = "srv" /\ m.ec = ec /\ m.v = v
  BY <1>4, <1>7 DEF Messages
<1>9. ios' = Append(ios, m) /\ pc' = pc
  BY <1>2, <1>3, <1>7 DEF post
<1>10. kind[c] \in {"query_srv", "srv"}
  <2>1. query[c].chan # 0
    BY <1>1 DEF IInv, Channel
  <2> QED  BY <1>1, <2>1, OnlyThere DEF Lookup
<1>11. Answer(m)'
  BY <1>1, <1>4, <1>6, <1>8, <1>10 DEF Answer
<1> QED  BY <1>1, <1>6, <1>8, <1>9, <1>11, AnswerStep

LEMMA HostStep ==
  ASSUME IInv, NEW c \in Calls, ares_hostbyname_callback(c)
  PROVE  IInv'
<1>1. /\ pc = "processing" /\ query[c].chan = processing /\ query[c].what = "host"
      /\ query' = [query EXCEPT ![c] = None]
      /\ UNCHANGED <<ownerVars, mutex, kind, seen, result, fired, blocked, processing>>
  BY Zenon DEF ares_hostbyname_callback
<1>2. PICK o : o = query[c].of
  OBVIOUS
<1>3. PICK ec, v : /\ post(c, "host", ec, v)
                   /\ \/ ec = "ok" /\ v = <<o>>
                      \/ ec = "error" /\ v = << >>
  BY <1>2, Zenon DEF ares_hostbyname_callback
<1>4. o \in 0..MaxRR /\ seen \in [Calls -> Seq(RRs)]
  BY <1>2, TypeParts DEF IInv, Queries
<1>5. v \in Seq(0..MaxRR)
  <2>1. << >> \in Seq(0..MaxRR) /\ <<o>> \in Seq(0..MaxRR)
    BY <1>4, ShortSeqs
  <2> QED  BY <1>3, <2>1
<1>6. PICK m : m = [call |-> c, what |-> "host", ec |-> ec, v |-> v]
  OBVIOUS
<1>7. m \in Messages /\ m.call = c /\ m.what = "host" /\ m.ec = ec /\ m.v = v
  BY <1>3, <1>5, <1>6 DEF Messages
<1>8. ios' = Append(ios, m) /\ pc' = pc
  BY <1>3, <1>6 DEF post
<1>9. \/ kind[c] = "host" /\ o = 0
      \/ kind[c] = "srv" /\ o = 1 /\ AllSRV(seen[c])
  <2>1. query[c].chan # 0
    BY <1>1 DEF IInv, Channel
  <2> QED  BY <1>1, <1>2, <2>1, OnlyThere DEF Lookup
<1>10. Answer(m)'
  BY <1>1, <1>3, <1>7, <1>9 DEF Answer
<1> QED  BY <1>1, <1>4, <1>7, <1>8, <1>10, AnswerStep

\* The thread of _ios: the second lookup of an SRV call, or the caller's callback.
LEMMA RunOneStep ==
  ASSUME IInv, run_one
  PROVE  IInv'
<1>0. ios # << >> /\ ~crashed
      /\ UNCHANGED <<is_init, channel, time_to_die, destroyed, taskVars, kind, seen, blocked>>
  BY Zenon DEF run_one
<1>1. PICK m : m = Head(ios)
  OBVIOUS
<1>2. PICK c : c = m.call
  OBVIOUS
<1>3. /\ m \in Messages /\ c \in Calls /\ Answer(m)
      /\ OthersStay(Tail(ios), c) /\ ~In(Tail(ios), c)
  BY <1>0, <1>1, <1>2, Taking DEF Messages, IInv, Answers
<1>4. InIos(c) /\ fired[c] = 0 /\ query[c].chan = 0 /\ kind[c] # "none"
  BY <1>0, <1>1, <1>2, <1>3, Taking, OnlyThere
<1>5. Rest /\ query \in [Calls -> Queries] /\ kind \in [Calls -> Kinds \cup {"none"}]
      /\ result \in [Calls -> Results] /\ fired \in [Calls -> 0..1]
      /\ seen \in [Calls -> Seq(RRs)]
  BY TypeParts, Zenon DEF IInv
<1>6. ASSUME crashed' \in BOOLEAN, query' \in [Calls -> Queries], ios' \in Seq(Messages),
             result' \in [Calls -> Results], fired' \in [Calls -> 0..1],
             Place', Lookups', Answers', SuccessIsWhole'
      PROVE  IInv'
  <2>1. Channel'
    BY <1>0 DEF IInv, Channel, taskVars
  <2>2. Rest'
    BY <1>0, <1>5, <1>6 DEF Rest, taskVars
  <2>3. kind' \in [Calls -> Kinds \cup {"none"}] /\ seen' \in [Calls -> Seq(RRs)]
    BY <1>0, <1>5
  <2>4. TypeOK'
    BY <1>6, <2>2, <2>3, Zenon DEF TypeOK, Rest, Queries, Results
  <2> QED  BY <1>6, <2>1, <2>4 DEF IInv
<1>7. CASE NeedsHost(m)
  <2>1. m.what = "srv" /\ kind[c] = "srv" /\ m.ec = "ok" /\ m.v # << >>
    BY <1>2, <1>7 DEF NeedsHost
  <2>2. AllSRV(seen[c]) /\ m.v[1] = 1
    BY <1>2, <1>3, <2>1 DEF Answer
  <2>3. 1 \in 0..MaxRR
    <3>1. m.v \in Seq(0..MaxRR)
      BY <1>3 DEF Messages
    <3>2. 1 \in DOMAIN m.v
      BY <2>1, <3>1
    <3>3. m.v[1] \in 0..MaxRR
      BY <3>1, <3>2, ElementsAt, ZenonT(60) DEF ToSet
    <3> QED  BY <2>2, <3>3
  <2>4. /\ UNCHANGED <<result, fired>>
        /\ \/ destroyed /\ crashed' = TRUE /\ UNCHANGED query /\ ios' = Tail(ios)
           \/ /\ UNCHANGED crashed
              /\ query' = [query EXCEPT ![c] = [chan |-> channel, what |-> "host", of |-> 1]]
              /\ ios' = Tail(ios)
           \/ /\ UNCHANGED <<crashed, query>>
              /\ \E a \in AtOnce("host", 1) :
                   ios' = Append(Tail(ios), [call |-> c, what |-> "host", ec |-> a.ec, v |-> a.v])
    BY <1>1, <1>2, <1>7, <2>2 DEF run_one
  <2>5. CASE destroyed /\ crashed' = TRUE /\ UNCHANGED query /\ ios' = Tail(ios)
    <3>1. Elsewhere(c) /\ Single(ios)' /\ ios' \in Seq(Messages)
      BY <1>0, <1>3, <2>4, <2>5 DEF Elsewhere, OthersStay
    <3>2. PlaceOf(c)' /\ (query[c].chan # 0 => Lookup(c))' /\ Whole(c)'
      BY <1>0, <1>3, <1>4, <2>4, <2>5 DEF PlaceOf, InIos, Started, Whole
    <3>3. \A n \in ToSet(ios') : n.call = c => Answer(n)'
      BY <1>3, <2>5, Zenon DEF In
    <3>4. Place' /\ Lookups' /\ Answers' /\ SuccessIsWhole'
      BY <1>3, <2>5, <3>1, <3>2, <3>3, OneCallMoves
    <3> QED  BY <1>5, <1>6, <2>4, <2>5, <3>1, <3>4
  <2>6. CASE /\ UNCHANGED crashed
             /\ query' = [query EXCEPT ![c] = [chan |-> channel, what |-> "host", of |-> 1]]
             /\ ios' = Tail(ios)
    <3>1. PICK r : r = [chan |-> channel, what |-> "host", of |-> 1]
      OBVIOUS
    <3>2. r \in Queries
      BY <1>5, <2>3, <3>1 DEF Rest, Queries
    <3>3. query' \in [Calls -> Queries] /\ query'[c] = r /\ \A d \in Calls \ {c} : query'[d] = query[d]
      BY <1>3, <1>5, <2>6, <3>1, <3>2
    <3>4. channel # 0
      BY <1>0, <1>3, <2>1 DEF IInv, Channel
    <3>5. Lookup(c)'
      BY <1>0, <2>1, <2>2, <3>1, <3>3 DEF Lookup
    <3>6. /\ \A d \in Calls \ {c} :
               kind'[d] = kind[d] /\ query'[d] = query[d] /\ seen'[d] = seen[d]
          /\ query'[c].chan # 0 /\ kind'[c] # "none" /\ UNCHANGED <<fired, result, crashed>>
      BY <1>0, <1>4, <2>4, <2>6, <3>1, <3>3, <3>4
    <3>7. ios' \in Seq(Messages) /\ Place' /\ Lookups' /\ Answers' /\ SuccessIsWhole'
      BY <1>3, <1>4, <2>6, <3>5, <3>6, QueryStep
    <3> QED  BY <1>0, <1>5, <1>6, <2>4, <2>6, <3>3, <3>7 DEF Rest
  <2>7. ASSUME UNCHANGED <<crashed, query>>, NEW a \in AtOnce("host", 1),
               ios' = Append(Tail(ios), [call |-> c, what |-> "host", ec |-> a.ec, v |-> a.v])
        PROVE  IInv'
    <3>1. \/ a.ec = "error" /\ a.v = << >>
          \/ a.ec = "ok" /\ a.v = <<1>>
      BY DEF AtOnce
    <3>2. a.v \in Seq(0..MaxRR)
      <4>1. << >> \in Seq(0..MaxRR) /\ <<1>> \in Seq(0..MaxRR)
        BY <2>3, ShortSeqs
      <4> QED  BY <3>1, <4>1
    <3>3. PICK n : n = [call |-> c, what |-> "host", ec |-> a.ec, v |-> a.v]
      OBVIOUS
    <3>4. n \in Messages /\ n.call = c /\ n.what = "host" /\ n.ec = a.ec /\ n.v = a.v
      BY <1>3, <3>1, <3>2, <3>3 DEF Messages
    <3>5. Answer(n)'
      BY <1>0, <2>1, <2>2, <3>1, <3>4 DEF Answer
    <3>6. /\ \A d \in Calls \ {c} :
               kind'[d] = kind[d] /\ query'[d] = query[d] /\ seen'[d] = seen[d]
          /\ query'[c].chan = 0 /\ kind'[c] # "none" /\ UNCHANGED <<fired, result, crashed>>
          /\ ios' = Append(Tail(ios), n)
      BY <1>0, <1>4, <2>4, <2>7, <3>3
    <3>7. ios' \in Seq(Messages) /\ Place' /\ Lookups' /\ Answers' /\ SuccessIsWhole'
      BY <1>3, <1>4, <3>4, <3>5, <3>6, PostStep
    <3> QED  BY <1>0, <1>5, <1>6, <2>4, <2>7, <3>7 DEF Rest
  <2> QED  BY <2>4, <2>5, <2>6, <2>7
<1>8. CASE ~NeedsHost(m)
  <2>1. PICK v : v = IF kind[c] = "srv" /\ m.what = "srv" THEN << >> ELSE m.v
    OBVIOUS
  <2>2. PICK r : r = [ec |-> m.ec, v |-> v]
    OBVIOUS
  <2>3. /\ result' = [result EXCEPT ![c] = r] /\ fired' = [fired EXCEPT ![c] = fired[c] + 1]
        /\ ios' = Tail(ios) /\ UNCHANGED <<query, crashed>>
    BY <1>1, <1>2, <1>8, <2>1, <2>2 DEF run_one, Deliver
  <2>4. r \in Results /\ r.ec = m.ec /\ r.v = v
    <3>2. m.v \in Seq(0..MaxRR) /\ m.ec \in {"none", "ok", "error"}
      BY <1>3 DEF Messages
    <3>3. << >> \in Seq(0..MaxRR)
      OBVIOUS
    <3>1. v \in Seq(0..MaxRR) /\ m.ec \in {"none", "ok", "error"}
      BY <2>1, <3>2, <3>3
    <3> QED  BY <2>2, <3>1 DEF Results
  <2>5. /\ result' \in [Calls -> Results] /\ fired' \in [Calls -> 0..1]
        /\ result'[c] = r /\ fired'[c] = 1
        /\ \A d \in Calls \ {c} : result'[d] = result[d] /\ fired'[d] = fired[d]
    BY <1>3, <1>4, <1>5, <2>3, <2>4
  <2>6. Elsewhere(c) /\ Single(ios)' /\ ios' \in Seq(Messages)
    BY <1>0, <1>3, <2>3, <2>5 DEF Elsewhere, OthersStay
  <2>7. PlaceOf(c)' /\ (query[c].chan # 0 => Lookup(c))'
    BY <1>0, <1>3, <1>4, <2>3, <2>5 DEF PlaceOf, InIos, Started
  <2>8. Whole(c)'
    <3> SUFFICES ASSUME m.ec = "ok", v # << >>
                 PROVE  CASE kind[c] = "query_srv" -> AllSRV(seen[c]) /\ Len(v) = Len(seen[c])
                          [] kind[c] = "srv"       -> AllSRV(seen[c]) /\ v = <<1>>
                          [] kind[c] = "host"      -> v = <<0>>
                          [] OTHER                 -> FALSE
      BY <1>0, <2>4, <2>5 DEF Whole
    <3>1. v = m.v
      BY <2>1
    <3> QED  BY <1>2, <1>3, <2>1, <3>1 DEF Answer
  <2>9. \A n \in ToSet(ios') : n.call = c => Answer(n)'
    BY <1>3, <2>3, Zenon DEF In
  <2>10. Place' /\ Lookups' /\ Answers' /\ SuccessIsWhole'
    BY <1>3, <2>3, <2>6, <2>7, <2>8, <2>9, OneCallMoves
  <2> QED  BY <1>0, <1>5, <1>6, <2>3, <2>5, <2>6, <2>10 DEF Rest
<1> QED  BY <1>7, <1>8

\* ares_destroy posts an error for every lookup on the channel and takes them off.
LEMMA DestroyStep ==
  ASSUME IInv, ares_destroy
  PROVE  IInv'
<1> DEFINE Gone == Pending(channel)
           Note(c) == [call |-> c, what |-> query[c].what, ec |-> "error", v |-> << >>]
           Errors == {Note(c) : c \in Gone}
<1>0. /\ pc = "exited" /\ ~destroyed /\ ~crashed /\ destroyed' = TRUE
      /\ ios' = ios \o SetToSeq(Errors)
      /\ query' = [c \in Calls |-> IF c \in Gone THEN None ELSE query[c]]
      /\ UNCHANGED <<is_init, channel, time_to_die, crashed, taskVars, kind, seen, result,
                     fired, blocked>>
  BY Zenon DEF ares_destroy
<1>1. channel # 0
  BY <1>0 DEF IInv, Channel
<1>2. ASSUME NEW c \in Gone
      PROVE  /\ c \in Calls /\ query[c].chan # 0 /\ ~In(ios, c) /\ fired[c] = 0
             /\ kind[c] # "none" /\ Lookup(c)
  <2>1. c \in Calls /\ query[c].chan # 0
    BY <1>1, <1>2 DEF Pending
  <2> QED  BY <2>1, OnlyThere
<1>3. Rest /\ query \in [Calls -> Queries] /\ ios \in Seq(Messages) /\ Single(ios)
  BY TypeParts, Zenon DEF IInv, Place
<1>4. ASSUME NEW c \in Gone
      PROVE  Note(c) \in Messages /\ Note(c).call = c /\ Note(c).ec = "error"
             /\ Note(c).what = query[c].what
  <2>1. query[c].what \in {"srv", "host", "end"}
    BY <1>2, <1>4 DEF Lookup
  <2>2. << >> \in Seq(0..MaxRR)
    OBVIOUS
  <2> QED  BY <1>2, <1>4, <2>1, <2>2 DEF Messages
<1>5. IsFiniteSet(Errors)
  <2>1. IsFiniteSet(Gone)
    BY CallsAssumption, FS_Subset DEF Pending
  <2> DEFINE g == [c \in Gone |-> Note(c)]
  <2> HIDE DEF Gone, Note
  <2>2. g \in Surjection(Gone, Errors)
    BY Zenon DEF Surjection
  <2> HIDE DEF g, Errors
  <2> QED  BY <2>1, <2>2, FS_Surjection
<1>6. PICK t : t = SetToSeq(Errors)
  OBVIOUS
<1>7. t \in Seq(Messages) /\ IsInjective(t) /\ ToSet(t) = Errors
  <2>1. t \in Seq(Errors) /\ IsInjective(t) /\ ToSet(t) = Errors
    BY <1>5, <1>6, SetToSeqFacts
  <2>2. Errors \subseteq Messages
    BY <1>4
  <2> HIDE DEF Errors
  <2> QED  BY <2>1, <2>2
<1>8. \A m \in Errors : m.call \in Gone /\ m = Note(m.call) /\ ~In(ios, m.call) /\ m \notin ToSet(ios)
  <2>1. ASSUME NEW m \in Errors
        PROVE  m.call \in Gone /\ m = Note(m.call) /\ ~In(ios, m.call) /\ m \notin ToSet(ios)
    <3>1. PICK c \in Gone : m = Note(c)
      BY <2>1, Zenon
    <3>2. m.call = c
      BY <1>4, <3>1, Zenon
    <3>3. ~In(ios, c)
      BY <1>2, Zenon
    <3> HIDE DEF Note, Gone
    <3> QED  BY <3>1, <3>2, <3>3, Zenon DEF In
  <2> HIDE DEF Errors
  <2> QED  BY <2>1, Zenon
<1> HIDE DEF Errors
<1>9. /\ ios' \in Seq(Messages) /\ ToSet(ios') = ToSet(ios) \cup Errors
      /\ IsInjective(ios')
  <2> DEFINE M == Messages
  <2>1. ios \in Seq(M) /\ t \in Seq(M) /\ ios' = ios \o t /\ IsInjective(ios) /\ IsInjective(t)
        /\ ToSet(ios) \cap ToSet(t) = {}
    BY <1>0, <1>3, <1>6, <1>7, <1>8 DEF Single
  <2> HIDE DEF M
  <2>2. ios' \in Seq(M) /\ ToSet(ios') = ToSet(ios) \cup ToSet(t) /\ IsInjective(ios')
    BY <2>1, ElementsOfConcat
  <2> QED  BY <1>7, <2>2 DEF M
<1>10. Single(ios)'
  <2>1. ASSUME NEW m \in ToSet(ios'), NEW n \in ToSet(ios'), m.call = n.call PROVE m = n
    <3>1. CASE m \in ToSet(ios) /\ n \in ToSet(ios)
      BY <1>3, <2>1, <3>1, Zenon DEF Single
    <3>2. CASE m \in Errors /\ n \in Errors
      BY <1>8, <2>1, <3>2, Zenon
    <3>3. CASE m \in ToSet(ios) /\ n \in Errors
      BY <1>8, <2>1, <3>3, Zenon DEF In
    <3>4. CASE m \in Errors /\ n \in ToSet(ios)
      BY <1>8, <2>1, <3>4, Zenon DEF In
    <3> QED  BY <1>9, <2>1, <3>1, <3>2, <3>3, <3>4, Zenon
  <2> QED  BY <1>9, <2>1, Zenon DEF Single
<1>11. \A c \in Gone : In(ios', c)
  BY <1>4, <1>9, Zenon DEF In, Errors
<1>12. \A c : c \notin Gone => (In(ios', c) <=> In(ios, c))
  BY <1>8, <1>9, Zenon DEF In
<1> HIDE DEF Gone, Note
<1>13. None \in Queries /\ None.chan = 0
  BY BoundAssumption DEF Queries, None
<1>14. /\ query' \in [Calls -> Queries]
       /\ \A c \in Calls : query'[c] = IF c \in Gone THEN None ELSE query[c]
  BY <1>0, <1>3, <1>13
<1>15. Place'
  <2>1. ASSUME NEW c \in Calls PROVE PlaceOf(c)'
    <3>1. PlaceOf(c)
      BY DEF IInv, Place
    <3>2. CASE c \in Gone
      BY <1>0, <1>2, <1>11, <1>13, <1>14, <3>2 DEF PlaceOf, InIos, Started
    <3>3. CASE c \notin Gone
      BY <1>0, <1>12, <1>14, <3>1, <3>3 DEF PlaceOf, InIos, Started
    <3> QED  BY <3>2, <3>3
  <2> QED  BY <1>10, <2>1, Zenon DEF Place
<1>16. Lookups'
  <2>1. ASSUME NEW c \in Calls, query'[c].chan # 0 PROVE Lookup(c)'
    <3>1. query'[c] = query[c]
      BY <1>13, <1>14, <2>1
    <3> QED  BY <1>0, <2>1, <3>1 DEF IInv, Lookups, Lookup
  <2> QED  BY <2>1, Zenon DEF Lookups
<1>17. Answers'
  <2>1. ASSUME NEW m \in ToSet(ios') PROVE Answer(m)'
    <3>1. CASE m \in ToSet(ios)
      BY <1>0, <3>1 DEF IInv, Answers, Answer
    <3>2. CASE m \in Errors
      <4>1. m.call \in Gone /\ m.ec = "error" /\ m.what = query[m.call].what
        BY <1>4, <1>8, <3>2, ZenonT(60)
      <4> QED  BY <1>0, <1>2, <4>1 DEF Answer, Lookup
    <3> QED  BY <1>9, <2>1, <3>1, <3>2, Zenon
  <2> QED  BY <2>1, Zenon DEF Answers
<1>18. SuccessIsWhole'
  BY <1>0 DEF IInv, SuccessIsWhole, Whole
<1>19. Channel'
  BY <1>0 DEF IInv, Channel, taskVars
<1>20. TypeOK'
  <2>1. Rest'
    BY <1>0, <1>3 DEF Rest, taskVars
  <2>2. /\ kind' \in [Calls -> Kinds \cup {"none"}] /\ seen' \in [Calls -> Seq(RRs)]
        /\ result' \in [Calls -> Results] /\ fired' \in [Calls -> 0..1]
    BY <1>0, TypeParts DEF IInv
  <2> QED  BY <1>9, <1>14, <2>1, <2>2, Zenon DEF TypeOK, Rest, Queries, Results
<1> QED  BY <1>15, <1>16, <1>17, <1>18, <1>19, <1>20 DEF IInv

-----------------------------------------------------------------------------
(* The theorems *)

\* Every step, and a stuttering step, keeps the inductive invariant.
LEMMA Inductive == IInv /\ [Next]_vars => IInv'
<1> SUFFICES ASSUME IInv, [Next]_vars PROVE IInv'
  OBVIOUS
<1>1. CASE service_resolver \/ set_dns_server \/ close \/ run_task \/ select_readable
  BY <1>1, QuietStep
<1>2. CASE ares_destroy
  BY <1>2, DestroyStep
<1>3. CASE run_one
  BY <1>3, RunOneStep
<1>4. ASSUME NEW c \in Calls,
             Call(c) \/ future_get(c) \/ ares_srv_callback(c) \/ ares_hostbyname_callback(c)
      PROVE  IInv'
  BY <1>4, CallStep, QuietStep, SrvStep, HostStep
<1>5. CASE UNCHANGED vars
  BY <1>5 DEF vars, IInv, TypeOK, Place, PlaceOf, InIos, Started, Channel, Lookups, Lookup,
     Answers, Answer, SuccessIsWhole, Whole
<1> QED  BY <1>1, <1>2, <1>3, <1>4, <1>5 DEF Next

\* A call that was made is on a channel, posted or answered, in one of these
\* places and once, for any number of calls whose lookups interleave with
\* set_dns_server, close and the destructor.
THEOREM OnePlace == Spec => []EachCallInOnePlace
<1>1. ASSUME IInv PROVE EachCallInOnePlace
  <2>1. ASSUME ~crashed, NEW c \in Calls, Started(c)
        PROVE  OnChannel(c) + Posted(c) + fired[c] = 1
    <3>1. PlaceOf(c) /\ Single(ios) /\ TypeOK
      BY <1>1 DEF IInv, Place
    <3>2. Posted(c) = IF InIos(c) THEN 1 ELSE 0
      BY <3>1, PostedIsOne
    <3>3. fired[c] \in 0..1
      BY <3>1 DEF TypeOK
    <3> QED  BY <2>1, <3>1, <3>2, <3>3 DEF PlaceOf, OnChannel
  <2> QED  BY <1>1, <2>1 DEF EachCallInOnePlace, IInv
<1> QED  BY <1>1, InitIInv, Inductive, PTL DEF Spec

\* What a callback is given as a success is the whole of its own call's answer,
\* with answers of any number of records and a break at any of them.
THEOREM WholeAnswers == Spec => []SuccessIsWhole
<1>1. IInv => SuccessIsWhole
  BY DEF IInv
<1> QED  BY <1>1, InitIInv, Inductive, PTL DEF Spec

-----------------------------------------------------------------------------
(* select() without a timeout *)

\* No query is on a channel yet to come; from ares_fds to ares_timeout there is
\* a query on some channel, and a select() without a timeout is for a channel
\* that was replaced.
Timeouts ==
  /\ is_init = "no" => channel = 0
  /\ \A c \in Calls : query[c].chan <= channel
  /\ pc = "timeout" => \E c \in Calls : query[c].chan # 0
  /\ WaitsForOrphans

\* A step of a caller or of _ios' thread: new queries go on the present
\* channel, and while run_task is not processing none leaves its channel.
Adds ==
  /\ channel' = channel /\ pc' = pc /\ is_init' = is_init
  /\ \A c \in Calls : \/ query'[c].chan = query[c].chan
                      \/ query'[c].chan = channel /\ query[c].chan = 0

LEMMA AddsKeeps ==
  ASSUME TypeOK, Timeouts, Adds
  PROVE  Timeouts'
<1>1. channel \in Nat /\ \A c \in Calls : query[c].chan \in Nat
  BY DEF TypeOK
<1>2. \A c \in Calls : query'[c].chan <= channel'
  BY <1>1 DEF Timeouts, Adds
<1>3. ASSUME pc' = "timeout" PROVE \E c \in Calls : query'[c].chan # 0
  BY <1>1, <1>3 DEF Timeouts, Adds
<1>4. ASSUME pc' = "forever" PROVE \E c \in Calls : Orphan(c)'
  <2>1. PICK c \in Calls : query[c].chan \notin {0, channel}
    BY <1>4 DEF Timeouts, Adds, WaitsForOrphans, Orphan
  <2> QED  BY <2>1 DEF Adds, Orphan
<1> QED  BY <1>2, <1>3, <1>4 DEF Timeouts, WaitsForOrphans, Adds

LEMMA CallAdds ==
  ASSUME IInv, NEW c \in Calls, Call(c)
  PROVE  Adds
<1>1. query[c].chan = 0 /\ query \in [Calls -> Queries]
  BY TypeParts, NotYet DEF Call, IInv
<1>2. PICK k \in Kinds :
        \/ k = "bad" /\ post(c, "end", "error", << >>) /\ UNCHANGED <<query, crashed>>
        \/ /\ k # "bad" /\ ~mutex
           /\ IF channel = 0
              THEN crashed' = TRUE /\ UNCHANGED <<query, ios, pc>>
              ELSE /\ UNCHANGED crashed
                   /\ \/ /\ query' = [query EXCEPT ![c] = [chan |-> channel, of |-> 0,
                                                           what |-> FirstLookup(k)]]
                         /\ UNCHANGED <<ios, pc>>
                      \/ /\ \E a \in AtOnce(FirstLookup(k), 0) : post(c, FirstLookup(k), a.ec, a.v)
                         /\ UNCHANGED query
  BY DEF Call
<1>3. pc' = pc /\ channel' = channel /\ is_init' = is_init
  BY <1>2 DEF Call, post
<1>4. \/ query' = query
      \/ query' = [query EXCEPT ![c] = [chan |-> channel, of |-> 0, what |-> FirstLookup(k)]]
  BY <1>2, Zenon
<1> QED  BY <1>1, <1>3, <1>4 DEF Adds, Queries

LEMMA RunOneAdds ==
  ASSUME IInv, run_one
  PROVE  Adds
<1> DEFINE m == Head(ios)
           v == [chan |-> channel, what |-> "host", of |-> m.v[1]]
<1>0. ios \in Seq(Messages) /\ ios # << >> /\ query \in [Calls -> Queries] /\ Place
  BY TypeParts DEF IInv, run_one
<1>1. m.call \in Calls /\ In(ios, m.call)
  BY <1>0, TakeFacts DEF Messages
<1>2. query[m.call].chan = 0
  BY <1>0, <1>1 DEF Place, PlaceOf, InIos
<1>3. query' = query \/ query' = [query EXCEPT ![m.call] = v]
  BY Zenon DEF run_one
<1>4. pc' = pc /\ channel' = channel /\ is_init' = is_init
  BY DEF run_one, taskVars
<1> HIDE DEF m
<1> QED  BY <1>0, <1>1, <1>2, <1>3, <1>4 DEF Adds, Queries

LEMMA NextTimeouts == IInv /\ Timeouts /\ [Next]_vars => Timeouts'
<1> SUFFICES ASSUME IInv, Timeouts, [Next]_vars PROVE Timeouts'
  OBVIOUS
<1>0. /\ TypeOK /\ query \in [Calls -> Queries] /\ channel \in Nat
      /\ \A c \in Calls : query[c].chan \in Nat
  BY TypeParts DEF IInv, TypeOK
<1>1. CASE service_resolver
  <2>1. query' = query /\ pc' = pc /\ channel' \in {0, 1} /\ channel = 0 /\ is_init' # "no"
    BY <1>1 DEF service_resolver, lookupVars, taskVars, Timeouts
  <2>2. \A c \in Calls : query[c].chan = 0
    BY <1>0, <2>1 DEF Timeouts
  <2>3. pc # "forever" /\ pc # "timeout"
    BY <2>2 DEF Timeouts, WaitsForOrphans, Orphan
  <2> QED  BY <1>0, <2>1, <2>2, <2>3 DEF Timeouts, WaitsForOrphans
<1>2. CASE set_dns_server
  <2>1. query' = query /\ pc' = pc /\ channel' = channel + 1 /\ is_init' = is_init /\ is_init # "no"
    BY <1>2 DEF set_dns_server, lookupVars, taskVars
  <2> QED  BY <1>0, <2>1 DEF Timeouts, WaitsForOrphans, Orphan
<1>3. CASE run_task_timeout
  <2>1. query' = query /\ channel' = channel /\ is_init' = is_init /\ pc = "timeout"
    BY <1>3 DEF run_task_timeout, lookupVars, ownerVars
  <2>2. PICK c \in Calls : query[c].chan # 0
    BY <2>1 DEF Timeouts
  <2>3. pc' # "timeout" /\ (pc' = "forever" => Orphan(c))
    BY <1>3, <2>2 DEF run_task_timeout, Pending, Orphan
  <2> QED  BY <1>0, <2>1, <2>3 DEF Timeouts, WaitsForOrphans, Orphan
<1>4. CASE run_task_fds
  <2>1. query' = query /\ channel' = channel /\ is_init' = is_init
    BY <1>4 DEF run_task_fds, lookupVars, ownerVars
  <2>2. channel # 0
    BY <1>4 DEF run_task_fds, IInv, Channel
  <2>3. pc' # "forever" /\ (pc' = "timeout" => \E c \in Calls : query[c].chan # 0)
    BY <1>4, <2>2 DEF run_task_fds, Pending
  <2> QED  BY <1>0, <2>1, <2>3 DEF Timeouts, WaitsForOrphans
<1>5. CASE query' = query /\ channel' = channel /\ is_init' = is_init /\ pc' \notin {"timeout", "forever"}
  BY <1>5 DEF Timeouts, WaitsForOrphans
<1>6. CASE query' = query /\ channel' = channel /\ is_init' = is_init /\ pc' = pc
  BY <1>6 DEF Timeouts, WaitsForOrphans, Orphan
<1>7. CASE run_task_loop \/ run_task_process \/ run_task_processed \/ select_readable
  BY <1>5, <1>7 DEF run_task_loop, run_task_process, run_task_processed, select_readable,
     lookupVars, ownerVars
<1>8. CASE close \/ UNCHANGED vars \/ \E c \in Calls : future_get(c)
  BY <1>6, <1>8 DEF close, future_get, vars, lookupVars, taskVars, ownerVars
<1>9. CASE run_one
  BY <1>0, <1>9, RunOneAdds, AddsKeeps
<1>10. ASSUME NEW c \in Calls, Call(c) PROVE Timeouts'
  BY <1>0, <1>10, CallAdds, AddsKeeps
<1>11. ASSUME NEW c \in Calls, ares_srv_callback(c) \/ ares_hostbyname_callback(c)
       PROVE  Timeouts'
  <2>1. pc' = pc /\ pc = "processing" /\ channel' = channel /\ is_init' = is_init /\ query' = [query EXCEPT ![c] = None]
    BY <1>11 DEF ares_srv_callback, ares_hostbyname_callback, post, ownerVars
  <2>2. \A d \in Calls : query'[d].chan \in {0, query[d].chan}
    BY <1>0, <2>1 DEF None
  <2> QED  BY <1>0, <2>1, <2>2 DEF Timeouts, WaitsForOrphans
<1>12. CASE ares_destroy
  <2>1. pc' = pc /\ pc = "exited" /\ channel' = channel /\ is_init' = is_init
    BY <1>12 DEF ares_destroy, taskVars
  <2>2. \A d \in Calls : query'[d].chan \in {0, query[d].chan}
    BY <1>0, <1>12 DEF ares_destroy, None
  <2> QED  BY <1>0, <2>1, <2>2 DEF Timeouts, WaitsForOrphans
<1> QED  BY <1>1, <1>2, <1>3, <1>4, <1>7, <1>8, <1>9, <1>10, <1>11, <1>12 DEF Next, run_task

\* The safety part of CloseReturns, for any number of calls and channels:
\* run_task waits without a timeout only if set_dns_server has replaced a channel
\* that had a query on it.
THEOREM OrphansOnly == Spec => []WaitsForOrphans
<1>1. Init => Timeouts
  BY DEF Init, Timeouts, WaitsForOrphans, None
<1>2. (IInv /\ Timeouts) /\ [Next]_vars => (IInv /\ Timeouts)'
  BY Inductive, NextTimeouts
<1>3. Timeouts => WaitsForOrphans
  BY DEF Timeouts
<1> QED  BY <1>1, <1>2, <1>3, InitIInv, PTL DEF Spec
=============================================================================
