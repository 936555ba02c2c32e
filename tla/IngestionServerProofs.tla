----------------------- MODULE IngestionServerProofs -----------------------
(***************************************************************************)
(* Proofs about IngestionServer, for any number of methods, clients,       *)
(* topics, requests and calls: the life of a call_data object, and what a  *)
(* reply tells a client about its messages.                                *)
(***************************************************************************)
EXTENDS IngestionServer, SequenceFacts

Events(o) == { e \in cq : e.tag = o }

(***************************************************************************)
(* The life of an object.  It waits for a call, has the call's event to    *)
(* come, waits for its reply to go out, has that event to come, and is     *)
(* deleted.  LOG(FATAL) leaves the object it serves without an event.      *)
(***************************************************************************)
Life(o) ==
  \/ /\ objects[o].status = "START" /\ objects[o].call = 0
     /\ outstanding[o] = {"request"} /\ Events(o) = {}
  \/ /\ objects[o].status = "START" /\ objects[o].call # 0
     /\ outstanding[o] = {} /\ \E e \in cq : Events(o) = {e}
  \/ /\ objects[o].status = "FINISH" /\ objects[o].call # 0
     /\ outstanding[o] = {"finish"} /\ Events(o) = {}
  \/ /\ objects[o].status = "FINISH" /\ objects[o].call # 0
     /\ outstanding[o] = {} /\ \E e \in cq : Events(o) = {e}
  \/ /\ objects[o].status = "deleted" /\ objects[o].call # 0
     /\ outstanding[o] = {} /\ Events(o) = {}

Lives == pc # "dead" => \A o \in 1..Len(objects) : Life(o)

\* One object of each method is in START.
OneStart ==
  pc # "dead" => \A m \in Methods : \E o \in 1..Len(objects) :
    { x \in 1..Len(objects) : objects[x].method = m /\ objects[x].status = "START" } = {o}

\* An object serves a call of its method, and no two serve the same one; it has
\* a reply from when it is out of START.
Claims ==
  /\ \A o \in 1..Len(objects) :
       /\ objects[o].call # 0 => /\ calls[objects[o].call].method = objects[o].method
                                 /\ calls[objects[o].call].state # "sent"
       /\ objects[o].reply = "none" <=> objects[o].status = "START"
       /\ objects[o].status # "START" => objects[o].call # 0
  /\ \A o, x \in 1..Len(objects) :
       objects[o].call = objects[x].call /\ objects[o].call # 0 => o = x

\* The caches and the sinks name each other.
Caches ==
  /\ \A s \in 1..Len(sinks) : cache[sinks[s].method][sinks[s].topic] = s
  /\ \A m \in Methods, t \in Topics : cache[m][t] # 0 =>
       sinks[cache[m][t]].method = m /\ sinks[cache[m][t]].topic = t

\* Message i of call k is at place j of sink s.
At(k, i, s, j) == s \in 1..Len(sinks) /\ Holds(sinks[s].msgs, j, Message(k, i))

\* The messages that call k pushes, and an object's "ok" for it.
Pushed(k) == Pushes(calls[k].method, calls[k].bundle)
OkFor(k) == \E o \in 1..Len(objects) : objects[o].call = k /\ objects[o].reply = "ok"

\* The messages of a call are on sinks of its method, once each, from when an
\* object has answered "ok" for the call.
MessagesOf(k) ==
  \A i \in Nat :
    /\ \A s, j \in Nat : At(k, i, s, j) =>
         /\ OkFor(k) /\ i \in Pushed(k) /\ sinks[s].method = calls[k].method
         /\ \A s2, j2 \in Nat : At(k, i, s2, j2) => s2 = s /\ j2 = j
    /\ OkFor(k) /\ i \in Pushed(k) => \E s, j \in Nat : At(k, i, s, j)

Messages == \A k \in 1..Len(calls) : MessagesOf(k)

\* What a client was told is what an object replied.
Told ==
  \A k \in 1..Len(calls) : calls[k].state \in {"ok", "unauthenticated"} =>
    \E o \in 1..Len(objects) : objects[o].call = k /\ objects[o].reply = calls[k].state

IInv == TypeOK /\ Lives /\ OneStart /\ Claims /\ Caches /\ Messages /\ Told

-----------------------------------------------------------------------------
(* The loop over a bundle *)

LEMMA PushBundleFacts ==
  ASSUME NEW k \in Nat, NEW Types, calls[k].bundle \in Seq(Types)
  PROVE  LET p == PushBundle(k)
             N == Len(calls[k].bundle)
             Q == Pushes(calls[k].method, calls[k].bundle) IN
         /\ p \in Seq([call : {k}, index : 1..N])
         /\ \A j \in 1..Len(p) : p[j].index \in Q /\ p[j] = Message(k, p[j].index)
         /\ \A i \in Q : \E j \in 1..Len(p) : p[j] = Message(k, i)
         /\ \A j, j2 \in 1..Len(p) : p[j] = p[j2] => j = j2
<1> DEFINE N == Len(calls[k].bundle)
           Q == Pushes(calls[k].method, calls[k].bundle)
           M == [call : {k}, index : 1..N]
           Step(g) == [n \in 0..N |-> IF n = 0 THEN << >>
                                     ELSE IF n \in Q THEN Append(g[n - 1], Message(k, n))
                                     ELSE g[n - 1]]
           f == CHOOSE g : g = Step(g)
<1>1. N \in Nat /\ Q \subseteq 1..N
  BY DEF Pushes
<1>2. PushBundle(k) = f[N]
  BY DEF PushBundle, PushUpTo
<1> HIDE DEF N, Q
<1>3. \A n \in 1..N : Message(k, n) \in M
  BY DEF Message
<1> HIDE DEF M
<1>4. \E g : g = Step(g)
  <2> DEFINE D == [n \in 1..N |-> [s \in Seq(M) |-> IF n \in Q THEN Append(s, Message(k, n)) ELSE s]]
  <2>1. D \in [1..N -> [Seq(M) -> Seq(M)]]
    <3>1. ASSUME NEW n \in 1..N, NEW s \in Seq(M)
          PROVE  (IF n \in Q THEN Append(s, Message(k, n)) ELSE s) \in Seq(M)
      BY <1>3
    <3> QED  BY <3>1
  <2>2. << >> \in Seq(M)
    OBVIOUS
  <2>3. PICK g \in [0..N -> Seq(M)] : g[0] = << >> /\ \A n \in 1..N : g[n] = D[n][g[n - 1]]
    <3>1. \E g : Computes(g, << >>, D, N, Seq(M))
      <4>1. Rounds(D, N, Seq(M))
        BY <2>1 DEF Rounds
      <4> HIDE DEF D
      <4> QED  BY <1>1, <2>2, <4>1, FiniteRecursion
    <3> HIDE DEF D
    <3> QED  BY <3>1 DEF Computes
  <2>4. ASSUME NEW n \in 0..N PROVE g[n] = Step(g)[n]
    <3>1. CASE n = 0
      BY <2>3, <3>1
    <3>2. CASE n \in 1..N
      <4>1. n - 1 \in 0..N /\ n # 0
        BY <1>1, <3>2
      <4>2. g[n] = D[n][g[n - 1]] /\ g[n - 1] \in Seq(M)
        BY <2>3, <3>2, <4>1
      <4> QED  BY <3>2, <4>1, <4>2
    <3> QED  BY <1>1, <3>1, <3>2
  <2>5. g = Step(g)
    BY <2>4
  <2> QED  BY <2>5
<1>5. f = Step(f)
  BY <1>4
<1> HIDE DEF f
<1>6. /\ f[0] = << >>
      /\ \A n \in 1..N : f[n] = IF n \in Q THEN Append(f[n - 1], Message(k, n)) ELSE f[n - 1]
  <2> DEFINE h == Step(f)
  <2>1. \A n \in 0..N : h[n] = IF n = 0 THEN << >>
                               ELSE IF n \in Q THEN Append(f[n - 1], Message(k, n)) ELSE f[n - 1]
    OBVIOUS
  <2>2. f = h
    BY <1>5, Zenon
  <2> HIDE DEF h
  <2>3. 0 \in 0..N /\ \A n \in 1..N : n \in 0..N /\ n # 0
    BY <1>1
  <2> QED  BY <2>1, <2>2, <2>3, Zenon
<1> DEFINE Good(p, n) ==
             /\ p \in Seq(M)
             /\ \A j \in 1..Len(p) : p[j].index \in Q /\ p[j].index <= n /\ p[j] = Message(k, p[j].index)
             /\ \A i \in Q : i <= n => \E j \in 1..Len(p) : p[j] = Message(k, i)
             /\ \A j, j2 \in 1..Len(p) : p[j] = p[j2] => j = j2
           P == { n \in Nat : n <= N => Good(f[n], n) }
<1>7. 0 \in P
  <2>1. << >> \in Seq(M) /\ Len(<< >>) = 0 /\ 1..0 = {} /\ \A i \in Q : ~ (i <= 0)
    BY <1>1
  <2>2. Good(<< >>, 0)
    BY <2>1
  <2>3. f[0] = << >>
    BY <1>6
  <2> DEFINE p0 == f[0]
  <2>4. Good(p0, 0)
    <3> HIDE DEF p0
    <3> QED BY <2>2, <2>3 DEF p0
  <2> HIDE DEF Good
  <2> QED  BY <2>4
<1>8. ASSUME NEW n \in Nat, n \in P PROVE n + 1 \in P
  <2> SUFFICES ASSUME n + 1 <= N PROVE Good(f[n + 1], n + 1)
    OBVIOUS
  <2>1. Good(f[n], n)
    BY <1>1, <1>8
  <2>2. n + 1 \in 1..N /\ (n + 1) - 1 = n
    BY <1>1
  <2>3. f[n + 1] = IF n + 1 \in Q THEN Append(f[n], Message(k, n + 1)) ELSE f[n]
    BY <1>6, <2>2
  <2> DEFINE p == f[n]
             q == f[n + 1]
  <2> HIDE DEF p, q
  <2>4. CASE n + 1 \in Q
    <3>1. /\ q = Append(p, Message(k, n + 1)) /\ Good(p, n) /\ Message(k, n + 1) \in M
          /\ Message(k, n + 1).index = n + 1
      BY <1>3, <2>1, <2>2, <2>3, <2>4 DEF p, q, Message
    <3>2. /\ q \in Seq(M) /\ Len(q) = Len(p) + 1 /\ Len(p) \in Nat /\ q[Len(p) + 1] = Message(k, n + 1)
          /\ \A j \in 1..Len(p) : q[j] = p[j]
          /\ \A j \in 1..Len(q) : j \in 1..Len(p) \/ j = Len(p) + 1
      BY <3>1
    <3>3. ASSUME NEW j \in 1..Len(q) 
          PROVE  q[j].index \in Q /\ q[j].index <= n + 1 /\ q[j] = Message(k, q[j].index)
      <4>1. CASE j = Len(p) + 1
        BY <2>4, <3>1, <3>2, <4>1
      <4>2. CASE j \in 1..Len(p)
        <5>1. q[j] = p[j] /\ p[j].index \in Q /\ p[j].index <= n /\ p[j] = Message(k, p[j].index)
          BY <3>1, <3>2, <4>2
        <5>2. \A x \in Q : x <= n => x <= n + 1
          BY <1>1
        <5> QED  BY <5>1, <5>2, Zenon
      <4> QED  BY <3>2, <4>1, <4>2
    <3>4. ASSUME NEW i \in Q, i <= n + 1 PROVE \E j \in 1..Len(q) : q[j] = Message(k, i)
      <4>1. CASE i = n + 1
        BY <3>2, <4>1
      <4>2. CASE i <= n
        <5>1. PICK j \in 1..Len(p) : p[j] = Message(k, i)
          BY <3>1, <4>2
        <5>2. j \in 1..Len(q) /\ q[j] = Message(k, i)
          BY <3>2, <5>1
        <5> QED  BY <5>2
      <4> QED  BY <1>1, <3>4, <4>1, <4>2
    <3>5. ASSUME NEW j \in 1..Len(q), NEW j2 \in 1..Len(q), q[j] = q[j2] PROVE j = j2
      <4>1. \A x \in 1..Len(p) : q[x] # Message(k, n + 1)
        BY <1>1, <3>1, <3>2
      <4>2. CASE j \in 1..Len(p) /\ j2 \in 1..Len(p)
        BY <3>1, <3>2, <3>5, <4>2
      <4> QED  BY <3>2, <3>5, <4>1, <4>2
    <3> QED  BY <3>2, <3>3, <3>4, <3>5 DEF q
  <2>5. CASE n + 1 \notin Q
    <3>1. f[n + 1] = f[n]
      BY <2>3, <2>5
    <3>2. \A i \in Q : i <= n + 1 => i <= n
      BY <1>1, <2>5
    <3>3. Good(p, n) => Good(p, n + 1)
      <4>1. \A x \in Q : x <= n => x <= n + 1
        BY <1>1
      <4> QED  BY <3>2, <4>1, Zenon
    <3> QED  BY <2>1, <3>1, <3>3 DEF p
  <2> QED  BY <2>4, <2>5
<1> HIDE DEF P
<1>9. N \in P
  BY <1>1, <1>7, <1>8, NatSetInduction
<1>10. Good(f[N], N)
  BY <1>1, <1>9 DEF P
<1>11. \A i \in Q : i <= N
  BY <1>1
<1> QED  BY <1>2, <1>10, <1>11 DEF N, Q, M

-----------------------------------------------------------------------------
(* Types *)

CallRecord == [client : Clients, method : Methods, bundle : Bundles,
               state : {"sent", "arrived", "ok", "unauthenticated", "lost"}]
ObjectRecord(n) == [method : Methods, status : {"START", "FINISH", "deleted"},
                    call : 0..n, reply : {"none", "ok", "unauthenticated"}]
SinkRecord(n) == [method : Methods, topic : Topics, msgs : Seq([call : 1..n, index : Nat])]

\* TypeOK, element by element.
LEMMA Typed ==
  ASSUME TypeOK
  PROVE  /\ Len(calls) \in Nat /\ Len(objects) \in Nat /\ Len(sinks) \in Nat
         /\ calls \in Seq(CallRecord) /\ objects \in Seq(ObjectRecord(Len(calls)))
         /\ sinks \in Seq(SinkRecord(Len(calls)))
         /\ \A k \in 1..Len(calls) : calls[k] \in CallRecord
         /\ \A o \in 1..Len(objects) : objects[o] \in ObjectRecord(Len(calls))
         /\ \A x \in 1..Len(sinks) : sinks[x] \in SinkRecord(Len(calls))
<1>1. /\ calls \in Seq(CallRecord) /\ objects \in Seq(ObjectRecord(Len(calls)))
      /\ sinks \in Seq(SinkRecord(Len(calls)))
  BY DEF TypeOK, CallRecord, ObjectRecord, SinkRecord
<1> QED  BY <1>1

\* What was typed for n calls is typed for more.
LEMMA MoreCalls ==
  ASSUME NEW n \in Nat, NEW m \in Nat, n <= m
  PROVE  /\ \A s \in Seq(ObjectRecord(n)) : s \in Seq(ObjectRecord(m))
         /\ \A s \in Seq(SinkRecord(n)) : s \in Seq(SinkRecord(m))
<1>1. 0..n \subseteq 0..m /\ 1..n \subseteq 1..m
  OBVIOUS
<1>2. ObjectRecord(n) \subseteq ObjectRecord(m)
  BY <1>1 DEF ObjectRecord
<1>3. [call : 1..n, index : Nat] \subseteq [call : 1..m, index : Nat]
  BY <1>1
<1>4. Seq([call : 1..n, index : Nat]) \subseteq Seq([call : 1..m, index : Nat])
  BY <1>3, SeqMonotonic
<1>5. SinkRecord(n) \subseteq SinkRecord(m)
  BY <1>4 DEF SinkRecord
<1> QED  BY <1>2, <1>5, SeqMonotonic

LEMMA InitType == Init => TypeOK
<1> SUFFICES ASSUME Init PROVE TypeOK
  OBVIOUS
<1>1. Len(StartOrder) \in Nat /\ \A i \in 1..Len(StartOrder) : StartOrder[i] \in Methods
  BY OrderAssumption DEF Methods
<1>2. calls = << >> /\ Len(calls) = 0 /\ sinks = << >> /\ Len(sinks) = 0
  BY DEF Init
<1>3. objects \in Seq(ObjectRecord(Len(calls))) /\ Len(objects) = Len(StartOrder)
  BY <1>1, <1>2 DEF Init, Waiting, ObjectRecord
<1>4. /\ outstanding \in [1..Len(objects) -> SUBSET {"request", "finish"}]
      /\ cache \in [Methods -> [Topics -> 0..Len(sinks)]]
      /\ grant \in [Clients \X Methods -> Topics \cup {Denied}]
  BY <1>1, <1>2, <1>3 DEF Init
<1> QED  BY <1>2, <1>3, <1>4, CallsAssumption DEF Init, TypeOK, ObjectRecord

\* What each action does to the records, field by field.
LEMMA ClientCallsType ==
  ASSUME TypeOK, NEW c \in Clients, NEW m \in Methods, NEW b \in Bundles, ClientCalls(c, m, b)
  PROVE  /\ TypeOK' /\ Len(calls') = Len(calls) + 1
         /\ \A k \in 1..Len(calls) : calls'[k] = calls[k]
         /\ calls'[Len(calls) + 1] = [client |-> c, method |-> m, bundle |-> b, state |-> "sent"]
<1> DEFINE r == [client |-> c, method |-> m, bundle |-> b, state |-> "sent"]
<1>0. UNCHANGED <<grant, objects, outstanding, cq, cache, sinks, run, pc>> /\ calls' = Append(calls, r)
      /\ Len(calls) < MaxCalls
  BY DEF ClientCalls
<1>1. r \in CallRecord
  BY DEF CallRecord
<1> HIDE DEF r
<1>2. /\ calls' \in Seq(CallRecord) /\ Len(calls') = Len(calls) + 1 /\ calls'[Len(calls) + 1] = r
      /\ \A k \in 1..Len(calls) : calls'[k] = calls[k]
  BY <1>0, <1>1, Typed
<1>3. Len(calls') <= MaxCalls /\ Len(calls) \in Nat /\ Len(calls') \in Nat /\ Len(calls) <= Len(calls')
  BY <1>0, <1>2, Typed, CallsAssumption
<1>4. objects' \in Seq(ObjectRecord(Len(calls'))) /\ sinks' \in Seq(SinkRecord(Len(calls')))
  BY <1>0, <1>3, Typed, MoreCalls
<1> QED  BY <1>0, <1>2, <1>3, <1>4 DEF TypeOK, CallRecord, ObjectRecord, SinkRecord, r

LEMMA CallArrivesType ==
  ASSUME TypeOK, NEW k \in 1..Len(calls), NEW o \in 1..Len(objects), CallArrives(k, o)
  PROVE  /\ TypeOK'
         /\ Len(calls') = Len(calls) /\ calls'[k] = [calls[k] EXCEPT !.state = "arrived"]
         /\ \A x \in 1..Len(calls) : x # k => calls'[x] = calls[x]
         /\ Len(objects') = Len(objects) /\ objects'[o] = [objects[o] EXCEPT !.call = k]
         /\ \A x \in 1..Len(objects) : x # o => objects'[x] = objects[x]
<1>0. /\ calls' = [calls EXCEPT ![k].state = "arrived"] /\ objects' = [objects EXCEPT ![o].call = k]
      /\ outstanding' = [outstanding EXCEPT ![o] = @ \ {"request"}]
      /\ cq' = cq \cup {[tag |-> o, ok |-> TRUE]} /\ UNCHANGED <<grant, cache, sinks, run, pc>>
  BY DEF CallArrives
<1> DEFINE r == [calls[k] EXCEPT !.state = "arrived"]
           w == [objects[o] EXCEPT !.call = k]
<1>1. r \in CallRecord /\ calls' = [calls EXCEPT ![k] = r]
  BY <1>0, Typed DEF CallRecord
<1>2. w \in ObjectRecord(Len(calls)) /\ objects' = [objects EXCEPT ![o] = w]
  <2>1. k \in 0..Len(calls)
    OBVIOUS
  <2>2. w \in ObjectRecord(Len(calls))
    BY <2>1, Typed DEF ObjectRecord
  <2>3. objects' = [objects EXCEPT ![o] = w]
    BY <1>0, Typed DEF ObjectRecord
  <2> QED  BY <2>2, <2>3
<1> HIDE DEF r, w
<1>5. /\ calls' \in Seq(CallRecord) /\ Len(calls') = Len(calls) /\ calls'[k] = r
      /\ \A x \in 1..Len(calls) : x # k => calls'[x] = calls[x]
  BY <1>1, Typed, ExceptSeq
<1>6. /\ objects' \in Seq(ObjectRecord(Len(calls))) /\ Len(objects') = Len(objects) /\ objects'[o] = w
      /\ \A x \in 1..Len(objects) : x # o => objects'[x] = objects[x]
  BY <1>2, Typed, ExceptSeq
<1>3. outstanding' \in [1..Len(objects) -> SUBSET {"request", "finish"}]
  BY <1>0 DEF TypeOK
<1>4. cq' \subseteq [tag : 1..Len(objects), ok : BOOLEAN]
  <2>1. [tag |-> o, ok |-> TRUE] \in [tag : 1..Len(objects), ok : BOOLEAN]
    OBVIOUS
  <2> QED  BY <1>0, <2>1, Zenon DEF TypeOK
<1>7. TypeOK'
  BY <1>0, <1>3, <1>4, <1>5, <1>6 DEF TypeOK, CallRecord, ObjectRecord
<1> QED  BY <1>5, <1>6, <1>7 DEF r, w

LEMMA ReplySentType ==
  ASSUME TypeOK, Claims, NEW o \in 1..Len(objects), NEW ok \in BOOLEAN, ReplySent(o, ok),
         objects[o].call # 0, objects[o].status = "FINISH"
  PROVE  /\ TypeOK' /\ Len(calls') = Len(calls)
         /\ calls'[objects[o].call] = [calls[objects[o].call] EXCEPT !.state = IF ok THEN objects[o].reply ELSE "lost"]
         /\ \A x \in 1..Len(calls) : x # objects[o].call => calls'[x] = calls[x]
<1>0. /\ calls' = [calls EXCEPT ![objects[o].call].state = IF ok THEN objects[o].reply ELSE "lost"]
      /\ outstanding' = [outstanding EXCEPT ![o] = @ \ {"finish"}]
      /\ cq' = cq \cup {[tag |-> o, ok |-> ok]} /\ UNCHANGED <<grant, objects, cache, sinks, run, pc>>
  BY DEF ReplySent
<1>1. /\ objects[o].call \in 1..Len(calls)
      /\ (IF ok THEN objects[o].reply ELSE "lost") \in {"ok", "unauthenticated", "lost"}
  BY Typed DEF Claims, ObjectRecord
<1> DEFINE k == objects[o].call
           a == IF ok THEN objects[o].reply ELSE "lost"
           r == [calls[k] EXCEPT !.state = a]
<1>5. k \in 1..Len(calls) /\ a \in {"ok", "unauthenticated", "lost"}
  BY <1>1
<1>6. calls' = [calls EXCEPT ![k] = r]
  BY <1>0, <1>5, Typed DEF CallRecord
<1> HIDE DEF k, a
<1>7. r \in CallRecord
  BY <1>5, Typed DEF CallRecord
<1> HIDE DEF r
<1>2. /\ calls' \in Seq(CallRecord) /\ Len(calls') = Len(calls) /\ calls'[k] = r
      /\ \A x \in 1..Len(calls) : x # k => calls'[x] = calls[x]
  BY <1>5, <1>6, <1>7, Typed, ExceptSeq
<1>3. outstanding' \in [1..Len(objects) -> SUBSET {"request", "finish"}]
  BY <1>0 DEF TypeOK
<1>4. cq' \subseteq [tag : 1..Len(objects), ok : BOOLEAN]
  <2>1. [tag |-> o, ok |-> ok] \in [tag : 1..Len(objects), ok : BOOLEAN]
    OBVIOUS
  <2> QED  BY <1>0, <2>1, Zenon DEF TypeOK
<1>8. TypeOK'
  BY <1>0, <1>2, <1>3, <1>4 DEF TypeOK, CallRecord
<1> QED  BY <1>2, <1>8 DEF k, a, r

\* Reply and what it leaves: the object has its reply, and a new one waits.
LEMMA ReplyType ==
  ASSUME TypeOK, NEW o \in 1..Len(objects), NEW answer \in {"ok", "unauthenticated"},
         Reply(o, answer), UNCHANGED calls, cq' \subseteq cq
  PROVE  /\ objects' \in Seq(ObjectRecord(Len(calls'))) /\ Len(objects') = Len(objects) + 1
         /\ outstanding' \in [1..Len(objects') -> SUBSET {"request", "finish"}]
         /\ cq' \subseteq [tag : 1..Len(objects'), ok : BOOLEAN]
         /\ \A x \in 1..Len(objects) : x # o => objects'[x] = objects[x] /\ outstanding'[x] = outstanding[x]
         /\ objects'[o] = [objects[o] EXCEPT !.status = "FINISH", !.reply = answer]
         /\ outstanding'[o] = outstanding[o] \cup {"finish"}
         /\ objects'[Len(objects) + 1] = Waiting(objects[o].method)
         /\ outstanding'[Len(objects) + 1] = {"request"}
<1> DEFINE w == Waiting(objects[o].method)
           q == [objects EXCEPT ![o].status = "FINISH", ![o].reply = answer]
           u == [outstanding EXCEPT ![o] = @ \cup {"finish"}]
<1>0. objects' = Append(q, w) /\ outstanding' = Append(u, {"request"})
  BY DEF Reply
<1>1. w \in ObjectRecord(Len(calls))
  BY Typed DEF Waiting, ObjectRecord
<1>2. /\ q \in Seq(ObjectRecord(Len(calls))) /\ Len(q) = Len(objects)
      /\ \A x \in 1..Len(objects) : x # o => q[x] = objects[x]
      /\ q[o] = [objects[o] EXCEPT !.status = "FINISH", !.reply = answer]
  <2> DEFINE r == [objects[o] EXCEPT !.status = "FINISH", !.reply = answer]
  <2>1. r \in ObjectRecord(Len(calls))
    BY Typed DEF ObjectRecord
  <2>2. q = [objects EXCEPT ![o] = r]
    BY Typed DEF ObjectRecord
  <2> HIDE DEF r, q
  <2>3. /\ q \in Seq(ObjectRecord(Len(calls))) /\ Len(q) = Len(objects) /\ q[o] = r
        /\ \A x \in 1..Len(objects) : x # o => q[x] = objects[x]
    BY <2>1, <2>2, Typed, ExceptSeq
  <2> QED  BY <2>3 DEF r
<1> DEFINE T == SUBSET {"request", "finish"}
<1>3. /\ u \in Seq(T) /\ Len(u) = Len(objects)
      /\ \A x \in 1..Len(objects) : x # o => u[x] = outstanding[x]
      /\ u[o] = outstanding[o] \cup {"finish"}
  <2>1. outstanding \in [1..Len(objects) -> T] /\ Len(objects) \in Nat
    BY Typed DEF TypeOK
  <2>2. u \in [1..Len(objects) -> T]
    BY <2>1
  <2>3. u[o] = outstanding[o] \cup {"finish"} /\ \A x \in 1..Len(objects) : x # o => u[x] = outstanding[x]
    BY <2>1
  <2> HIDE DEF u, T
  <2> QED  BY <2>1, <2>2, <2>3
<1>7. {"request"} \in T
  OBVIOUS
<1> HIDE DEF w, q, u, T
<1>4. /\ objects' \in Seq(ObjectRecord(Len(calls))) /\ Len(objects') = Len(objects) + 1
      /\ objects'[Len(objects) + 1] = w
      /\ \A x \in 1..Len(objects) : objects'[x] = q[x]
  BY <1>0, <1>1, <1>2
<1>5. /\ outstanding' \in Seq(T) /\ Len(outstanding') = Len(objects) + 1
      /\ outstanding'[Len(objects) + 1] = {"request"}
      /\ \A x \in 1..Len(objects) : outstanding'[x] = u[x]
  <2>1. PICK n \in Nat : n = Len(objects)
    BY Typed
  <2>2. PICK f : f = u
    OBVIOUS
  <2>3. f \in Seq(T) /\ Len(f) = n /\ outstanding' = Append(f, {"request"})
    BY <1>0, <1>3, <2>1, <2>2
  <2>4. /\ outstanding' \in Seq(T) /\ Len(outstanding') = n + 1
        /\ outstanding'[n + 1] = {"request"}
        /\ \A x \in 1..n : outstanding'[x] = f[x]
    BY <1>7, <2>1, <2>3
  <2> QED  BY <2>1, <2>2, <2>4
<1>6. cq' \subseteq [tag : 1..Len(objects'), ok : BOOLEAN]
  BY <1>4, Typed DEF TypeOK
<1>8. outstanding' \in [1..Len(objects') -> T]
  BY <1>4, <1>5
<1> QED  BY <1>2, <1>3, <1>4, <1>5, <1>6, <1>8 DEF w, T

LEMMA ProcessFinishType ==
  ASSUME TypeOK, NEW e \in cq, ProcessFinish(e)
  PROVE  /\ TypeOK' /\ e.tag \in 1..Len(objects) /\ Len(objects') = Len(objects)
         /\ objects'[e.tag] = [objects[e.tag] EXCEPT !.status = "deleted"]
         /\ \A x \in 1..Len(objects) : x # e.tag => objects'[x] = objects[x]
<1>0. /\ objects' = [objects EXCEPT ![e.tag].status = "deleted"] /\ cq' = cq \ {e} /\ pc' = "top"
      /\ UNCHANGED <<grant, calls, outstanding, cache, sinks, run>>
  BY DEF ProcessFinish
<1>1. e.tag \in 1..Len(objects)
  BY DEF TypeOK
<1> DEFINE o == e.tag
           w == [objects[o] EXCEPT !.status = "deleted"]
<1>3. w \in ObjectRecord(Len(calls)) /\ objects' = [objects EXCEPT ![o] = w]
  BY <1>0, <1>1, Typed DEF ObjectRecord
<1>4. o \in 1..Len(objects)
  BY <1>1
<1> HIDE DEF o, w
<1>2. /\ objects' \in Seq(ObjectRecord(Len(calls))) /\ Len(objects') = Len(objects) /\ objects'[o] = w
      /\ \A x \in 1..Len(objects) : x # o => objects'[x] = objects[x]
  BY <1>3, <1>4, Typed, ExceptSeq
<1>5. TypeOK'
  BY <1>0, <1>2 DEF TypeOK, ObjectRecord
<1> QED  BY <1>1, <1>2, <1>5 DEF o, w

\* The steps that break calls off: ~ServerImpl's Shutdown and a dead process.
Breaks ==
  /\ \E states : BreakOff(states)
  /\ UNCHANGED <<grant, objects, outstanding, cq, cache, sinks, run>>
  /\ pc' \in {pc, "shutdown"} /\ (pc' = "shutdown" => pc # "dead")

\* A call that is broken off keeps all but its state.
LEMMA BreaksType ==
  ASSUME TypeOK, Breaks
  PROVE  /\ TypeOK' /\ Len(calls') = Len(calls)
         /\ \A k \in 1..Len(calls) :
              /\ calls'[k].method = calls[k].method /\ calls'[k].bundle = calls[k].bundle
              /\ calls'[k].state = calls[k].state \/ calls'[k].state = "lost"
<1> PICK states :
         calls' = [k \in 1..Len(calls) |-> IF calls[k].state \in states
                                           THEN [calls[k] EXCEPT !.state = "lost"] ELSE calls[k]]
  BY DEF Breaks, BreakOff
<1>0. /\ UNCHANGED <<grant, objects, outstanding, cq, cache, sinks, run>>
      /\ pc' \in {"top", "next", "stopped", "shutdown", "gone", "dead"}
  BY DEF Breaks, TypeOK
<1>1. ASSUME NEW k \in 1..Len(calls)
      PROVE  /\ calls'[k] \in CallRecord
             /\ calls'[k].method = calls[k].method /\ calls'[k].bundle = calls[k].bundle
             /\ calls'[k].state = calls[k].state \/ calls'[k].state = "lost"
  BY <1>0, Typed DEF CallRecord
<1>2. calls' \in Seq(CallRecord) /\ Len(calls') = Len(calls)
  BY <1>0, <1>1, Typed
<1> QED  BY <1>0, <1>1, <1>2 DEF TypeOK, CallRecord

\* Every pushed message is one of a bundle's.
LEMMA PushType ==
  ASSUME TypeOK, NEW k \in 1..Len(calls)
  PROVE  /\ PushBundle(k) \in Seq([call : 1..Len(calls), index : Nat])
         /\ calls[k].bundle \in Seq({"value", "novalue"})
<1>1. calls[k].bundle \in Seq({"value", "novalue"}) /\ k \in Nat
  BY Typed, BundlesAssumption DEF CallRecord
<1>2. PushBundle(k) \in Seq([call : {k}, index : 1..Len(calls[k].bundle)])
  BY <1>1, PushBundleFacts
<1>3. [call : {k}, index : 1..Len(calls[k].bundle)] \subseteq [call : 1..Len(calls), index : Nat]
  BY <1>1
<1> DEFINE A == [call : {k}, index : 1..Len(calls[k].bundle)]
           B == [call : 1..Len(calls), index : Nat]
<1>4. A \subseteq B /\ PushBundle(k) \in Seq(A)
  BY <1>2, <1>3
<1>5. PushBundle(k) \in Seq(B)
  <2> HIDE DEF A, B
  <2> QED  BY <1>4, SeqMonotonic
<1> QED  BY <1>1, <1>5

\* The messages of a call go to the back of one sink, and the caches know it.
LEMMA UseSinkEffect ==
  ASSUME TypeOK, Caches, NEW k \in 1..Len(calls), NEW m \in Methods, NEW t \in Topics,
         UseSink(k, m, t)
  PROVE  /\ sinks' \in Seq(SinkRecord(Len(calls)))
         /\ cache' \in [Methods -> [Topics -> 0..Len(sinks')]]
         /\ Caches'
         /\ \A x \in 1..Len(sinks) : x \in 1..Len(sinks') /\ sinks'[x].method = sinks[x].method
         /\ \E y \in 1..Len(sinks'), b \in Nat :
              /\ sinks'[y].method = m
              /\ \A k2, i, x, j : At(k2, i, x, j)' <=>
                   \/ At(k2, i, x, j)
                   \/ x = y /\ \E l \in 1..Len(PushBundle(k)) : j = b + l /\ PushBundle(k)[l] = Message(k2, i)
<1> DEFINE p == PushBundle(k)
           M == [call : 1..Len(calls), index : Nat]
           R == SinkRecord(Len(calls))
<1>1. p \in Seq(M)
  BY PushType
<1>5. \A r \in R : r.method \in Methods /\ r.topic \in Topics /\ r.msgs \in Seq(M)
  BY DEF SinkRecord
<1>6. sinks \in Seq(R) /\ \A x \in 1..Len(sinks) : sinks[x] \in R
  BY Typed
<1>2. /\ cache \in [Methods -> [Topics -> 0..Len(sinks)]] /\ Len(sinks) \in Nat
      /\ \A x \in 1..Len(sinks) : sinks[x].method \in Methods /\ sinks[x].topic \in Topics /\ sinks[x].msgs \in Seq(M)
  <2>1. cache \in [Methods -> [Topics -> 0..Len(sinks)]]
    BY DEF TypeOK
  <2> HIDE DEF M, R
  <2> QED  BY <1>5, <1>6, <2>1
<1>7. Len(p) \in Nat /\ \A x \in 1..Len(sinks) : Len(sinks[x].msgs) \in Nat
  <2> HIDE DEF M, R, p
  <2> QED  BY <1>1, <1>2
<1>3. CASE cache[m][t] # 0
  <2> DEFINE y == cache[m][t]
             b == Len(sinks[y].msgs)
             r == [sinks[y] EXCEPT !.msgs = @ \o p]
  <2>1. sinks' = [sinks EXCEPT ![y].msgs = @ \o p] /\ cache' = cache
    BY <1>3 DEF UseSink
  <2>0. y \in 1..Len(sinks)
    BY <1>2, <1>3
  <2>5. sinks[y].method = m /\ sinks[y].topic = t
    BY <1>3 DEF Caches
  <2> HIDE DEF y, p
  <2>2. sinks[y].msgs \o p \in Seq(M) /\ sinks[y] \in R
    <3> HIDE DEF M, R
    <3> QED  BY <1>1, <1>2, <1>6, <2>0, ConcatProperties
  <2>3. /\ r \in R /\ r.msgs = sinks[y].msgs \o p
        /\ r.method = sinks[y].method /\ r.topic = sinks[y].topic
    BY <2>2 DEF SinkRecord
  <2>4. sinks' = [sinks EXCEPT ![y] = r]
    BY <2>0, <2>1, <2>2, Typed DEF SinkRecord
  <2> HIDE DEF r, R
  <2>6. /\ sinks' \in Seq(R) /\ Len(sinks') = Len(sinks) /\ sinks'[y] = r
        /\ \A x \in 1..Len(sinks) : x # y => sinks'[x] = sinks[x]
    <3>1. r \in R
      BY <2>3
    <3> QED  BY <1>6, <2>0, <2>4, <3>1, Replaced
  <2>7. \A x \in 1..Len(sinks) : sinks'[x].method = sinks[x].method /\ sinks'[x].topic = sinks[x].topic
    BY <2>3, <2>6
  <2>8. cache' \in [Methods -> [Topics -> 0..Len(sinks')]]
    BY <1>2, <2>1, <2>6
  <2>9. Caches'
    <3>1. ASSUME NEW x \in 1..Len(sinks') PROVE cache'[sinks'[x].method][sinks'[x].topic] = x
      BY <2>1, <2>6, <2>7 DEF Caches
    <3>2. ASSUME NEW m2 \in Methods, NEW t2 \in Topics, cache'[m2][t2] # 0
          PROVE  sinks'[cache'[m2][t2]].method = m2 /\ sinks'[cache'[m2][t2]].topic = t2
      <4>1. cache[m2][t2] \in 1..Len(sinks)
        BY <1>2, <2>1, <3>2
      <4> QED  BY <2>1, <2>7, <3>2, <4>1 DEF Caches
    <3> QED  BY <3>1, <3>2 DEF Caches
  <2>10. b \in Nat /\ \A j, v : Holds(r.msgs, j, v) <=>
           Holds(sinks[y].msgs, j, v) \/ \E l \in 1..Len(p) : j = b + l /\ p[l] = v
    <3>1. sinks[y].msgs \in Seq(M) /\ b \in Nat
      BY <1>2, <1>7, <2>0
    <3>2. \A j, v : Holds(sinks[y].msgs \o p, j, v) <=>
           Holds(sinks[y].msgs, j, v) \/ \E l \in 1..Len(p) : j = b + l /\ p[l] = v
      <4> DEFINE q == sinks[y].msgs
      <4>1. q \in Seq(M) /\ p \in Seq(M)
        BY <1>1, <3>1
      <4> HIDE DEF M, q
      <4>2. \A j, v : Holds(q \o p, j, v) <=> Holds(q, j, v) \/ HoldsBehind(q, p, j, v)
        BY <4>1, PlacesOfConcat
      <4> QED  BY <4>2, Zenon DEF q, HoldsBehind
    <3> QED  BY <2>3, <3>1, <3>2
  <2> HIDE DEF b
  <2>11. ASSUME NEW k2, NEW i, NEW x, NEW j
         PROVE  At(k2, i, x, j)' <=>
                  \/ At(k2, i, x, j)
                  \/ x = y /\ \E l \in 1..Len(p) : j = b + l /\ p[l] = Message(k2, i)
    <3>1. At(k2, i, x, j)' <=> x \in 1..Len(sinks) /\ Holds(sinks'[x].msgs, j, Message(k2, i))
      BY <2>6 DEF At, Message, Holds
    <3>2. CASE x \in 1..Len(sinks) /\ x # y
      BY <2>6, <3>1, <3>2 DEF At
    <3>3. CASE x = y
      <4>1. At(k2, i, x, j)' <=> Holds(r.msgs, j, Message(k2, i))
        BY <2>0, <2>6, <3>1, <3>3
      <4>2. At(k2, i, x, j) <=> Holds(sinks[y].msgs, j, Message(k2, i))
        BY <2>0, <3>3 DEF At
      <4> QED  BY <2>10, <3>3, <4>1, <4>2
    <3>4. CASE x \notin 1..Len(sinks)
      BY <2>0, <3>1, <3>4 DEF At
    <3> QED  BY <3>2, <3>3, <3>4
  <2>14. y \in 1..Len(sinks') /\ sinks'[y].method = m
    BY <2>0, <2>5, <2>6, <2>7
  <2>15. \A x \in 1..Len(sinks) : x \in 1..Len(sinks') /\ sinks'[x].method = sinks[x].method
    BY <2>6, <2>7
  <2> QED  BY <2>6, <2>8, <2>9, <2>10, <2>11, <2>14, <2>15 DEF p, R
<1>4. CASE cache[m][t] = 0
  <2> DEFINE y == Len(sinks) + 1
             r == [method |-> m, topic |-> t, msgs |-> p]
  <2>1. sinks' = Append(sinks, r) /\ cache' = [cache EXCEPT ![m][t] = y]
    BY <1>4 DEF UseSink
  <2>2. r \in SinkRecord(Len(calls)) /\ r.method = m /\ r.topic = t /\ r.msgs = p
    <3> HIDE DEF p
    <3> QED  BY <1>1 DEF SinkRecord
  <2> HIDE DEF r, p
  <2>3. /\ sinks' \in Seq(SinkRecord(Len(calls))) /\ Len(sinks') = y /\ sinks'[y] = r
        /\ \A x \in 1..Len(sinks) : sinks'[x] = sinks[x]
    BY <2>1, <2>2, Typed
  <2>4. /\ y \in Nat /\ y \notin 1..Len(sinks) /\ y \in 1..y /\ 1..Len(sinks) \subseteq 1..y
        /\ 0..Len(sinks) \subseteq 0..y
        /\ \A x \in 1..y : x \in 1..Len(sinks) \/ x = y
    <3>1. Len(sinks) \in Nat
      BY <1>2
    <3> QED  BY <3>1
  <2> HIDE DEF y
  <2>5. /\ cache' \in [Methods -> [Topics -> 0..Len(sinks')]] /\ cache'[m][t] = y
        /\ \A m2 \in Methods, t2 \in Topics : <<m2, t2>> # <<m, t>> => cache'[m2][t2] = cache[m2][t2]
    BY <1>2, <2>1, <2>3, <2>4
  <2>6. Caches'
    <3>1. ASSUME NEW x \in 1..Len(sinks') PROVE cache'[sinks'[x].method][sinks'[x].topic] = x
      <4>1. CASE x = y
        BY <2>2, <2>3, <2>5, <4>1
      <4>2. CASE x \in 1..Len(sinks)
        <5>1. cache[sinks[x].method][sinks[x].topic] = x /\ x # 0
          BY <1>2, <4>2 DEF Caches
        <5>2. <<sinks[x].method, sinks[x].topic>> # <<m, t>>
          BY <1>4, <5>1
        <5> QED  BY <1>2, <2>3, <2>5, <4>2, <5>1, <5>2
      <4> QED  BY <2>3, <2>4, <4>1, <4>2
    <3>2. ASSUME NEW m2 \in Methods, NEW t2 \in Topics, cache'[m2][t2] # 0
          PROVE  sinks'[cache'[m2][t2]].method = m2 /\ sinks'[cache'[m2][t2]].topic = t2
      <4>1. CASE <<m2, t2>> = <<m, t>>
        BY <2>2, <2>3, <2>5, <4>1
      <4>2. CASE <<m2, t2>> # <<m, t>>
        <5>1. cache'[m2][t2] = cache[m2][t2]
          BY <2>5, <4>2
        <5>2. cache[m2][t2] \in 1..Len(sinks)
          BY <1>2, <3>2, <5>1
        <5> QED  BY <2>3, <3>2, <5>1, <5>2 DEF Caches
      <4> QED  BY <4>1, <4>2
    <3> QED  BY <3>1, <3>2 DEF Caches
  <2>7. ASSUME NEW k2, NEW i, NEW x, NEW j
        PROVE  At(k2, i, x, j)' <=>
                 \/ At(k2, i, x, j)
                 \/ x = y /\ \E l \in 1..Len(p) : j = 0 + l /\ p[l] = Message(k2, i)
    <3>1. CASE x \in 1..Len(sinks)
      <4>1. At(k2, i, x, j)' <=> Holds(sinks'[x].msgs, j, Message(k2, i))
        BY <2>3, <2>4, <3>1 DEF At, Message, Holds
      <4> QED  BY <2>3, <2>4, <3>1, <4>1 DEF At
    <3>2. CASE x = y
      <4>1. At(k2, i, x, j)' <=> j \in 1..Len(p) /\ p[j] = Message(k2, i)
        BY <2>2, <2>3, <2>4, <3>2 DEF At, Message, Holds
      <4>2. ~ At(k2, i, x, j)
        BY <2>4, <3>2 DEF At
      <4>3. (\E l \in 1..Len(p) : j = 0 + l /\ p[l] = Message(k2, i)) <=> j \in 1..Len(p) /\ p[j] = Message(k2, i)
        BY <1>7
      <4> QED  BY <3>2, <4>1, <4>2, <4>3
    <3>3. CASE x \notin 1..y
      BY <2>3, <2>4, <3>3 DEF At, Message
    <3> QED  BY <2>4, <3>1, <3>2, <3>3
  <2>8. y \in 1..Len(sinks') /\ sinks'[y].method = m /\ 0 \in Nat
    BY <2>2, <2>3, <2>4
  <2>9. \A x \in 1..Len(sinks) : x \in 1..Len(sinks') /\ sinks'[x].method = sinks[x].method
    BY <2>3, <2>4
  <2> QED  BY <2>3, <2>5, <2>6, <2>7, <2>8, <2>9 DEF p
<1> QED  BY <1>2, <1>3, <1>4

-----------------------------------------------------------------------------
(* The actions, one by one *)

\* An object that a step does not touch goes on with its life.
LEMMA SameLife ==
  ASSUME NEW x, Life(x), objects'[x] = objects[x], outstanding'[x] = outstanding[x],
         Events(x)' = Events(x)
  PROVE  Life(x)'
BY DEF Life, Events

\* Nor do the messages of a call move when its own objects and no sink change.
LEMMA SameMessages ==
  ASSUME NEW k, MessagesOf(k), OkFor(k)' <=> OkFor(k), Pushed(k)' = Pushed(k),
         calls'[k].method = calls[k].method,
         \A i, s, j : At(k, i, s, j)' <=> At(k, i, s, j),
         \A s \in 1..Len(sinks) : sinks'[s].method = sinks[s].method
  PROVE  MessagesOf(k)'
<1>1. \A i, s, j : At(k, i, s, j) => s \in 1..Len(sinks)
  BY DEF At
<1> QED  BY <1>1 DEF MessagesOf

\* Steps that touch neither the calls nor the objects nor the sinks.
LEMMA QuietKeeps ==
  ASSUME IInv, UNCHANGED <<calls, objects, outstanding, cq, cache, sinks>>, TypeOK', pc # "dead"
  PROVE  IInv'
<1>1. Lives' /\ OneStart'
  BY DEF IInv, Lives, OneStart, Life, Events
<1>2. Claims' /\ Caches' /\ Told'
  BY DEF IInv, Claims, Caches, Told
<1>3. Messages'
  <2>1. ASSUME NEW k \in 1..Len(calls) PROVE MessagesOf(k)'
    <3>1. (OkFor(k)' <=> OkFor(k)) /\ Pushed(k)' = Pushed(k) /\ \A i, s, j : At(k, i, s, j)' <=> At(k, i, s, j)
      BY DEF OkFor, Pushed, Pushes, At, Holds, Message
    <3> QED  BY <3>1, SameMessages DEF IInv, Messages
  <2> QED  BY <2>1 DEF Messages
<1> QED  BY <1>1, <1>2, <1>3 DEF IInv

LEMMA ClientCallsKeeps ==
  ASSUME IInv, NEW c \in Clients, NEW m \in Methods, NEW b \in Bundles, ClientCalls(c, m, b)
  PROVE  IInv'
<1>0. TypeOK /\ UNCHANGED <<objects, outstanding, cq, cache, sinks, pc>>
  BY DEF IInv, ClientCalls
<1> DEFINE n == Len(calls) + 1
<1>1. /\ TypeOK' /\ Len(calls') = n /\ calls'[n].state = "sent"
      /\ \A k \in 1..Len(calls) : calls'[k] = calls[k]
  <2>1. /\ TypeOK' /\ Len(calls') = n
        /\ \A k \in 1..Len(calls) : calls'[k] = calls[k]
        /\ calls'[n] = [client |-> c, method |-> m, bundle |-> b, state |-> "sent"]
    BY <1>0, ClientCallsType, Zenon
  <2> QED  BY <2>1
<1>2. Len(calls) \in Nat /\ \A k \in 1..n : k \in 1..Len(calls) \/ k = n
  BY <1>0, Typed
<1>3. /\ \A o \in 1..Len(objects) : objects[o].call # 0 => objects[o].call \in 1..Len(calls)
      /\ \A k, i, s, j : At(k, i, s, j) => k \in 1..Len(calls)
  <2>1. \A o \in 1..Len(objects) : objects[o].call \in 0..Len(calls)
    BY <1>0, Typed DEF ObjectRecord
  <2>2. ASSUME NEW k, NEW i, NEW s, NEW j, At(k, i, s, j) PROVE k \in 1..Len(calls)
    <3>1. sinks[s].msgs \in Seq([call : 1..Len(calls), index : Nat])
      BY <1>0, <2>2, Typed DEF SinkRecord, At
    <3>2. Message(k, i) \in [call : 1..Len(calls), index : Nat]
      <4> DEFINE M == [call : 1..Len(calls), index : Nat]
                 q == sinks[s].msgs
      <4>1. q \in Seq(M) /\ j \in 1..Len(q) /\ q[j] = Message(k, i)
        BY <2>2, <3>1 DEF At, Holds
      <4> HIDE DEF M, q
      <4>2. Message(k, i) \in M
        BY <4>1
      <4> QED  BY <4>2 DEF M
    <3> QED  BY <3>2 DEF Message
  <2> QED  BY <1>2, <2>1, <2>2
<1>4. Lives' /\ OneStart'
  BY <1>0 DEF IInv, Lives, OneStart, Life, Events
<1> HIDE DEF n
<1>5. Claims'
  BY <1>0, <1>1, <1>3 DEF IInv, Claims
<1>6. Caches'
  BY <1>0 DEF IInv, Caches
<1>7. Told'
  BY <1>0, <1>1, <1>2 DEF IInv, Told
<1>8. \A k, i, s, j : At(k, i, s, j)' <=> At(k, i, s, j)
  BY <1>0 DEF At, Holds, Message
<1>9. Messages'
  <2>1. ASSUME NEW k \in 1..Len(calls') PROVE MessagesOf(k)'
    <3>1. OkFor(k)' <=> OkFor(k)
      BY <1>0 DEF OkFor
    <3>2. CASE k \in 1..Len(calls)
      <4>1. calls'[k] = calls[k]
        BY <1>1, <3>2
      <4> QED  BY <1>0, <1>8, <3>1, <3>2, <4>1, SameMessages DEF IInv, Messages, Pushed, Pushes
    <3>3. CASE k \notin 1..Len(calls)
      <4>1. k # 0
        OBVIOUS
      <4>2. ~OkFor(k)
        BY <1>3, <3>3, <4>1 DEF OkFor
      <4> QED  BY <1>3, <1>8, <3>1, <3>3, <4>2 DEF MessagesOf
    <3> QED  BY <3>2, <3>3
  <2> QED  BY <2>1 DEF Messages
<1> QED  BY <1>1, <1>4, <1>5, <1>6, <1>7, <1>9 DEF IInv

LEMMA CallArrivesKeeps ==
  ASSUME IInv, NEW k \in 1..Len(calls), NEW o \in 1..Len(objects), CallArrives(k, o)
  PROVE  IInv'
<1> DEFINE e == [tag |-> o, ok |-> TRUE]
<1>0. /\ TypeOK /\ UNCHANGED <<cache, sinks, pc>> /\ pc # "dead"
      /\ calls[k].state = "sent" /\ calls[k].method = objects[o].method /\ "request" \in outstanding[o]
      /\ outstanding' = [outstanding EXCEPT ![o] = @ \ {"request"}] /\ cq' = cq \cup {e}
  BY DEF IInv, CallArrives
<1>1. /\ TypeOK'
      /\ Len(calls') = Len(calls) /\ calls'[k] = [calls[k] EXCEPT !.state = "arrived"]
      /\ \A x \in 1..Len(calls) : x # k => calls'[x] = calls[x]
      /\ Len(objects') = Len(objects) /\ objects'[o] = [objects[o] EXCEPT !.call = k]
      /\ \A x \in 1..Len(objects) : x # o => objects'[x] = objects[x]
  BY <1>0, CallArrivesType
<1>2. /\ objects'[o].call = k /\ objects'[o].method = objects[o].method
      /\ objects'[o].status = objects[o].status /\ objects'[o].reply = objects[o].reply
  BY <1>0, <1>1, Typed DEF ObjectRecord
<1>3. /\ calls'[k].state = "arrived" /\ calls'[k].method = calls[k].method
      /\ calls'[k].bundle = calls[k].bundle
  BY <1>0, <1>1, Typed DEF CallRecord
<1>4. /\ objects[o].status = "START" /\ objects[o].call = 0 /\ objects[o].reply = "none"
      /\ outstanding[o] = {"request"} /\ Events(o) = {}
  BY <1>0 DEF IInv, Lives, Life, Claims
<1>5. outstanding'[o] = {} /\ \A x \in 1..Len(objects) : x # o => outstanding'[x] = outstanding[x]
  BY <1>0, <1>4 DEF TypeOK
<1>6. e \in cq' /\ Events(o)' = {e} /\ \A x \in 1..Len(objects) : x # o => Events(x)' = Events(x)
  <2>1. e.tag = o
    OBVIOUS
  <2> HIDE DEF e
  <2> QED  BY <1>0, <1>4, <2>1 DEF Events
<1> HIDE DEF e
<1>7. Lives'
  <2>1. ASSUME NEW x \in 1..Len(objects) PROVE Life(x)'
    <3>1. CASE x = o
      BY <1>2, <1>4, <1>5, <1>6, <3>1 DEF Life
    <3>2. CASE x # o
      BY <1>0, <1>1, <1>5, <1>6, <3>2, SameLife DEF IInv, Lives
    <3> QED  BY <3>1, <3>2
  <2> QED  BY <1>1, <2>1 DEF Lives
<1>8. OneStart'
  <2>1. \A x \in 1..Len(objects) : objects'[x].method = objects[x].method /\ objects'[x].status = objects[x].status
    BY <1>1, <1>2
  <2> QED  BY <1>0, <1>1, <2>1 DEF IInv, OneStart
<1>9. \A x \in 1..Len(objects) : objects[x].call # k
  BY <1>0 DEF IInv, Claims
<1>10. Claims'
  <2>1. ASSUME NEW x \in 1..Len(objects)
        PROVE  /\ objects'[x].call # 0 => /\ calls'[objects'[x].call].method = objects'[x].method
                                          /\ calls'[objects'[x].call].state # "sent"
               /\ objects'[x].reply = "none" <=> objects'[x].status = "START"
               /\ objects'[x].status # "START" => objects'[x].call # 0
    <3>1. CASE x = o
      BY <1>0, <1>2, <1>3, <1>4, <3>1
    <3>2. CASE x # o
      <4>1. objects'[x] = objects[x] /\ (objects[x].call # 0 => objects[x].call \in 1..Len(calls))
        BY <1>0, <1>1, <3>2, Typed DEF ObjectRecord
      <4>2. objects[x].call # 0 => calls'[objects[x].call] = calls[objects[x].call]
        BY <1>1, <1>9, <4>1
      <4> QED  BY <4>1, <4>2 DEF IInv, Claims
    <3> QED  BY <3>1, <3>2
  <2>2. ASSUME NEW x \in 1..Len(objects), NEW y \in 1..Len(objects), objects'[x].call = objects'[y].call,
               objects'[x].call # 0
        PROVE  x = y
    <3>1. CASE x # o /\ y # o
      BY <1>1, <2>2, <3>1 DEF IInv, Claims
    <3>2. ASSUME NEW z \in 1..Len(objects), z # o PROVE objects'[z].call # objects'[o].call
      <4>1. objects'[z] = objects[z] /\ objects[z].call # k
        BY <1>1, <1>9, <3>2
      <4> QED  BY <1>2, <4>1
    <3> QED  BY <2>2, <3>1, <3>2
  <2> QED  BY <1>1, <2>1, <2>2 DEF Claims
<1>11. Caches'
  BY <1>0 DEF IInv, Caches
<1>12. \A x \in 1..Len(calls) : calls'[x].method = calls[x].method /\ calls'[x].bundle = calls[x].bundle
  BY <1>1, <1>3
<1>13. \A x \in 1..Len(calls) : OkFor(x)' <=> OkFor(x)
  <2>1. \A y \in 1..Len(objects), x \in 1..Len(calls) :
          (objects'[y].call = x /\ objects'[y].reply = "ok") <=> (objects[y].call = x /\ objects[y].reply = "ok")
    BY <1>1, <1>2, <1>4
  <2> QED  BY <1>1, <2>1 DEF OkFor
<1>14. Messages'
  <2>1. ASSUME NEW x \in 1..Len(calls) PROVE MessagesOf(x)'
    <3>1. Pushed(x)' = Pushed(x) /\ \A i, s, j : At(x, i, s, j)' <=> At(x, i, s, j)
      BY <1>0, <1>12 DEF Pushed, Pushes, At, Holds, Message
    <3> QED  BY <1>0, <1>12, <1>13, <3>1, SameMessages DEF IInv, Messages
  <2> QED  BY <1>1, <2>1 DEF Messages
<1>15. Told'
  <2>1. ASSUME NEW x \in 1..Len(calls), calls'[x].state \in {"ok", "unauthenticated"}
        PROVE  \E y \in 1..Len(objects) : objects'[y].call = x /\ objects'[y].reply = calls'[x].state
    <3>1. x # k /\ calls'[x] = calls[x]
      BY <1>1, <1>3, <2>1
    <3>2. PICK y \in 1..Len(objects) : objects[y].call = x /\ objects[y].reply = calls[x].state
      BY <2>1, <3>1 DEF IInv, Told
    <3>3. y # o
      BY <1>4, <3>2
    <3> QED  BY <1>1, <3>1, <3>2, <3>3
  <2> QED  BY <1>1, <2>1 DEF Told
<1> QED  BY <1>1, <1>7, <1>8, <1>10, <1>11, <1>14, <1>15 DEF IInv

LEMMA ReplySentKeeps ==
  ASSUME IInv, NEW o \in 1..Len(objects), NEW ok \in BOOLEAN, ReplySent(o, ok)
  PROVE  IInv'
<1> DEFINE e == [tag |-> o, ok |-> ok]
           k == objects[o].call
           a == IF ok THEN objects[o].reply ELSE "lost"
<1>0. /\ TypeOK /\ UNCHANGED <<objects, cache, sinks, pc>> /\ pc # "dead" /\ "finish" \in outstanding[o]
      /\ outstanding' = [outstanding EXCEPT ![o] = @ \ {"finish"}] /\ cq' = cq \cup {e}
  BY DEF IInv, ReplySent
<1>1. /\ objects[o].status = "FINISH" /\ k # 0 /\ outstanding[o] = {"finish"} /\ Events(o) = {}
  BY <1>0 DEF IInv, Lives, Life
<1>2. /\ TypeOK' /\ Len(calls') = Len(calls)
      /\ calls'[k] = [calls[k] EXCEPT !.state = a]
      /\ \A x \in 1..Len(calls) : x # k => calls'[x] = calls[x]
  BY <1>0, <1>1, ReplySentType DEF IInv
<1>3. k \in 1..Len(calls) /\ a \in {"ok", "unauthenticated", "lost"} /\ (a # "lost" => objects[o].reply = a)
  BY <1>0, <1>1, Typed DEF IInv, Claims, ObjectRecord
<1>16. objects[o].call = k
  OBVIOUS
<1> HIDE DEF k, a
<1>4. /\ calls'[k].state = a /\ calls'[k].method = calls[k].method
      /\ calls'[k].bundle = calls[k].bundle
  BY <1>0, <1>2, <1>3, Typed DEF CallRecord
<1>5. outstanding'[o] = {} /\ \A x \in 1..Len(objects) : x # o => outstanding'[x] = outstanding[x]
  BY <1>0, <1>1 DEF TypeOK
<1>6. e \in cq' /\ Events(o)' = {e} /\ \A x \in 1..Len(objects) : x # o => Events(x)' = Events(x)
  <2>1. e.tag = o
    OBVIOUS
  <2> HIDE DEF e
  <2> QED  BY <1>0, <1>1, <2>1 DEF Events
<1> HIDE DEF e
<1>7. Lives'
  <2>1. ASSUME NEW x \in 1..Len(objects) PROVE Life(x)'
    <3>1. CASE x = o
      BY <1>0, <1>1, <1>5, <1>6, <1>16, <3>1 DEF Life
    <3>2. CASE x # o
      BY <1>0, <1>5, <1>6, <3>2, SameLife DEF IInv, Lives
    <3> QED  BY <3>1, <3>2
  <2> QED  BY <1>0, <2>1 DEF Lives
<1>8. OneStart'
  BY <1>0 DEF IInv, OneStart
<1>12. \A x \in 1..Len(calls) : calls'[x].method = calls[x].method /\ calls'[x].bundle = calls[x].bundle
  BY <1>2, <1>4
<1>10. Claims'
  <2>1. ASSUME NEW x \in 1..Len(objects), objects[x].call # 0
        PROVE  /\ calls'[objects[x].call].method = objects[x].method
               /\ calls'[objects[x].call].state # "sent"
    <3>1. objects[x].call \in 1..Len(calls)
      BY <1>0, <2>1, Typed DEF ObjectRecord
    <3> QED  BY <1>2, <1>3, <1>4, <1>12, <2>1, <3>1 DEF IInv, Claims
  <2> QED  BY <1>0, <2>1 DEF IInv, Claims
<1>11. Caches'
  BY <1>0 DEF IInv, Caches
<1>14. Messages'
  <2>1. ASSUME NEW x \in 1..Len(calls) PROVE MessagesOf(x)'
    <3>1. /\ Pushed(x)' = Pushed(x) /\ (OkFor(x)' <=> OkFor(x))
          /\ \A i, s, j : At(x, i, s, j)' <=> At(x, i, s, j)
      BY <1>0, <1>12 DEF Pushed, Pushes, OkFor, At, Holds, Message
    <3> QED  BY <1>0, <1>12, <3>1, SameMessages DEF IInv, Messages
  <2> QED  BY <1>2, <2>1 DEF Messages
<1>15. Told'
  <2>1. ASSUME NEW x \in 1..Len(calls), calls'[x].state \in {"ok", "unauthenticated"}
        PROVE  \E y \in 1..Len(objects) : objects[y].call = x /\ objects[y].reply = calls'[x].state
    <3>1. CASE x = k
      BY <1>3, <1>4, <1>16, <2>1, <3>1
    <3>2. CASE x # k
      BY <1>2, <2>1, <3>2 DEF IInv, Told
    <3> QED  BY <3>1, <3>2
  <2> QED  BY <1>0, <1>2, <2>1 DEF Told
<1> QED  BY <1>2, <1>7, <1>8, <1>10, <1>11, <1>14, <1>15 DEF IInv

\* The object of a call's event, before it is served.
LEMMA Served ==
  ASSUME IInv, NEW e \in cq, ProcessStart(e)
  PROVE  LET o == e.tag
             k == objects[o].call IN
         /\ o \in 1..Len(objects) /\ k \in 1..Len(calls) /\ k # 0
         /\ objects[o].status = "START" /\ objects[o].reply = "none"
         /\ objects[o].method = calls[k].method /\ objects[o].method \in Methods
         /\ outstanding[o] = {} /\ Events(o) = {e} /\ ~OkFor(k)
<1> DEFINE o == e.tag
           k == objects[o].call
<1>1. o \in 1..Len(objects)
  BY DEF IInv, TypeOK
<1>2. pc # "dead" /\ objects[o].status = "START" /\ e \in Events(o)
  BY DEF ProcessStart, Events
<1> HIDE DEF o
<1>3. k # 0 /\ outstanding[o] = {} /\ \E x \in cq : Events(o) = {x}
  BY <1>1, <1>2 DEF IInv, Lives, Life
<1>4. objects[o].reply = "none" /\ objects[o].method = calls[k].method
  BY <1>1, <1>2, <1>3 DEF IInv, Claims
<1>5. k \in 1..Len(calls) /\ objects[o].method \in Methods
  BY <1>1, <1>3, Typed DEF IInv, ObjectRecord
<1>6. ~OkFor(k)
  BY <1>1, <1>3, <1>4 DEF OkFor, IInv, Claims
<1> QED  BY <1>1, <1>2, <1>3, <1>4, <1>5, <1>6 DEF o

\* Reply, and a successor: the life of both, and one of them in START.
LEMMA ReplyKeeps ==
  ASSUME IInv, NEW e \in cq, ProcessStart(e), NEW answer \in {"ok", "unauthenticated"},
         Reply(e.tag, answer)
  PROVE  /\ objects' \in Seq(ObjectRecord(Len(calls')))
         /\ outstanding' \in [1..Len(objects') -> SUBSET {"request", "finish"}]
         /\ cq' \subseteq [tag : 1..Len(objects'), ok : BOOLEAN]
         /\ pc' # "dead" => Lives' /\ OneStart'
         /\ Claims' /\ Told'
         /\ \A x \in 1..Len(calls) :
              OkFor(x)' <=> OkFor(x) \/ (x = objects[e.tag].call /\ answer = "ok")
<1> DEFINE o == e.tag
           k == objects[o].call
<1>0. TypeOK /\ UNCHANGED calls /\ cq' = cq \ {e} /\ cq' \subseteq cq
  BY DEF IInv, ProcessStart
<1>1. /\ o \in 1..Len(objects) /\ k \in 1..Len(calls) /\ k # 0 /\ objects[o].call = k
      /\ objects[o].status = "START" /\ objects[o].reply = "none"
      /\ objects[o].method = calls[k].method /\ objects[o].method \in Methods
      /\ outstanding[o] = {} /\ Events(o) = {e} /\ ~OkFor(k)
  BY Served
<1>17. e.tag = o /\ Reply(o, answer) /\ pc # "dead"
  BY DEF ProcessStart
<1> HIDE DEF o, k
<1>18. PICK n \in Nat : n = Len(objects) + 1
  BY <1>0, Typed
<1>2. /\ objects' \in Seq(ObjectRecord(Len(calls'))) /\ Len(objects') = n
      /\ outstanding' \in [1..Len(objects') -> SUBSET {"request", "finish"}]
      /\ cq' \subseteq [tag : 1..Len(objects'), ok : BOOLEAN]
      /\ \A x \in 1..Len(objects) : x # o => objects'[x] = objects[x] /\ outstanding'[x] = outstanding[x]
      /\ objects'[o] = [objects[o] EXCEPT !.status = "FINISH", !.reply = answer]
      /\ outstanding'[o] = outstanding[o] \cup {"finish"}
      /\ objects'[n] = Waiting(objects[o].method)
      /\ outstanding'[n] = {"request"}
  BY <1>0, <1>1, <1>17, <1>18, ReplyType
<1>3. /\ objects'[o].status = "FINISH" /\ objects'[o].reply = answer /\ objects'[o].call = k
      /\ objects'[o].method = objects[o].method /\ outstanding'[o] = {"finish"}
  BY <1>0, <1>1, <1>2, Typed DEF ObjectRecord
<1>4. /\ objects'[n].status = "START" /\ objects'[n].reply = "none" /\ objects'[n].call = 0
      /\ objects'[n].method = objects[o].method
  BY <1>2 DEF Waiting
<1>5. /\ n \notin 1..Len(objects) /\ n \in 1..n
      /\ \A x \in 1..n : x \in 1..Len(objects) \/ x = n
  <2>1. Len(objects) \in Nat
    BY <1>0, Typed
  <2> QED  BY <1>18, <2>1
<1>19. o \in 1..n /\ \A x \in 1..Len(objects) : x \in 1..n
  BY <1>0, <1>1, <1>18, Typed
<1>6. /\ Events(o)' = {} /\ Events(n)' = {}
      /\ \A x \in 1..Len(objects) : x # o => Events(x)' = Events(x)
  <2>1. \A c \in cq : c.tag \in 1..Len(objects)
    BY <1>0 DEF TypeOK
  <2> QED  BY <1>0, <1>1, <1>5, <1>17, <2>1 DEF Events
<1>7. ASSUME pc' # "dead" PROVE Lives'
  <2>1. ASSUME NEW x \in 1..n PROVE Life(x)'
    <3>1. CASE x = o
      BY <1>1, <1>3, <1>6, <3>1 DEF Life
    <3>2. CASE x = n
      BY <1>2, <1>4, <1>6, <3>2 DEF Life
    <3>3. CASE x # o /\ x \in 1..Len(objects)
      BY <1>2, <1>6, <1>17, <3>3, SameLife DEF IInv, Lives
    <3> QED  BY <1>5, <3>1, <3>2, <3>3
  <2> QED  BY <1>2, <2>1 DEF Lives
<1>8. ASSUME pc' # "dead" PROVE OneStart'
  <2>1. ASSUME NEW m \in Methods
        PROVE  \E y \in 1..n :
                 { x \in 1..n : objects'[x].method = m /\ objects'[x].status = "START" } = {y}
    <3>1. PICK y \in 1..Len(objects) :
            { x \in 1..Len(objects) : objects[x].method = m /\ objects[x].status = "START" } = {y}
      BY <1>17 DEF IInv, OneStart
    <3>2. CASE m = objects[o].method
      <4>1. y = o
        BY <1>1, <3>1, <3>2
      <4>2. \A x \in 1..n : (objects'[x].method = m /\ objects'[x].status = "START") <=> x = n
        <5>1. ASSUME NEW x \in 1..Len(objects) PROVE ~(objects'[x].method = m /\ objects'[x].status = "START")
          <6>1. CASE x = o
            BY <1>3, <6>1
          <6>2. CASE x # o
            BY <1>2, <3>1, <4>1, <6>2
          <6> QED  BY <6>1, <6>2
        <5> QED  BY <1>4, <1>5, <3>2, <5>1
      <4> QED  BY <1>5, <4>2
    <3>3. CASE m # objects[o].method
      <4>3. \A x \in 1..Len(objects) : (objects[x].method = m /\ objects[x].status = "START") <=> x = y
        BY <3>1
      <4>4. y # o
        BY <3>3, <4>3
      <4>1. \A x \in 1..n : (objects'[x].method = m /\ objects'[x].status = "START") <=> x = y
        <5>1. ASSUME NEW x \in 1..Len(objects)
              PROVE  (objects'[x].method = m /\ objects'[x].status = "START") <=> x = y
          <6>1. CASE x = o
            BY <1>3, <4>4, <6>1
          <6>2. CASE x # o
            BY <1>2, <4>3, <6>2
          <6> QED  BY <6>1, <6>2
        <5> QED  BY <1>4, <1>5, <3>3, <5>1
      <4>2. y \in 1..n
        BY <1>0, <3>1, <1>18, Typed
      <4> QED  BY <4>1, <4>2
    <3> QED  BY <3>2, <3>3
  <2> QED  BY <1>2, <2>1 DEF OneStart
<1>9. Claims'
  <2>1. ASSUME NEW x \in 1..n
        PROVE  /\ objects'[x].call # 0 => /\ calls[objects'[x].call].method = objects'[x].method
                                          /\ calls[objects'[x].call].state # "sent"
               /\ objects'[x].reply = "none" <=> objects'[x].status = "START"
               /\ objects'[x].status # "START" => objects'[x].call # 0
    <3>1. CASE x = o
      BY <1>1, <1>3, <3>1 DEF IInv, Claims
    <3>2. CASE x = n
      BY <1>4, <3>2
    <3>3. CASE x # o /\ x \in 1..Len(objects)
      BY <1>2, <3>3 DEF IInv, Claims
    <3> QED  BY <1>5, <3>1, <3>2, <3>3
  <2>2. \A x \in 1..Len(objects) : objects'[x].call = objects[x].call
    BY <1>1, <1>2, <1>3
  <2>3. ASSUME NEW x \in 1..n, NEW y \in 1..n, objects'[x].call = objects'[y].call, objects'[x].call # 0
        PROVE  x = y
    <3>1. x \in 1..Len(objects) /\ y \in 1..Len(objects)
      BY <1>4, <1>5, <2>3
    <3> QED  BY <2>2, <2>3, <3>1 DEF IInv, Claims
  <2> QED  BY <1>0, <1>2, <2>1, <2>3 DEF Claims
<1>10. Told'
  <2>1. ASSUME NEW x \in 1..Len(calls), calls[x].state \in {"ok", "unauthenticated"}
        PROVE  \E y \in 1..n : objects'[y].call = x /\ objects'[y].reply = calls[x].state
    <3>1. PICK y \in 1..Len(objects) : objects[y].call = x /\ objects[y].reply = calls[x].state
      BY <2>1 DEF IInv, Told
    <3>2. y # o /\ y \in 1..n
      BY <1>0, <1>1, <2>1, <3>1, <1>18, Typed
    <3> QED  BY <1>2, <3>1, <3>2
  <2> QED  BY <1>0, <1>2, <2>1 DEF Told
<1>11. ASSUME NEW x \in 1..Len(calls)
       PROVE  OkFor(x)' <=> OkFor(x) \/ (x = k /\ answer = "ok")
  <2>1. ASSUME OkFor(x)' PROVE OkFor(x) \/ (x = k /\ answer = "ok")
    <3>1. PICK y \in 1..n : objects'[y].call = x /\ objects'[y].reply = "ok"
      BY <1>2, <2>1 DEF OkFor
    <3>2. CASE y = o
      BY <1>3, <3>1, <3>2
    <3>3. CASE y # o
      BY <1>2, <1>4, <1>5, <3>1, <3>3 DEF OkFor
    <3> QED  BY <3>2, <3>3
  <2>2. ASSUME OkFor(x) PROVE OkFor(x)'
    <3>1. PICK y \in 1..Len(objects) : objects[y].call = x /\ objects[y].reply = "ok"
      BY <2>2 DEF OkFor
    <3>2. y # o /\ y \in 1..n
      BY <1>0, <1>1, <3>1, <1>18, Typed
    <3> QED  BY <1>2, <3>1, <3>2 DEF OkFor
  <2>3. ASSUME x = k, answer = "ok" PROVE OkFor(x)'
    <3>1. o \in 1..n
      BY <1>0, <1>1, <1>18, Typed
    <3> QED  BY <1>2, <1>3, <2>3, <3>1 DEF OkFor
  <2> QED  BY <2>1, <2>2, <2>3
<1> QED  BY <1>2, <1>7, <1>8, <1>9, <1>10, <1>11 DEF k, o

LEMMA ProcessStartKeeps ==
  ASSUME IInv, NEW e \in cq, ProcessStart(e)
  PROVE  IInv'
<1> DEFINE o == e.tag
<1>0. PICK k \in 1..Len(calls) : k = objects[o].call
  BY Served
<1>1. PICK t : t = grant[<<calls[k].client, objects[o].method>>]
  OBVIOUS
<1>2. /\ TypeOK /\ UNCHANGED <<grant, calls, run>> /\ cq' = cq \ {e} /\ pc = "next"
  BY DEF IInv, ProcessStart
<1>3. o \in 1..Len(objects) /\ objects[o].method = calls[k].method /\ objects[o].method \in Methods /\ ~OkFor(k)
  BY <1>0, Served
<1>4. \A x \in 1..Len(calls) : Pushed(x)' = Pushed(x)
  BY <1>2 DEF Pushed, Pushes
<1>5. CASE t = Denied /\ Reply(o, "unauthenticated") /\ pc' = "top" /\ UNCHANGED <<cache, sinks>>
  <2>1. /\ objects' \in Seq(ObjectRecord(Len(calls'))) /\ Lives' /\ OneStart' /\ Claims' /\ Told'
        /\ outstanding' \in [1..Len(objects') -> SUBSET {"request", "finish"}]
        /\ cq' \subseteq [tag : 1..Len(objects'), ok : BOOLEAN]
        /\ \A x \in 1..Len(calls) : OkFor(x)' <=> OkFor(x)
    BY <1>5, ReplyKeeps
  <2>2. TypeOK'
    BY <1>2, <1>5, <2>1 DEF TypeOK, ObjectRecord
  <2>3. Caches'
    BY <1>5 DEF IInv, Caches
  <2>4. Messages'
    <3>1. ASSUME NEW x \in 1..Len(calls) PROVE MessagesOf(x)'
      <4>1. \A i, s, j : At(x, i, s, j)' <=> At(x, i, s, j)
        BY <1>5 DEF At, Holds, Message
      <4> QED  BY <1>2, <1>4, <1>5, <2>1, <4>1, SameMessages DEF IInv, Messages
    <3> QED  BY <1>2, <3>1 DEF Messages
  <2> QED  BY <2>1, <2>2, <2>3, <2>4 DEF IInv
<1>6. CASE t # Denied /\ UseSink(k, objects[o].method, t) /\ Reply(o, "ok") /\ pc' = "top"
  <2>1. /\ objects' \in Seq(ObjectRecord(Len(calls'))) /\ Lives' /\ OneStart' /\ Claims' /\ Told'
        /\ outstanding' \in [1..Len(objects') -> SUBSET {"request", "finish"}]
        /\ cq' \subseteq [tag : 1..Len(objects'), ok : BOOLEAN]
        /\ \A x \in 1..Len(calls) : OkFor(x)' <=> OkFor(x) \/ x = k
    BY <1>0, <1>6, ReplyKeeps
  <2>2. t \in Topics
    <3>1. calls[k].client \in Clients
      BY <1>2, Typed DEF CallRecord
    <3>2. t \in Topics \cup {Denied}
      BY <1>1, <1>2, <1>3, <3>1 DEF TypeOK
    <3> QED  BY <1>6, <3>2
  <2> DEFINE p == PushBundle(k)
  <2>3. /\ sinks' \in Seq(SinkRecord(Len(calls))) /\ cache' \in [Methods -> [Topics -> 0..Len(sinks')]]
        /\ Caches' /\ \A x \in 1..Len(sinks) : sinks'[x].method = sinks[x].method
        /\ \E y \in 1..Len(sinks'), b \in Nat :
              /\ sinks'[y].method = objects[o].method
              /\ \A k2, i, x, j : At(k2, i, x, j)' <=>
                   \/ At(k2, i, x, j)
                   \/ x = y /\ \E l \in 1..Len(p) : j = b + l /\ p[l] = Message(k2, i)
    BY <1>2, <1>3, <1>6, <2>2, UseSinkEffect DEF IInv
  <2>4. PICK y \in 1..Len(sinks'), b \in Nat :
              /\ sinks'[y].method = objects[o].method
              /\ \A k2, i, x, j : At(k2, i, x, j)' <=>
                   \/ At(k2, i, x, j)
                   \/ x = y /\ \E l \in 1..Len(p) : j = b + l /\ p[l] = Message(k2, i)
    BY <2>3
  <2>5. TypeOK'
    BY <1>2, <1>6, <2>1, <2>3 DEF TypeOK, ObjectRecord, SinkRecord
  <2>6. /\ \A l \in 1..Len(p) : p[l].index \in Pushed(k) /\ p[l] = Message(k, p[l].index)
        /\ \A i \in Pushed(k) : \E l \in 1..Len(p) : p[l] = Message(k, i)
        /\ \A l, l2 \in 1..Len(p) : p[l] = p[l2] => l = l2
        /\ Len(p) \in Nat
    <3>1. calls[k].bundle \in Seq({"value", "novalue"}) /\ p \in Seq([call : 1..Len(calls), index : Nat])
      BY <1>2, PushType
    <3>2. Len(p) \in Nat
      <4> DEFINE M == [call : 1..Len(calls), index : Nat]
      <4> HIDE DEF M, p
      <4>1. p \in Seq(M)
        BY <3>1 DEF M
      <4> QED  BY <4>1
    <3>3. k \in Nat
      OBVIOUS
    <3>4. /\ \A l \in 1..Len(p) : p[l].index \in Pushed(k) /\ p[l] = Message(k, p[l].index)
          /\ \A i \in Pushed(k) : \E l \in 1..Len(p) : p[l] = Message(k, i)
          /\ \A l, l2 \in 1..Len(p) : p[l] = p[l2] => l = l2
      BY <3>1, <3>3, PushBundleFacts, Zenon DEF Pushed
    <3> QED  BY <3>2, <3>4
  <2> HIDE DEF p
  <2>7. \A a, b2, c, d : Message(a, b2) = Message(c, d) => a = c /\ b2 = d
    BY DEF Message
  <2>8. Messages'
    <3>1. ASSUME NEW x \in 1..Len(calls), x # k PROVE MessagesOf(x)'
      <4>1. \A i, s, j : At(x, i, s, j)' <=> At(x, i, s, j)
        BY <2>4, <2>6, <2>7, <3>1
      <4> QED  BY <1>2, <1>4, <2>1, <2>3, <3>1, <4>1, SameMessages DEF IInv, Messages
    <3>2. ASSUME NEW i \in Nat
          PROVE  /\ \A s, j \in Nat : At(k, i, s, j)' =>
                      /\ i \in Pushed(k) /\ sinks'[s].method = calls[k].method
                      /\ \A s2, j2 \in Nat : At(k, i, s2, j2)' => s2 = s /\ j2 = j
                 /\ i \in Pushed(k) => \E s, j \in Nat : At(k, i, s, j)'
      <4>1. \A s, j : ~At(k, i, s, j) \/ s \notin Nat \/ j \notin Nat
        BY <1>3, <3>2 DEF IInv, Messages, MessagesOf
      <4>2. \A s, j : At(k, i, s, j) => s \in Nat /\ j \in Nat
        <5>1. ASSUME NEW s, NEW j, At(k, i, s, j) PROVE s \in Nat /\ j \in Nat
          BY <5>1 DEF At, Holds
        <5> QED  BY <5>1
      <4>3. \A s, j : At(k, i, s, j)' <=> s = y /\ \E l \in 1..Len(p) : j = b + l /\ p[l] = Message(k, i)
        BY <2>4, <4>1, <4>2
      <4>4. ASSUME NEW s \in Nat, NEW j \in Nat, At(k, i, s, j)'
            PROVE  /\ i \in Pushed(k) /\ sinks'[s].method = calls[k].method
                   /\ \A s2, j2 \in Nat : At(k, i, s2, j2)' => s2 = s /\ j2 = j
        <5>1. PICK l \in 1..Len(p) : s = y /\ j = b + l /\ p[l] = Message(k, i)
          BY <4>3, <4>4
        <5>2. i \in Pushed(k)
          BY <2>6, <2>7, <5>1
        <5>3. ASSUME NEW s2 \in Nat, NEW j2 \in Nat, At(k, i, s2, j2)' PROVE s2 = s /\ j2 = j
          <6>1. PICK l2 \in 1..Len(p) : s2 = y /\ j2 = b + l2 /\ p[l2] = Message(k, i)
            BY <4>3, <5>3
          <6>2. l2 = l
            BY <2>6, <5>1, <6>1
          <6> QED  BY <5>1, <6>1, <6>2
        <5> QED  BY <1>3, <2>4, <5>1, <5>2, <5>3
      <4>5. ASSUME i \in Pushed(k) PROVE \E s, j \in Nat : At(k, i, s, j)'
        <5>1. PICK l \in 1..Len(p) : p[l] = Message(k, i)
          BY <2>6, <4>5
        <5>2. At(k, i, y, b + l)' /\ y \in Nat /\ b + l \in Nat
          BY <2>4, <2>6, <5>1
        <5> QED  BY <5>2
      <4> QED  BY <4>4, <4>5
    <3>3. OkFor(k)'
      BY <2>1
    <3>4. MessagesOf(k)'
      BY <1>2, <1>4, <3>2, <3>3 DEF MessagesOf
    <3> QED  BY <1>2, <3>1, <3>4 DEF Messages
  <2> QED  BY <2>1, <2>3, <2>5, <2>8 DEF IInv
<1>7. CASE pc' = "dead" /\ UNCHANGED <<objects, outstanding, cache, sinks>>
  <2>1. TypeOK'
    BY <1>2, <1>7 DEF TypeOK
  <2>2. Lives' /\ OneStart'
    BY <1>7 DEF Lives, OneStart
  <2>3. Claims' /\ Caches' /\ Told'
    BY <1>2, <1>7 DEF IInv, Claims, Caches, Told
  <2>4. Messages'
    <3>1. ASSUME NEW x \in 1..Len(calls) PROVE MessagesOf(x)'
      <4>1. /\ \A i, s, j : At(x, i, s, j)' <=> At(x, i, s, j)
            /\ OkFor(x)' <=> OkFor(x)
        BY <1>7 DEF At, Holds, Message, OkFor
      <4> QED  BY <1>2, <1>4, <1>7, <4>1, SameMessages DEF IInv, Messages
    <3> QED  BY <1>2, <3>1 DEF Messages
  <2> QED  BY <2>1, <2>2, <2>3, <2>4 DEF IInv
<1> QED  BY <1>0, <1>1, <1>5, <1>6, <1>7 DEF ProcessStart

LEMMA ProcessFinishKeeps ==
  ASSUME IInv, NEW e \in cq, ProcessFinish(e)
  PROVE  IInv'
<1> DEFINE o == e.tag
<1>0. /\ TypeOK /\ pc = "next" /\ pc' = "top" /\ objects[o].status = "FINISH" /\ cq' = cq \ {e}
      /\ UNCHANGED <<calls, outstanding, cache, sinks>> /\ e \in Events(o)
  BY DEF IInv, ProcessFinish, Events
<1>1. /\ TypeOK' /\ o \in 1..Len(objects) /\ Len(objects') = Len(objects)
      /\ objects'[o] = [objects[o] EXCEPT !.status = "deleted"]
      /\ \A x \in 1..Len(objects) : x # o => objects'[x] = objects[x]
  BY <1>0, ProcessFinishType
<1>17. e.tag = o
  OBVIOUS
<1> HIDE DEF o
<1>2. /\ objects'[o].status = "deleted" /\ objects'[o].reply = objects[o].reply
      /\ objects'[o].call = objects[o].call /\ objects'[o].method = objects[o].method
  BY <1>0, <1>1, Typed DEF ObjectRecord
<1>3. objects[o].call # 0 /\ outstanding[o] = {} /\ Events(o) = {e} /\ objects[o].reply # "none"
  BY <1>0, <1>1 DEF IInv, Lives, Life, Claims
<1>4. Events(o)' = {} /\ \A x \in 1..Len(objects) : x # o => Events(x)' = Events(x)
  BY <1>0, <1>3, <1>17 DEF Events
<1>5. \A x \in 1..Len(objects) : /\ objects'[x].reply = objects[x].reply /\ objects'[x].call = objects[x].call
                                 /\ objects'[x].method = objects[x].method
                                 /\ (objects'[x].status = "START" <=> objects[x].status = "START")
  BY <1>0, <1>1, <1>2
<1>6. Lives'
  <2>1. ASSUME NEW x \in 1..Len(objects) PROVE Life(x)'
    <3>1. CASE x = o
      BY <1>0, <1>2, <1>3, <1>4, <3>1 DEF Life
    <3>2. CASE x # o
      BY <1>0, <1>1, <1>4, <3>2, SameLife DEF IInv, Lives
    <3> QED  BY <3>1, <3>2
  <2> QED  BY <1>1, <2>1 DEF Lives
<1>7. OneStart'
  BY <1>0, <1>1, <1>5 DEF IInv, OneStart
<1>8. Claims' /\ Told'
  BY <1>0, <1>1, <1>5 DEF IInv, Claims, Told
<1>9. Caches'
  BY <1>0 DEF IInv, Caches
<1>10. Messages'
  <2>1. ASSUME NEW x \in 1..Len(calls) PROVE MessagesOf(x)'
    <3>1. /\ \A i, s, j : At(x, i, s, j)' <=> At(x, i, s, j)
          /\ Pushed(x)' = Pushed(x)
      BY <1>0 DEF At, Holds, Message, Pushed, Pushes
    <3>2. OkFor(x)' <=> OkFor(x)
      BY <1>1, <1>5 DEF OkFor
    <3> QED  BY <1>0, <3>1, <3>2, SameMessages DEF IInv, Messages
  <2> QED  BY <1>0, <2>1 DEF Messages
<1> QED  BY <1>1, <1>6, <1>7, <1>8, <1>9, <1>10 DEF IInv

LEMMA BreaksKeeps ==
  ASSUME IInv, Breaks
  PROVE  IInv'
<1>0. TypeOK /\ UNCHANGED <<objects, outstanding, cq, cache, sinks>> /\ (pc' # "dead" => pc # "dead")
  BY DEF IInv, Breaks
<1>1. /\ TypeOK' /\ Len(calls') = Len(calls)
      /\ \A k \in 1..Len(calls) :
           /\ calls'[k].method = calls[k].method /\ calls'[k].bundle = calls[k].bundle
           /\ calls'[k].state = calls[k].state \/ calls'[k].state = "lost"
  BY <1>0, BreaksType
<1>2. Lives' /\ OneStart' /\ Caches'
  BY <1>0 DEF IInv, Lives, OneStart, Life, Events, Caches
<1>3. \A o \in 1..Len(objects) : objects[o].call # 0 => objects[o].call \in 1..Len(calls)
  BY <1>0, Typed DEF ObjectRecord
<1>4. Claims'
  BY <1>0, <1>1, <1>3 DEF IInv, Claims
<1>5. Told'
  BY <1>0, <1>1 DEF IInv, Told
<1>6. Messages'
  <2>1. ASSUME NEW x \in 1..Len(calls) PROVE MessagesOf(x)'
    <3>1. /\ \A i, s, j : At(x, i, s, j)' <=> At(x, i, s, j)
          /\ Pushed(x)' = Pushed(x)
          /\ OkFor(x)' <=> OkFor(x)
      BY <1>0, <1>1 DEF At, Holds, Message, Pushed, Pushes, OkFor
    <3> QED  BY <1>0, <1>1, <3>1, SameMessages DEF IInv, Messages
  <2> QED  BY <1>1, <2>1 DEF Messages
<1> QED  BY <1>1, <1>2, <1>4, <1>5, <1>6 DEF IInv

-----------------------------------------------------------------------------
(* The invariant and what follows from it *)

LEMMA InitIInv == Init => IInv
<1> SUFFICES ASSUME Init PROVE IInv
  OBVIOUS
<1>0. /\ Len(StartOrder) \in Nat
      /\ objects = [i \in 1..Len(StartOrder) |-> Waiting(StartOrder[i])]
      /\ outstanding = [i \in 1..Len(StartOrder) |-> {"request"}]
      /\ cq = {} /\ calls = << >> /\ sinks = << >> /\ cache = [m \in Methods |-> [t \in Topics |-> 0]]
  BY OrderAssumption DEF Init
<1>1. /\ Len(objects) = Len(StartOrder) /\ Len(calls) = 0 /\ Len(sinks) = 0
      /\ \A o \in 1..Len(objects) : /\ objects[o].status = "START" /\ objects[o].call = 0
                                     /\ objects[o].reply = "none" /\ objects[o].method = StartOrder[o]
                                     /\ outstanding[o] = {"request"}
  BY <1>0 DEF Waiting
<1>2. Lives
  BY <1>0, <1>1 DEF Lives, Life, Events
<1>3. OneStart
  <2>1. ASSUME NEW m \in Methods
        PROVE  \E o \in 1..Len(objects) :
                 { x \in 1..Len(objects) : objects[x].method = m /\ objects[x].status = "START" } = {o}
    <3>1. PICK o \in 1..Len(StartOrder) : StartOrder[o] = m
      BY DEF Methods
    <3>2. \A x \in 1..Len(objects) : (objects[x].method = m /\ objects[x].status = "START") <=> x = o
      BY <1>1, <3>1, OrderAssumption
    <3>3. o \in 1..Len(objects)
      BY <1>1, <3>1
    <3> QED  BY <3>2, <3>3
  <2> QED  BY <2>1 DEF OneStart
<1>4. Claims
  BY <1>1 DEF Claims
<1>5. Caches
  BY <1>0, <1>1 DEF Caches
<1>6. Messages /\ Told
  BY <1>1 DEF Messages, Told
<1> QED  BY <1>2, <1>3, <1>4, <1>5, <1>6, InitType DEF IInv

LEMMA Inductive == IInv /\ [Next]_vars => IInv'
<1> SUFFICES ASSUME IInv, [Next]_vars PROVE IInv'
  OBVIOUS
<1>1. CASE AuthorizerChanges
  <2>1. UNCHANGED <<calls, objects, outstanding, cq, cache, sinks, run, pc>> /\ pc # "dead"
    BY <1>1 DEF AuthorizerChanges
  <2>2. grant' \in [Clients \X Methods -> Topics \cup {Denied}]
    <3>1. PICK c \in Clients, m \in Methods, t \in Topics \cup {Denied} :
            grant' = [grant EXCEPT ![<<c, m>>] = t]
      BY <1>1 DEF AuthorizerChanges
    <3> QED  BY <3>1 DEF IInv, TypeOK
  <2>3. TypeOK'
    BY <2>1, <2>2 DEF IInv, TypeOK
  <2> QED  BY <2>1, <2>3, QuietKeeps
<1>2. CASE \E c \in Clients, m \in Methods, b \in Bundles : ClientCalls(c, m, b)
  BY <1>2, ClientCallsKeeps
<1>3. CASE Grpc
  BY <1>3, CallArrivesKeeps, ReplySentKeeps DEF Grpc
<1>4. CASE LoopTop \/ sigterm \/ ShutdownReturns
  <2>1. UNCHANGED <<grant, calls, objects, outstanding, cq, cache, sinks>> /\ pc # "dead"
    BY <1>4 DEF LoopTop, sigterm, ShutdownReturns
  <2>2. run' \in BOOLEAN /\ pc' \in {"top", "next", "stopped", "shutdown", "gone", "dead"}
    BY <1>4 DEF LoopTop, sigterm, ShutdownReturns, IInv, TypeOK
  <2>3. TypeOK'
    BY <2>1, <2>2 DEF IInv, TypeOK
  <2> QED  BY <2>1, <2>3, QuietKeeps
<1>5. CASE \E e \in cq : ProcessStart(e) \/ ProcessFinish(e)
  BY <1>5, ProcessStartKeeps, ProcessFinishKeeps
<1>6. CASE Shutdown \/ ConnectionsBreak
  <2>1. Breaks
    BY <1>6 DEF Shutdown, ConnectionsBreak, Breaks
  <2> QED  BY <2>1, BreaksKeeps
<1>7. CASE UNCHANGED vars
  <2>1. UNCHANGED <<grant, calls, objects, outstanding, cq, cache, sinks, run, pc>>
    BY <1>7 DEF vars
  <2>2. TypeOK'
    BY <2>1 DEF IInv, TypeOK
  <2>3. CASE pc # "dead"
    BY <2>1, <2>2, <2>3, QuietKeeps
  <2>4. CASE pc = "dead"
    <3>1. Lives' /\ OneStart' /\ Claims' /\ Caches' /\ Told'
      BY <2>1, <2>4 DEF IInv, Lives, OneStart, Claims, Caches, Told
    <3>2. Messages'
      <4>1. ASSUME NEW x \in 1..Len(calls) PROVE MessagesOf(x)'
        <5>1. /\ \A i, s, j : At(x, i, s, j)' <=> At(x, i, s, j)
              /\ Pushed(x)' = Pushed(x)
              /\ OkFor(x)' <=> OkFor(x)
          BY <2>1 DEF At, Holds, Message, Pushed, Pushes, OkFor
        <5> QED  BY <2>1, <5>1, SameMessages DEF IInv, Messages
      <4> QED  BY <2>1, <4>1 DEF Messages
    <3> QED  BY <2>2, <3>1, <3>2 DEF IInv
  <2> QED  BY <2>3, <2>4
<1> QED  BY <1>1, <1>2, <1>3, <1>4, <1>5, <1>6, <1>7 DEF Next, Loop

LEMMA IInvAlways == Spec => []IInv
BY InitIInv, Inductive, PTL DEF Spec

(***************************************************************************)
(* Whatever calls come and in whatever order gRPC reports its events, each *)
(* method has exactly one call_data object in START.                       *)
(***************************************************************************)
THEOREM OneWaiting == Spec => []OneWaitingObject
<1>1. IInv => OneWaitingObject
  BY FS_Singleton DEF IInv, OneStart, OneWaitingObject
<1> QED  BY <1>1, IInvAlways, PTL

(***************************************************************************)
(* Every live call_data object has one answer or event to come, and a      *)
(* deleted one none: process_state is never called for a deleted object    *)
(* and no object is left over.                                             *)
(***************************************************************************)
THEOREM OneEvent == Spec => []OneEventPerObject
<1>1. ASSUME IInv, pc # "dead", NEW o \in 1..Len(objects)
      PROVE  Cardinality(outstanding[o]) + Cardinality({ e \in cq : e.tag = o })
               = IF objects[o].status = "deleted" THEN 0 ELSE 1
  <2>1. Life(o)
    BY <1>1 DEF IInv, Lives
  <2>2. Cardinality({}) = 0 /\ \A x : Cardinality({x}) = 1
    BY FS_EmptySet, FS_Singleton
  <2> DEFINE a == outstanding[o]
             b == Events(o)
             d == objects[o].status = "deleted"
  <2>3. \/ (\E x : a = {x}) /\ b = {} /\ ~d
        \/ a = {} /\ (\E x : b = {x}) /\ ~d
        \/ a = {} /\ b = {} /\ d
    BY <2>1, Zenon DEF Life
  <2>4. \/ Cardinality(a) = 1 /\ Cardinality(b) = 0 /\ ~d
        \/ Cardinality(a) = 0 /\ Cardinality(b) = 1 /\ ~d
        \/ Cardinality(a) = 0 /\ Cardinality(b) = 0 /\ d
    BY <2>2, <2>3, Zenon
  <2> HIDE DEF a, b
  <2>5. Cardinality(a) + Cardinality(b) = IF d THEN 0 ELSE 1
    BY <2>4
  <2> QED  BY <2>5 DEF a, b, Events
<1>2. IInv => OneEventPerObject
  BY <1>1 DEF IInv, OneEventPerObject
<1> QED  BY <1>2, IInvAlways, PTL

(***************************************************************************)
(* A reply tells its client the truth: after "ok" every message with a     *)
(* value is on one sink once, after "unauthenticated" none is on any, and  *)
(* the caches name the sink where a message is.                            *)
(***************************************************************************)
THEOREM Replies == Spec => []RepliesAreTrue
<1>1. ASSUME IInv, NEW k \in 1..Len(calls), NEW i \in 1..Len(calls[k].bundle)
      PROVE  /\ calls[k].state = "ok" =>
                   Cardinality(Places(k, i)) =
                     IF calls[k].method = "metrics" /\ calls[k].bundle[i] = "novalue" THEN 0 ELSE 1
             /\ calls[k].state = "unauthenticated" => Places(k, i) = {}
             /\ \A p \in Places(k, i) :
                  /\ sinks[p[1]].method = calls[k].method
                  /\ cache[calls[k].method][sinks[p[1]].topic] = p[1]
  <2>0. TypeOK /\ MessagesOf(k) /\ i \in Nat
    BY <1>1 DEF IInv, Messages
  <2>1. \A p : p \in Places(k, i) <=> \E s, j \in Nat : p = <<s, j>> /\ At(k, i, s, j)
    <3>1. ASSUME NEW p \in Places(k, i) PROVE \E s, j \in Nat : p = <<s, j>> /\ At(k, i, s, j)
      <4>1. PICK s \in 1..Len(sinks) : p \in {s} \X (1..Len(sinks[s].msgs))
        BY DEF Places
      <4>2. PICK j \in 1..Len(sinks[s].msgs) : p = <<s, j>>
        BY <4>1
      <4>3. At(k, i, s, j) /\ s \in Nat /\ j \in Nat
        BY <4>2 DEF Places, At, Holds
      <4> QED  BY <4>2, <4>3
    <3>2. ASSUME NEW s \in Nat, NEW j \in Nat, At(k, i, s, j) PROVE <<s, j>> \in Places(k, i)
      <4>1. s \in 1..Len(sinks) /\ j \in 1..Len(sinks[s].msgs) /\ sinks[s].msgs[j] = Message(k, i)
        BY <3>2 DEF At, Holds
      <4>2. <<s, j>> \in {s} \X (1..Len(sinks[s].msgs))
        BY <4>1
      <4> QED  BY <4>1, <4>2 DEF Places
    <3> QED  BY <3>1, <3>2
  <2>2. i \in Pushed(k) <=> ~(calls[k].method = "metrics" /\ calls[k].bundle[i] = "novalue")
    <3>1. calls[k].bundle \in Seq({"value", "novalue"})
      BY <2>0, PushType
    <3>2. calls[k].bundle[i] \in {"value", "novalue"}
      BY <3>1
    <3> QED  BY <3>2 DEF Pushed, Pushes
  <2>3. ASSUME calls[k].state = "ok"
        PROVE  Cardinality(Places(k, i)) = IF i \in Pushed(k) THEN 1 ELSE 0
    <3>1. OkFor(k)
      BY <1>1, <2>3 DEF IInv, Told, OkFor
    <3>2. CASE i \in Pushed(k)
      <4>1. PICK s \in Nat, j \in Nat : At(k, i, s, j)
        BY <2>0, <3>1, <3>2 DEF MessagesOf
      <4>2. \A s2, j2 \in Nat : At(k, i, s2, j2) => s2 = s /\ j2 = j
        BY <2>0, <4>1 DEF MessagesOf
      <4>3. Places(k, i) = {<<s, j>>}
        BY <2>1, <4>1, <4>2
      <4> QED  BY <3>2, <4>3, FS_Singleton
    <3>3. CASE i \notin Pushed(k)
      <4>1. Places(k, i) = {}
        BY <2>0, <2>1, <3>3 DEF MessagesOf
      <4> QED  BY <3>3, <4>1, FS_EmptySet
    <3> QED  BY <3>2, <3>3
  <2>4. ASSUME calls[k].state = "unauthenticated" PROVE Places(k, i) = {}
    <3>1. PICK o \in 1..Len(objects) : objects[o].call = k /\ objects[o].reply = "unauthenticated"
      BY <1>1, <2>4 DEF IInv, Told
    <3>2. ~OkFor(k)
      BY <1>1, <3>1 DEF OkFor, IInv, Claims
    <3> QED  BY <2>0, <2>1, <3>2 DEF MessagesOf
  <2>5. ASSUME NEW p \in Places(k, i)
        PROVE  /\ sinks[p[1]].method = calls[k].method
               /\ cache[calls[k].method][sinks[p[1]].topic] = p[1]
    <3>1. PICK s \in Nat, j \in Nat : p = <<s, j>> /\ At(k, i, s, j)
      BY <2>1
    <3>2. s \in 1..Len(sinks) /\ sinks[s].method = calls[k].method
      BY <2>0, <3>1 DEF MessagesOf, At
    <3>3. p[1] = s
      BY <3>1
    <3> QED  BY <1>1, <3>2, <3>3 DEF IInv, Caches
  <2> QED  BY <2>2, <2>3, <2>4, <2>5
<1>2. IInv => RepliesAreTrue
  BY <1>1 DEF RepliesAreTrue
<1> QED  BY <1>2, IInvAlways, PTL
=============================================================================
