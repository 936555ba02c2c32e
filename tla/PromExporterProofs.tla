------------------------- MODULE PromExporterProofs -------------------------
(***************************************************************************)
(* Proofs about PromExporter for any topic, any number of kills, any batch *)
(* size and any set of events without a value.                             *)
(*                                                                         *)
(* FifoThroughSink is a statement about the concatenation of three queues; *)
(* what is inductive is OrderedFrom: the number of each event in each      *)
(* queue.  The offset file is safe because of Accounted: whatever has left *)
(* the batch is settled, and what is still in it is settled or in the      *)
(* request.  The refinement needs Bounded as well: no event that is held   *)
(* has been committed.                                                     *)
(***************************************************************************)
EXTENDS PromExporter, SequenceFacts

Settled == stored \cup NoValue \cup aged \cup rejected \cup missed

\* Everything up to event last was released; the queues hold the next events,
\* in order, up to the last one fetched.
OrderedFrom(last) ==
  /\ last \in start..fetched /\ committed <= last
  /\ released = (start + 1)..last
  /\ last + Len(pending) + Len(in_batch) + Len(queue) = fetched
  /\ \A i \in 1..Len(pending) : pending[i] = last + i
  /\ \A i \in 1..Len(in_batch) : in_batch[i] = last + Len(pending) + i
  /\ \A i \in 1..Len(queue) : queue[i] = last + Len(pending) + Len(in_batch) + i

\* While the process runs, the events of the session are in order.
Ordered == Up => \E last \in Int : OrderedFrom(last)

\* A process that does not run holds nothing.
DownIsEmpty ==
  ~Up => queue = << >> /\ in_batch = << >> /\ pending = << >> /\ released = {}

\* Nothing is read or committed that is not in the topic.
Bounded == committed <= produced /\ (Up => fetched <= produced)

\* The request of a batch under way is a part of the batch.
RequestInBatch ==
  /\ pc = "top" => in_batch = << >>
  /\ pc \in {"batch", "http", "sleep"} => request \subseteq ToSet(in_batch)

\* Every event that was read is settled when it leaves the batch, and is in
\* the request until then.
Accounted ==
  /\ Up => 1..start \subseteq Settled
  /\ ToSet(pending) \cup released \subseteq Settled
  /\ pc = "forward" => ToSet(in_batch) \subseteq Settled
  /\ pc \in {"batch", "http", "sleep"} => ToSet(in_batch) \subseteq Settled \cup request

IInv ==
  /\ TypeOK /\ Ordered /\ DownIsEmpty /\ Bounded /\ RequestInBatch /\ Accounted
  /\ CommittedAreSettled

\* What TypeOK says of the numbers and of the queues.
LEMMA Numbers ==
  ASSUME TypeOK
  PROVE  /\ produced \in Nat /\ fetched \in Nat /\ start \in Nat /\ committed \in Nat
         /\ queue \in Seq(Events) /\ in_batch \in Seq(Events) /\ pending \in Seq(Events)
         /\ Len(queue) \in Nat /\ Len(in_batch) \in Nat /\ Len(pending) \in Nat
BY ExporterSizes DEF TypeOK

-----------------------------------------------------------------------------
(* Types *)

\* The exporter starts well typed.
LEMMA InitType == Init => TypeOK
<1> SUFFICES ASSUME Init PROVE TypeOK
  OBVIOUS
<1>1. queue \in Seq(Events) /\ in_batch \in Seq(Events) /\ pending \in Seq(Events) /\ Len(in_batch) = 0
  BY DEF Init
<1>2. 0 \in 0..MaxEvents /\ 0 \in 0..MaxKills /\ 0 <= BatchSize
  BY ExporterSizes
<1> QED  BY <1>1, <1>2 DEF Init, TypeOK

\* Every step keeps the types, and a batch its size.
LEMMA NextType == TypeOK /\ [Next]_vars => TypeOK'
<1> USE DEF session, history
<1> SUFFICES ASSUME TypeOK, [Next]_vars PROVE TypeOK'
  OBVIOUS
<1>0. /\ queue \in Seq(Events) /\ in_batch \in Seq(Events) /\ pending \in Seq(Events)
      /\ Len(in_batch) \in Nat
      /\ MaxEvents \in Nat /\ MaxKills \in Nat /\ BatchSize \in Nat
  BY ExporterSizes, Numbers
<1>1. CASE Produce
  <2>1. produced' \in 0..MaxEvents
    BY <1>0, <1>1 DEF Produce, TypeOK
  <2> QED  BY <1>1, <2>1 DEF Produce, TypeOK
<1>2. CASE Fetch
  <2>1. fetched' \in 0..MaxEvents /\ fetched + 1 \in Events
    BY <1>0, <1>2 DEF Fetch, TypeOK, Events
  <2>2. queue' \in Seq(Events)
    BY <1>0, <1>2, <2>1, ElementsOfAppend DEF Fetch
  <2> QED  BY <1>2, <2>1, <2>2 DEF Fetch, TypeOK
<1>3. CASE process
  <2>1. ToSet(pending) \subseteq Events /\ pending' \in Seq(Events)
    BY <1>0, <1>3, ElementsAt DEF process
  <2> QED  BY <1>3, <2>1 DEF process, TypeOK
<1>4. CASE commit
  <2>1. committed' \in 0..MaxEvents
    BY <1>0, <1>4 DEF commit, TypeOK
  <2> QED  BY <1>4, <2>1 DEF commit, TypeOK
<1>5. CASE BeginBatch
  <2>1. min_ts' \in 0..MaxEvents
    BY <1>0, <1>5 DEF BeginBatch, TypeOK
  <2> QED  BY <1>5, <2>1 DEF BeginBatch, TypeOK
<1>6. CASE BatchPop
  <2>1. Head(queue) \in Events /\ queue' \in Seq(Events)
    BY <1>0, <1>6, ElementsOfTail DEF BatchPop, BatchOpen
  <2>2. in_batch' \in Seq(Events) /\ Len(in_batch') = Len(in_batch) + 1 /\ Len(in_batch) < BatchSize
    BY <1>0, <1>6, <2>1 DEF BatchPop, BatchOpen
  <2>3. aged' \subseteq Events /\ request' \subseteq Events
    BY <1>6, <2>1 DEF BatchPop, TypeOK
  <2>4. Len(in_batch') <= BatchSize
    BY <1>0, <2>2
  <2> QED  BY <1>6, <2>1, <2>2, <2>3, <2>4 DEF BatchPop, TypeOK
<1>7. CASE BatchEnd \/ HttpOk \/ HttpError \/ HttpTimeout \/ Retry \/ ForwardDone
  BY <1>7 DEF BatchEnd, HttpOk, HttpError, HttpTimeout, Retry, ForwardDone, TypeOK
<1>8. CASE PrometheusStores
  <2>1. stored' \subseteq Events
    BY <1>8 DEF PrometheusStores, TypeOK
  <2> QED  BY <1>8, <2>1 DEF PrometheusStores, TypeOK
<1>9. CASE Forward
  <2>1. Head(in_batch) \in Events /\ in_batch' \in Seq(Events) /\ Len(in_batch') = Len(in_batch) - 1
    BY <1>0, <1>9, ElementsOfTail DEF Forward
  <2>2. pending' \in Seq(Events)
    BY <1>0, <1>9, <2>1, ElementsOfAppend DEF Forward
  <2>3. Len(in_batch') <= BatchSize
    BY <1>0, <2>1 DEF TypeOK
  <2> QED  BY <1>9, <2>1, <2>2, <2>3 DEF Forward, TypeOK
<1>10. CASE Kill
  <2>1. /\ queue' \in Seq(Events) /\ in_batch' \in Seq(Events) /\ pending' \in Seq(Events)
        /\ Len(in_batch') = 0
    BY <1>10 DEF Kill
  <2>2. kills' \in 0..MaxKills /\ 0 <= BatchSize
    BY <1>0, <1>10 DEF Kill, TypeOK
  <2> QED  BY <1>10, <2>1, <2>2 DEF Kill, TypeOK
<1>11. CASE Restart
  <2>1. start' \in 0..MaxEvents /\ fetched' = start'
    BY <1>11 DEF Restart, TypeOK
  <2>2. (committed + 1)..start' \subseteq Events
    BY <1>0, <2>1, Numbers DEF Events
  <2>3. missed' \subseteq Events
    BY <1>11, <2>2 DEF Restart, TypeOK
  <2> QED  BY <1>11, <2>1, <2>3 DEF Restart, TypeOK
<1>12. CASE UNCHANGED vars
  BY <1>12 DEF TypeOK, vars
<1> QED
  BY <1>1, <1>2, <1>3, <1>4, <1>5, <1>6, <1>7, <1>8, <1>9, <1>10, <1>11, <1>12 DEF Next, Thread

-----------------------------------------------------------------------------
(* The events stay in order *)

\* Steps that touch neither the queues nor the offsets.
LEMMA SameOrder ==
  ASSUME Ordered, DownIsEmpty, Bounded, Up, Up',
         UNCHANGED <<produced, fetched, start, queue, in_batch, pending, released, committed>>
  PROVE  Ordered' /\ DownIsEmpty' /\ Bounded'
<1>1. PICK last \in Int : OrderedFrom(last)
  BY DEF Ordered
<1>2. OrderedFrom(last)'
  BY <1>1 DEF OrderedFrom
<1> QED  BY <1>2 DEF Ordered, DownIsEmpty, Bounded

\* The source appends the next event.
LEMMA FetchOrder ==
  ASSUME TypeOK, Ordered, Bounded, Fetch
  PROVE  Ordered' /\ Bounded'
<1>0. PICK last \in Int : OrderedFrom(last)
  BY DEF Ordered, Fetch
<1>1. /\ fetched' = fetched + 1 /\ queue' = Append(queue, fetched + 1) /\ fetched < produced
      /\ UNCHANGED <<start, in_batch, pending, released, committed, produced, pc>>
  BY DEF Fetch
<1>2. /\ Len(queue') = Len(queue) + 1 /\ queue'[Len(queue) + 1] = fetched + 1
      /\ \A i \in 1..Len(queue) : queue'[i] = queue[i]
  BY <1>1, Numbers
<1>3. OrderedFrom(last)'
  <2>1. last + Len(pending') + Len(in_batch') + Len(queue') = fetched'
    BY <1>0, <1>1, <1>2, Numbers DEF OrderedFrom
  <2>2. ASSUME NEW i \in 1..Len(queue')
        PROVE  queue'[i] = last + Len(pending') + Len(in_batch') + i
    <3>1. CASE i \in 1..Len(queue)
      BY <1>0, <1>1, <1>2, <3>1 DEF OrderedFrom
    <3>2. CASE i = Len(queue) + 1
      BY <1>0, <1>1, <1>2, <3>2, Numbers DEF OrderedFrom
    <3> QED  BY <1>2, <3>1, <3>2, Numbers
  <2>3. last \in start'..fetched'
    BY <1>0, <1>1, Numbers DEF OrderedFrom
  <2> QED  BY <1>0, <1>1, <2>1, <2>2, <2>3 DEF OrderedFrom
<1>4. fetched' <= produced'
  BY <1>1, Numbers
<1> QED  BY <1>1, <1>3, <1>4 DEF Ordered, Bounded

\* Releasing _pending_for_delete continues the released events.
LEMMA ProcessOrder ==
  ASSUME TypeOK, Ordered, process
  PROVE  Ordered'
<1>0. PICK last \in Int : OrderedFrom(last)
  BY DEF Ordered, process
<1>1. /\ released' = released \cup ToSet(pending) /\ pending' = << >>
      /\ UNCHANGED <<start, fetched, in_batch, queue, committed>>
  BY DEF process
<1>2. PICK next \in Int : next = last + Len(pending)
  BY Numbers
<1>3. ToSet(pending) = (last + 1)..next
  <2>1. ASSUME NEW x \in (last + 1)..next PROVE x \in ToSet(pending)
    <3>1. x - last \in 1..Len(pending) /\ pending[x - last] = x
      BY <1>0, <1>2, Numbers DEF OrderedFrom
    <3> QED  BY <3>1, ElementsAt, Numbers
  <2>2. ASSUME NEW x \in ToSet(pending) PROVE x \in (last + 1)..next
    <3>1. PICK i \in 1..Len(pending) : pending[i] = x
      BY ElementsAt, Numbers
    <3> QED  BY <1>0, <1>2, <3>1, Numbers DEF OrderedFrom
  <2> QED  BY <2>1, <2>2
<1>4. released' = (start' + 1)..next
  BY <1>0, <1>1, <1>2, <1>3, Numbers DEF OrderedFrom
<1>5. Len(pending') = 0
  BY <1>1
<1>6. OrderedFrom(next)'
  <2>1. next \in start'..fetched' /\ committed' <= next
    BY <1>0, <1>1, <1>2, Numbers DEF OrderedFrom
  <2>2. next + Len(pending') + Len(in_batch') + Len(queue') = fetched'
    BY <1>0, <1>1, <1>2, <1>5, Numbers DEF OrderedFrom
  <2>3. \A i \in 1..Len(in_batch') : in_batch'[i] = next + Len(pending') + i
    BY <1>0, <1>1, <1>2, <1>5, Numbers DEF OrderedFrom
  <2>4. \A i \in 1..Len(queue') : queue'[i] = next + Len(pending') + Len(in_batch') + i
    BY <1>0, <1>1, <1>2, <1>5, Numbers DEF OrderedFrom
  <2> QED  BY <1>4, <1>5, <2>1, <2>2, <2>3, <2>4 DEF OrderedFrom
<1> QED  BY <1>6 DEF Ordered

\* The offset that is committed is one of the released events.
LEMMA CommitOrder ==
  ASSUME TypeOK, Ordered, Bounded, commit
  PROVE  Ordered' /\ Bounded'
<1>0. PICK last \in Int : OrderedFrom(last)
  BY DEF Ordered, commit
<1>1. /\ UNCHANGED <<start, fetched, in_batch, queue, pending, released, produced, pc>>
      /\ committed' \in start..fetched /\ (start + 1)..committed' \subseteq released
  BY DEF commit, session
<1>2. committed' <= last
  <2>1. CASE committed' = start
    BY <1>0, <2>1, Numbers DEF OrderedFrom
  <2>2. CASE committed' # start
    <3>1. committed' \in (start + 1)..committed'
      BY <1>1, <2>2, Numbers
    <3>2. committed' \in (start + 1)..last
      BY <1>0, <1>1, <3>1 DEF OrderedFrom
    <3> QED  BY <3>2, <1>0, Numbers
  <2> QED  BY <2>1, <2>2
<1>3. OrderedFrom(last)'
  BY <1>0, <1>1, <1>2 DEF OrderedFrom
<1>4. committed' <= produced' /\ (Up' => fetched' <= produced')
  BY <1>0, <1>1, <1>2, Numbers DEF OrderedFrom, Bounded, commit, Up
<1> QED  BY <1>3, <1>4 DEF Ordered, Bounded

\* The head of one queue becomes the last of the one before it.
LEMMA MoveHead ==
  ASSUME NEW s \in Seq(Events), NEW t \in Seq(Events), NEW m \in Int, t # << >>,
         \A i \in 1..Len(s) : s[i] = m + i,
         \A i \in 1..Len(t) : t[i] = m + Len(s) + i
  PROVE  /\ Len(Append(s, Head(t))) = Len(s) + 1 /\ Len(Tail(t)) = Len(t) - 1
         /\ Len(s) \in Nat /\ Len(t) \in Nat
         /\ \A i \in 1..(Len(s) + 1) : Append(s, Head(t))[i] = m + i
         /\ \A i \in 1..(Len(t) - 1) : Tail(t)[i] = m + Len(s) + 1 + i
<1>1. /\ Len(t) \in Nat \ {0} /\ Len(s) \in Nat
      /\ Head(t) = t[1] /\ Head(t) \in Events /\ Len(Tail(t)) = Len(t) - 1
      /\ \A i \in 1..Len(Tail(t)) : Tail(t)[i] = t[i + 1]
  OBVIOUS
<1>2. t[1] = m + Len(s) + 1
  BY <1>1
<1>3. \A i \in 1..(Len(t) - 1) : Tail(t)[i] = m + Len(s) + 1 + i
  BY <1>1
<1>4. /\ Len(Append(s, Head(t))) = Len(s) + 1 /\ Append(s, Head(t))[Len(s) + 1] = Head(t)
      /\ \A i \in 1..Len(s) : Append(s, Head(t))[i] = s[i]
  BY <1>1
<1>5. ASSUME NEW i \in 1..(Len(s) + 1) PROVE Append(s, Head(t))[i] = m + i
  <2>1. CASE i \in 1..Len(s)
    BY <1>4, <2>1
  <2>2. CASE i = Len(s) + 1
    BY <1>1, <1>2, <1>4, <2>2
  <2> QED  BY <1>1, <2>1, <2>2
<1> QED  BY <1>1, <1>3, <1>4, <1>5

\* An event moves from _queue to in_batch.
LEMMA BatchPopOrder ==
  ASSUME TypeOK, Ordered, BatchPop
  PROVE  Ordered'
<1>0. PICK last \in Int : OrderedFrom(last)
  BY DEF Ordered, BatchPop, Up
<1>1. /\ in_batch' = Append(in_batch, Head(queue)) /\ queue' = Tail(queue) /\ queue # << >>
      /\ UNCHANGED <<start, fetched, pending, released, committed>>
  BY DEF BatchPop, BatchOpen
<1>2. PICK m \in Int : m = last + Len(pending)
  BY Numbers
<1>3. /\ Len(in_batch') = Len(in_batch) + 1 /\ Len(queue') = Len(queue) - 1
      /\ \A i \in 1..(Len(in_batch) + 1) : in_batch'[i] = m + i
      /\ \A i \in 1..(Len(queue) - 1) : queue'[i] = m + Len(in_batch) + 1 + i
  <2>1. /\ in_batch \in Seq(Events) /\ queue \in Seq(Events)
        /\ \A i \in 1..Len(in_batch) : in_batch[i] = m + i
        /\ \A i \in 1..Len(queue) : queue[i] = m + Len(in_batch) + i
    BY <1>0, <1>2, Numbers DEF OrderedFrom
  <2> QED  BY <1>1, <2>1, MoveHead
<1>4. last + Len(pending') + Len(in_batch') + Len(queue') = fetched'
  BY <1>0, <1>1, <1>3, Numbers DEF OrderedFrom
<1>5. OrderedFrom(last)'
  <2>1. \A i \in 1..Len(in_batch') : in_batch'[i] = last + Len(pending') + i
    BY <1>1, <1>2, <1>3
  <2>2. ASSUME NEW i \in 1..Len(queue') PROVE queue'[i] = last + Len(pending') + Len(in_batch') + i
    <3>1. queue'[i] = m + Len(in_batch) + 1 + i
      BY <1>3
    <3>2. Len(in_batch') = Len(in_batch) + 1 /\ m = last + Len(pending') /\ Len(pending') \in Nat
      BY <1>1, <1>2, <1>3, Numbers
    <3> QED  BY <3>1, <3>2, Numbers
  <2> QED  BY <1>0, <1>1, <1>4, <2>1, <2>2 DEF OrderedFrom
<1> QED  BY <1>5 DEF Ordered

\* An event moves from in_batch to _pending_for_delete.
LEMMA ForwardOrder ==
  ASSUME TypeOK, Ordered, Forward
  PROVE  Ordered'
<1>0. PICK last \in Int : OrderedFrom(last)
  BY DEF Ordered, Forward, Up
<1>1. /\ pending' = Append(pending, Head(in_batch)) /\ in_batch' = Tail(in_batch) /\ in_batch # << >>
      /\ UNCHANGED <<start, fetched, queue, released, committed>>
  BY DEF Forward
<1>3. /\ Len(pending') = Len(pending) + 1 /\ Len(in_batch') = Len(in_batch) - 1
      /\ \A i \in 1..(Len(pending) + 1) : pending'[i] = last + i
      /\ \A i \in 1..(Len(in_batch) - 1) : in_batch'[i] = last + Len(pending) + 1 + i
  <2>1. /\ pending \in Seq(Events) /\ in_batch \in Seq(Events)
        /\ \A i \in 1..Len(pending) : pending[i] = last + i
        /\ \A i \in 1..Len(in_batch) : in_batch[i] = last + Len(pending) + i
    BY <1>0, Numbers DEF OrderedFrom
  <2> QED  BY <1>1, <2>1, MoveHead
<1>4. last + Len(pending') + Len(in_batch') + Len(queue') = fetched'
  BY <1>0, <1>1, <1>3, Numbers DEF OrderedFrom
<1>5. \A i \in 1..Len(queue') : queue'[i] = last + Len(pending') + Len(in_batch') + i
  BY <1>0, <1>1, <1>3, Numbers DEF OrderedFrom
<1>6. OrderedFrom(last)'
  <2>1. \A i \in 1..Len(pending') : pending'[i] = last + i
    BY <1>3
  <2>2. \A i \in 1..Len(in_batch') : in_batch'[i] = last + Len(pending') + i
    BY <1>3, Numbers
  <2> QED  BY <1>0, <1>1, <1>4, <1>5, <2>1, <2>2 DEF OrderedFrom
<1> QED  BY <1>6 DEF Ordered

\* A killed process holds nothing, and the next one starts with nothing.
LEMMA KillRestartOrder ==
  ASSUME TypeOK, DownIsEmpty, Bounded, Kill \/ Restart
  PROVE  Ordered' /\ DownIsEmpty' /\ Bounded'
<1>1. CASE Kill
  BY <1>1 DEF Kill, Ordered, DownIsEmpty, Bounded, Up
<1>2. CASE Restart
  <2>1. /\ pc' # "down" /\ start' = (IF policy = "OFFSET_STORED" THEN committed ELSE produced) /\ fetched' = start'
        /\ UNCHANGED <<produced, committed>>
        /\ queue' = << >> /\ in_batch' = << >> /\ pending' = << >> /\ released' = {}
    BY <1>2 DEF Restart, DownIsEmpty, Up
  <2>2. start' \in Nat /\ committed' <= start' /\ fetched' <= produced' /\ (start' + 1)..start' = {}
    BY <2>1, Numbers DEF Bounded
  <2>3. Len(queue') = 0 /\ Len(in_batch') = 0 /\ Len(pending') = 0
    BY <2>1
  <2>4. PICK n \in Nat : n = start'
    BY <2>2
  <2>5. OrderedFrom(n)'
    BY <2>1, <2>2, <2>3, <2>4 DEF OrderedFrom
  <2>6. Ordered'
    BY <2>5 DEF Ordered
  <2>7. committed' <= produced'
    BY <2>1 DEF Bounded
  <2> QED  BY <2>1, <2>2, <2>6, <2>7 DEF DownIsEmpty, Bounded, Up
<1> QED  BY <1>1, <1>2

\* The exporter starts in order.
LEMMA InitOrder == Init => Ordered /\ DownIsEmpty /\ Bounded
<1> SUFFICES ASSUME Init PROVE Ordered /\ DownIsEmpty /\ Bounded
  OBVIOUS
<1>1. OrderedFrom(0)
  BY DEF Init, OrderedFrom
<1> QED  BY <1>1 DEF Init, Ordered, DownIsEmpty, Bounded, Up

\* No step takes the events of a session out of order.
LEMMA NextOrder == TypeOK /\ Ordered /\ DownIsEmpty /\ Bounded /\ [Next]_vars
                     => Ordered' /\ DownIsEmpty' /\ Bounded'
<1> SUFFICES ASSUME TypeOK, Ordered, DownIsEmpty, Bounded, [Next]_vars
             PROVE  Ordered' /\ DownIsEmpty' /\ Bounded'
  OBVIOUS
<1>1. CASE Produce
  <2>1. /\ produced' = produced + 1
        /\ UNCHANGED <<fetched, start, queue, in_batch, pending, released, committed, pc>>
    BY <1>1 DEF Produce, session
  <2>2. Bounded'
    BY <2>1, Numbers DEF Bounded, Up
  <2>3. ASSUME Up' PROVE \E last \in Int : OrderedFrom(last)'
    <3>1. PICK last \in Int : OrderedFrom(last)
      BY <2>1, <2>3 DEF Ordered, Up
    <3>2. OrderedFrom(last)'
      BY <2>1, <3>1 DEF OrderedFrom
    <3> QED  BY <3>2
  <2>4. DownIsEmpty'
    BY <2>1 DEF DownIsEmpty, Up
  <2> QED  BY <2>2, <2>3, <2>4 DEF Ordered
<1>2. CASE Fetch
  <2>1. DownIsEmpty'
    BY <1>2 DEF Fetch, DownIsEmpty, Up
  <2> QED  BY <1>2, <2>1, FetchOrder
<1>3. CASE process
  BY <1>3, ProcessOrder DEF process, DownIsEmpty, Bounded, Up
<1>4. CASE commit
  <2>1. DownIsEmpty'
    BY <1>4 DEF commit, DownIsEmpty, Up
  <2> QED  BY <1>4, <2>1, CommitOrder
<1>5. CASE BatchPop
  BY <1>5, BatchPopOrder DEF BatchPop, DownIsEmpty, Bounded, Up
<1>6. CASE Forward
  BY <1>6, ForwardOrder DEF Forward, DownIsEmpty, Bounded, Up
<1>7. CASE \/ BeginBatch \/ BatchEnd \/ HttpOk \/ HttpError \/ HttpTimeout \/ Retry \/ ForwardDone
           \/ PrometheusStores
  <2>1. UNCHANGED <<produced, fetched, start, queue, in_batch, pending, released, committed>>
    BY <1>7 DEF BeginBatch, BatchEnd, HttpOk, HttpError, HttpTimeout, Retry, ForwardDone,
                PrometheusStores, session
  <2>2. Up /\ Up'
    BY <1>7 DEF BeginBatch, BatchEnd, HttpOk, HttpError, HttpTimeout, Retry, ForwardDone,
                PrometheusStores, Up
  <2> QED  BY <2>1, <2>2, SameOrder
<1>8. CASE Kill \/ Restart
  BY <1>8, KillRestartOrder
<1>9. CASE UNCHANGED vars
  <2>1. UNCHANGED <<produced, fetched, start, queue, in_batch, pending, released, committed, pc>>
    BY <1>9 DEF vars, session
  <2>2. CASE Up
    BY <2>1, <2>2, SameOrder DEF Up
  <2>3. CASE ~Up
    BY <2>1, <2>3 DEF Up, Ordered, DownIsEmpty, Bounded
  <2> QED  BY <2>2, <2>3
<1> QED
  BY <1>1, <1>2, <1>3, <1>4, <1>5, <1>6, <1>7, <1>8, <1>9 DEF Next, Thread

-----------------------------------------------------------------------------
(* What leaves the batch is settled *)

Safe == RequestInBatch /\ Accounted /\ CommittedAreSettled

\* The exporter starts with nothing to account for.
LEMMA InitSafe == Init => Safe
<1>1. ToSet(<< >>) = {} /\ 1..0 = {}
  BY DEF ToSet
<1> QED  BY <1>1 DEF Init, Safe, RequestInBatch, Accounted, CommittedAreSettled, Settled

\* What was settled stays settled, so a step that touches no queue is safe.
LEMMA SafeWhenSettledGrows ==
  ASSUME Safe, Settled \subseteq Settled', pc' = pc,
         UNCHANGED <<start, in_batch, request, pending, released, committed>>
  PROVE  Safe'
<1>1. Settled' = (stored' \cup NoValue \cup aged' \cup rejected' \cup missed')
  BY DEF Settled
<1>2. CommittedAreSettled' /\ RequestInBatch'
  BY <1>1 DEF Safe, CommittedAreSettled, RequestInBatch, Settled
<1>3. Accounted'
  BY DEF Safe, Accounted, Up
<1> QED  BY <1>2, <1>3 DEF Safe

\* No step lets an event leave the batch unsettled, or the offset file get
\* ahead of the released events.
LEMMA NextSafe == TypeOK /\ DownIsEmpty /\ Safe /\ [Next]_vars => Safe'
<1> USE DEF session, history
<1> SUFFICES ASSUME TypeOK, DownIsEmpty, Safe, [Next]_vars PROVE Safe'
  OBVIOUS
<1>0. RequestInBatch /\ Accounted /\ CommittedAreSettled
  BY DEF Safe
<1>e. ToSet(<< >>) = {}
  BY DEF ToSet
<1>1. CASE Produce \/ Fetch \/ UNCHANGED vars
  <2>1. UNCHANGED <<start, in_batch, request, pending, released, committed, pc>> /\ Settled' = Settled
    BY <1>1 DEF Produce, Fetch, vars, Settled
  <2> QED  BY <2>1, SafeWhenSettledGrows
<1>2. CASE process
  <2>1. /\ released' = released \cup ToSet(pending) /\ ToSet(pending') = {} /\ Settled' = Settled
        /\ UNCHANGED <<start, in_batch, request, committed, pc>>
    BY <1>2, <1>e DEF process, Settled
  <2>2. Accounted'
    BY <1>0, <2>1 DEF Accounted, Up
  <2>3. RequestInBatch' /\ CommittedAreSettled'
    BY <1>0, <1>2, <2>1 DEF RequestInBatch, CommittedAreSettled, process
  <2> QED  BY <2>2, <2>3 DEF Safe
<1>3. CASE commit
  <2>1. /\ UNCHANGED <<start, in_batch, request, pending, released, pc>> /\ Settled' = Settled
        /\ (start + 1)..committed' \subseteq released /\ committed' \in Int /\ pc # "down"
        /\ UNCHANGED history
    BY <1>3, Numbers DEF commit, Settled, Up
  <2>2. 1..committed' \subseteq (1..start) \cup ((start + 1)..committed')
    BY <2>1, Numbers
  <2>3. 1..committed' \subseteq Settled
    BY <1>0, <2>1, <2>2 DEF Accounted, Up
  <2>4. CommittedAreSettled'
    BY <2>1, <2>3 DEF CommittedAreSettled, Settled
  <2>5. Accounted' /\ RequestInBatch'
    BY <1>0, <2>1 DEF Accounted, RequestInBatch, Up
  <2> QED  BY <2>4, <2>5 DEF Safe
<1>4. CASE BeginBatch
  <2>1. /\ pc = "top" /\ pc' = "batch" /\ request' = {} /\ Settled' = Settled
        /\ UNCHANGED <<start, in_batch, pending, released, committed, history>>
    BY <1>4 DEF BeginBatch, Settled
  <2>2. ToSet(in_batch') = {}
    BY <1>0, <1>e, <2>1 DEF RequestInBatch
  <2>3. Accounted'
    BY <1>0, <2>1, <2>2 DEF Accounted, Up
  <2>4. RequestInBatch' /\ CommittedAreSettled'
    BY <1>0, <2>1 DEF RequestInBatch, CommittedAreSettled
  <2> QED  BY <2>3, <2>4 DEF Safe
<1>5. CASE BatchPop
  <2> DEFINE e == Head(queue)
  <2>1. e \in Events /\ ToSet(in_batch') = ToSet(in_batch) \cup {e}
    BY <1>5, Numbers, ElementsOfTail, ElementsOfAppend DEF BatchPop, BatchOpen
  <2>2. /\ pc = "batch" /\ UNCHANGED <<start, pending, released, committed, stored, rejected, missed, pc>>
        /\ aged \subseteq aged' /\ request \subseteq request' /\ request' \subseteq request \cup {e}
    BY <1>5 DEF BatchPop
  <2>3. e \in NoValue \cup aged' \cup request'
    <3>1. e \in Int /\ min_ts \in Int
      BY <2>1, ExporterSizes DEF TypeOK, Events
    <3>2. e <= min_ts \/ e > min_ts
      BY <3>1
    <3> QED  BY <1>5, <3>2 DEF BatchPop
  <2> HIDE DEF e
  <2>4. Settled \subseteq Settled' /\ e \in Settled' \cup request'
    BY <2>2, <2>3 DEF Settled
  <2>5. Accounted'
    BY <1>0, <2>1, <2>2, <2>4 DEF Accounted, Up
  <2>6. RequestInBatch'
    BY <1>0, <2>1, <2>2 DEF RequestInBatch
  <2>7. CommittedAreSettled'
    BY <1>0, <2>2 DEF CommittedAreSettled
  <2> QED  BY <2>5, <2>6, <2>7 DEF Safe
<1>6. CASE BatchEnd \/ HttpOk \/ HttpError \/ HttpTimeout \/ Retry
  <2>1. /\ UNCHANGED <<start, in_batch, request, pending, released, committed>>
        /\ pc \in {"batch", "http", "sleep"} /\ pc' \in {"http", "sleep", "forward"}
        /\ stored \subseteq stored' /\ aged \subseteq aged' /\ rejected \subseteq rejected' /\ missed \subseteq missed'
    BY <1>6 DEF BatchEnd, HttpOk, HttpError, HttpTimeout, Retry
  <2>2. pc' = "forward" => request \subseteq stored' \cup rejected'
    BY <1>6 DEF BatchEnd, HttpOk, HttpError, HttpTimeout, Retry
  <2>3. Settled \subseteq Settled' /\ (pc' = "forward" => request \subseteq Settled')
    BY <2>1, <2>2 DEF Settled
  <2>4. Accounted'
    BY <1>0, <2>1, <2>3 DEF Accounted, Up
  <2>5. RequestInBatch' /\ CommittedAreSettled'
    BY <1>0, <2>1 DEF RequestInBatch, CommittedAreSettled
  <2> QED  BY <2>4, <2>5 DEF Safe
<1>7. CASE PrometheusStores
  <2>1. /\ UNCHANGED <<start, in_batch, request, pending, released, committed, pc, aged, rejected, missed>>
        /\ stored \subseteq stored'
    BY <1>7 DEF PrometheusStores
  <2>2. Settled \subseteq Settled'
    BY <2>1 DEF Settled
  <2> QED  BY <2>1, <2>2, SafeWhenSettledGrows
<1>8. CASE Forward
  <2>1. /\ ToSet(in_batch) = {Head(in_batch)} \cup ToSet(in_batch')
        /\ ToSet(pending') = ToSet(pending) \cup {Head(in_batch)}
    BY <1>8, Numbers, ElementsOfTail, ElementsOfAppend DEF Forward
  <2>2. /\ pc = "forward" /\ UNCHANGED <<start, request, released, committed, pc, history>> /\ Settled' = Settled
    BY <1>8 DEF Forward, Settled
  <2>3. Accounted'
    BY <1>0, <2>1, <2>2 DEF Accounted, Up
  <2>4. RequestInBatch' /\ CommittedAreSettled'
    BY <1>0, <2>2 DEF RequestInBatch, CommittedAreSettled
  <2> QED  BY <2>3, <2>4 DEF Safe
<1>9. CASE ForwardDone
  <2>1. /\ pc' = "top" /\ in_batch = << >> /\ Settled' = Settled /\ pc = "forward"
        /\ UNCHANGED <<start, in_batch, request, pending, released, committed, history>>
    BY <1>9 DEF ForwardDone, Settled
  <2>2. Accounted' /\ RequestInBatch' /\ CommittedAreSettled'
    BY <1>0, <2>1 DEF Accounted, RequestInBatch, CommittedAreSettled, Up
  <2> QED  BY <2>2 DEF Safe
<1>10. CASE Kill
  <2>1. /\ pc' = "down" /\ pending' = << >> /\ released' = {} /\ UNCHANGED <<committed, history>>
    BY <1>10 DEF Kill
  <2>2. Accounted'
    BY <1>e, <2>1 DEF Accounted, Up
  <2>3. RequestInBatch' /\ CommittedAreSettled'
    BY <1>0, <2>1 DEF RequestInBatch, CommittedAreSettled
  <2> QED  BY <2>2, <2>3 DEF Safe
<1>11. CASE Restart
  <2>1. /\ pc = "down" /\ pc' = "top" /\ missed' = missed \cup ((committed + 1)..start')
        /\ UNCHANGED <<in_batch, pending, released, committed, stored, aged, rejected>>
        /\ start' \in Int
    BY <1>11, Numbers DEF Restart
  <2>2. in_batch' = << >> /\ ToSet(pending') = {} /\ released' = {}
    BY <1>e, <2>1 DEF DownIsEmpty, Up
  <2>3. 1..start' \subseteq (1..committed) \cup ((committed + 1)..start')
    BY <2>1, Numbers
  <2>4. CommittedAreSettled' /\ 1..start' \subseteq Settled'
    BY <1>0, <2>1, <2>3 DEF CommittedAreSettled, Settled
  <2>5. Accounted' /\ RequestInBatch'
    BY <2>1, <2>2, <2>4 DEF Accounted, RequestInBatch, Up
  <2> QED  BY <2>4, <2>5 DEF Safe
<1> QED
  BY <1>1, <1>2, <1>3, <1>4, <1>5, <1>6, <1>7, <1>8, <1>9, <1>10, <1>11 DEF Next, Thread

-----------------------------------------------------------------------------
(* The theorems about the exporter *)

\* The strengthened invariant holds initially and is kept by every step.
LEMMA Inductive == (Init => IInv) /\ (IInv /\ [Next]_vars => IInv')
<1>1. Init => IInv
  BY InitType, InitOrder, InitSafe DEF IInv, Safe
<1>2. IInv /\ [Next]_vars => IInv'
  BY NextType, NextOrder, NextSafe DEF IInv, Safe
<1> QED  BY <1>1, <1>2

\* Numbered queues are one sequence of consecutive numbers.
LEMMA OrderIsFifo == TypeOK /\ Ordered => FifoThroughSink
<1> DEFINE from == start + Cardinality(released)
           held == pending \o in_batch \o queue
<1> SUFFICES ASSUME TypeOK, Ordered, Up
             PROVE  /\ released = (start + 1)..from
                    /\ held = [i \in 1..(fetched - from) |-> from + i]
  BY DEF FifoThroughSink
<1>1. PICK last \in Int : OrderedFrom(last)
  BY DEF Ordered
<1>2. from = last
  <2>1. Cardinality((start + 1)..last) = IF start + 1 > last THEN 0 ELSE last - (start + 1) + 1
    <3>1. start + 1 \in Int
      BY Numbers
    <3> QED  BY <3>1, FS_Interval, Zenon
  <2>2. last >= start /\ released = (start + 1)..last
    BY <1>1, Numbers DEF OrderedFrom
  <2>3. Cardinality(released) = last - start
    <3> HIDE DEF from, held
    <3>0. start \in Nat /\ last >= start
      BY <2>2, Numbers
    <3>1. (IF start + 1 > last THEN 0 ELSE last - (start + 1) + 1) = last - start
      BY <3>0
    <3> QED  BY <2>1, <2>2, <3>1, Zenon
  <2> QED  BY <2>3, Numbers
<1>3. held = [i \in 1..(fetched - last) |-> last + i]
  <2> DEFINE g == [i \in 1..(fetched - last) |-> last + i]
             pb == pending \o in_batch
  <2>1. Events \subseteq Int
    BY DEF Events
  <2>2. pending \in Seq(Int) /\ in_batch \in Seq(Int) /\ queue \in Seq(Int)
    BY <2>1, Numbers, SeqMonotonic
  <2>3. /\ pb \in Seq(Int) /\ Len(pb) = Len(pending) + Len(in_batch)
        /\ \A i \in 1..Len(pb) : pb[i] = IF i <= Len(pending) THEN pending[i] ELSE in_batch[i - Len(pending)]
    BY <2>2, ConcatProperties
  <2>4. \A i \in 1..Len(pb) : pb[i] = last + i
    <3> HIDE DEF pb
    <3> TAKE i \in 1..Len(pb)
    <3>1. CASE i <= Len(pending)
      <4>1. i \in 1..Len(pending)
        BY <2>3, <3>1, Numbers
      <4>2. pending[i] = last + i
        BY <1>1, <4>1 DEF OrderedFrom
      <4>3. pb[i] = pending[i]
        BY <2>3, <3>1
      <4> QED  BY <4>2, <4>3
    <3>2. CASE i > Len(pending)
      <4>1. PICK j \in 1..Len(in_batch) : j = i - Len(pending)
        BY <2>3, <3>2, Numbers
      <4>2. in_batch[j] = last + Len(pending) + j
        BY <1>1 DEF OrderedFrom
      <4>3. pb[i] = in_batch[j]
        BY <2>3, <3>2, <4>1, Numbers
      <4> QED  BY <4>1, <4>2, <4>3, Numbers
    <3> QED  BY <3>1, <3>2, Numbers
  <2>5. /\ held \in Seq(Int) /\ Len(held) = Len(pb) + Len(queue)
        /\ \A i \in 1..Len(held) : held[i] = IF i <= Len(pb) THEN pb[i] ELSE queue[i - Len(pb)]
    BY <2>2, <2>3, ConcatProperties
  <2> HIDE DEF pb, held
  <2>6. \A i \in 1..Len(held) : held[i] = last + i
    <3> TAKE i \in 1..Len(held)
    <3>1. CASE i <= Len(pb)
      BY <2>3, <2>4, <2>5, <3>1, Numbers
    <3>2. CASE i > Len(pb)
      <4>1. PICK j \in 1..Len(queue) : j = i - Len(pb)
        BY <2>3, <2>5, <3>2, Numbers
      <4>2. queue[j] = last + Len(pending) + Len(in_batch) + j
        BY <1>1 DEF OrderedFrom
      <4>3. held[i] = queue[j]
        BY <2>3, <2>5, <3>2, <4>1, Numbers
      <4> QED  BY <2>3, <4>1, <4>2, <4>3, Numbers
    <3> QED  BY <2>3, <2>5, <3>1, <3>2, Numbers
  <2>7. Len(held) = fetched - last /\ fetched - last \in Nat
    BY <1>1, <2>3, <2>5, Numbers DEF OrderedFrom
  <2>8. g \in Seq(Int) /\ Len(g) = fetched - last /\ \A i \in 1..(fetched - last) : g[i] = last + i
    BY <2>7
  <2> HIDE DEF g
  <2>9. held = g
    BY <2>5, <2>6, <2>7, <2>8, SeqEqual
  <2> QED  BY <2>9 DEF g
<1> HIDE DEF held
<1>4. released = (start + 1)..last
  BY <1>1 DEF OrderedFrom
<1> QED  BY <1>2, <1>3, <1>4

\* Through timeouts, retries, kills and restarts the events of a session stay
\* in topic order in the sink, each in exactly one place.
THEOREM Fifo == Spec => []FifoThroughSink
<1>1. IInv => FifoThroughSink
  BY OrderIsFifo DEF IInv
<1> QED  BY <1>1, Inductive, PTL DEF Spec

\* The offset file is never ahead of the export.
THEOREM OffsetIsSafe == Spec => []CommittedAreSettled
<1>1. IInv => CommittedAreSettled
  BY DEF IInv
<1> QED  BY <1>1, Inductive, PTL DEF Spec

\* No event that the sink still has to send was committed.
LEMMA HeldNotCommitted ==
  ASSUME IInv, Up
  PROVE  /\ \A e \in ToSet(in_batch) \cup ToSet(queue) : e \in Events /\ e > committed /\ e \in 1..produced
<1>0. TypeOK /\ Ordered /\ Bounded
  BY DEF IInv
<1>1. PICK last \in Int : OrderedFrom(last)
  BY <1>0 DEF Ordered
<1>2. ASSUME NEW e \in ToSet(in_batch) PROVE e \in Events /\ e > committed /\ e \in 1..produced
  <2>1. PICK i \in 1..Len(in_batch) : in_batch[i] = e
    BY <1>0, Numbers, ElementsAt
  <2>2. e = last + Len(pending) + i /\ e <= fetched /\ committed <= last /\ fetched <= produced
    BY <1>0, <1>1, <2>1, Numbers DEF OrderedFrom, Bounded
  <2>3. e \in Events
    BY <1>0, <2>1, Numbers
  <2> QED  BY <1>0, <2>2, <2>3, Numbers DEF Events
<1>3. ASSUME NEW e \in ToSet(queue) PROVE e \in Events /\ e > committed /\ e \in 1..produced
  <2>1. PICK i \in 1..Len(queue) : queue[i] = e
    BY <1>0, Numbers, ElementsAt
  <2>2. e = last + Len(pending) + Len(in_batch) + i /\ e <= fetched /\ committed <= last /\ fetched <= produced
    BY <1>0, <1>1, <2>1, Numbers DEF OrderedFrom, Bounded
  <2>3. e \in Events
    BY <1>0, <2>1, Numbers
  <2> QED  BY <1>0, <2>2, <2>3, Numbers DEF Events
<1> QED  BY <1>2, <1>3

\* History about events that are not committed changes nothing that was done.
LEMMA SameGivenUp ==
  ASSUME committed \in Nat, committed' = committed,
         \A e \in 1..committed :
           /\ e \in aged' \cup rejected' \cup missed' <=> e \in aged \cup rejected \cup missed
           /\ e \in stored' <=> e \in stored
  PROVE  givenUp' = givenUp
BY DEF givenUp

\* One step of the exporter is one step of the at-least-once stage, or none.
LEMMA StepIsAtLeastOnce == IInv /\ IInv' /\ [Next]_vars => [ALO!ANext]_(ALO!avars)
<1> USE DEF session, history, ALO!avars
<1> SUFFICES ASSUME IInv, IInv', [Next]_vars
             PROVE  ALO!ANext \/ UNCHANGED ALO!avars
  OBVIOUS
<1>0. /\ TypeOK /\ Bounded /\ RequestInBatch /\ produced \in Nat /\ committed \in Nat
      /\ CommittedAreSettled /\ MaxEvents \in Nat /\ committed <= produced
  BY Numbers, ExporterSizes DEF IInv, Bounded
<1>g. givenUp \subseteq 1..committed
  BY DEF givenUp
<1>1. CASE Produce
  <2>1. produced + 1 \in Events /\ produced + 1 \notin 1..produced /\ 1..(produced + 1) = (1..produced) \cup {produced + 1}
    BY <1>0, <1>1 DEF Produce, Events
  <2>2. UNCHANGED <<committed, stored, aged, rejected, missed>> /\ produced' = produced + 1
    BY <1>1 DEF Produce
  <2>3. givenUp' = givenUp
    BY <2>2 DEF givenUp
  <2>4. ALO!Submit({produced + 1})
    BY <2>1, <2>2, <2>3 DEF ALO!Submit
  <2> QED  BY <2>1, <2>4 DEF ALO!ANext
<1>2. CASE \/ Fetch \/ process \/ BeginBatch \/ BatchEnd \/ HttpOk \/ HttpTimeout \/ Retry
           \/ Forward \/ ForwardDone \/ Kill \/ UNCHANGED vars
  <2>1. UNCHANGED <<produced, committed, stored, aged, rejected, missed>>
    BY <1>2 DEF Fetch, process, BeginBatch, BatchEnd, HttpOk, HttpTimeout, Retry, Forward,
                ForwardDone, Kill, vars
  <2>2. givenUp' = givenUp
    BY <2>1 DEF givenUp
  <2> QED  BY <2>1, <2>2
<1>3. CASE BatchPop
  <2>1. queue \in Seq(Events) /\ queue # << >> /\ Up
    BY <1>0, <1>3, Numbers DEF BatchPop, BatchOpen, Up
  <2>2. Head(queue) > committed
    BY <2>1, ElementsOfTail, HeldNotCommitted
  <2>3. Head(queue) \notin 1..committed
    BY <1>0, <2>2
  <2>4. /\ UNCHANGED <<produced, committed, stored, rejected, missed>>
        /\ aged' \in {aged, aged \cup {Head(queue)}}
    BY <1>3 DEF BatchPop
  <2>5. givenUp' = givenUp
    BY <1>0, <2>3, <2>4, SameGivenUp
  <2> QED  BY <2>4, <2>5
<1>4. CASE HttpError
  <2>1. Up /\ request \subseteq ToSet(in_batch)
    BY <1>0, <1>4 DEF HttpError, Up, RequestInBatch
  <2>2. \A e \in request : e \notin 1..committed
    BY <1>0, <2>1, HeldNotCommitted
  <2>3. UNCHANGED <<produced, committed, stored, aged, missed>> /\ rejected' = rejected \cup request
    BY <1>4 DEF HttpError
  <2>4. givenUp' = givenUp
    BY <1>0, <2>2, <2>3, SameGivenUp
  <2> QED  BY <2>3, <2>4
<1>5. CASE PrometheusStores
  <2>1. Up /\ request \subseteq ToSet(in_batch)
    BY <1>0, <1>5 DEF PrometheusStores, Up, RequestInBatch
  <2>2. PICK S \in SUBSET request : stored' = stored \cup S
    BY <1>5 DEF PrometheusStores
  <2>3. \A e \in S : e \in Events /\ e \in 1..produced /\ e \notin 1..committed
    BY <1>0, <2>1, HeldNotCommitted
  <2>4. UNCHANGED <<produced, committed, aged, rejected, missed>>
    BY <1>5 DEF PrometheusStores
  <2>5. givenUp' = givenUp
    BY <1>0, <2>2, <2>3, <2>4, SameGivenUp
  <2>6. ALO!Deliver(S)
    BY <1>g, <2>2, <2>3, <2>4, <2>5 DEF ALO!Deliver
  <2>7. S \in SUBSET Events
    BY <2>3
  <2> QED  BY <2>6, <2>7 DEF ALO!ANext
<1>6. CASE commit
  <2> DEFINE D == givenUp' \ (1..committed)
             S == (1..committed') \ ((1..committed) \cup givenUp')
  <2>1. /\ UNCHANGED <<produced, stored, aged, rejected, missed>> /\ committed' > committed
        /\ committed' \in Nat /\ committed' <= produced
    <3>1. UNCHANGED <<produced, stored, aged, rejected, missed>> /\ committed' > committed
      BY <1>6 DEF commit
    <3>2. committed' \in Nat /\ committed' <= produced'
      BY Numbers, ExporterSizes DEF IInv, Bounded, TypeOK
    <3> QED  BY <3>1, <3>2
  <2>2. givenUp' \cap (1..committed) = givenUp /\ givenUp' \subseteq 1..committed'
    BY <1>0, <2>1 DEF givenUp
  <2>3. 1..committed \subseteq 1..committed' /\ 1..committed' \subseteq 1..produced /\ 1..produced \subseteq Events
    BY <1>0, <2>1 DEF TypeOK, Events
  <2>4. S \subseteq stored \cup NoValue
    <3>1. 1..committed' \subseteq stored \cup NoValue \cup aged \cup rejected \cup missed
      BY <2>1 DEF IInv, CommittedAreSettled
    <3> QED  BY <2>1, <3>1 DEF givenUp
  <2>5. givenUp' = givenUp \cup D
    BY <2>2
  <2>6. (1..committed') \ givenUp' = ((1..committed) \ givenUp) \cup S
    BY <2>2, <2>3
  <2>7. S \cup D \subseteq (1..produced) \ (((1..committed) \ givenUp) \cup givenUp)
    BY <1>g, <2>2, <2>3
  <2>8. ALO!GiveUp(S, D)
    <3>1. S \cap D = {}
      OBVIOUS
    <3> HIDE DEF S, D
    <3> QED  BY <2>1, <2>4, <2>5, <2>6, <2>7, <3>1 DEF ALO!GiveUp
  <2>9. S \in SUBSET Events /\ D \in SUBSET Events
    BY <2>2, <2>3
  <2> QED  BY <2>8, <2>9 DEF ALO!ANext
<1>7. CASE Restart
  <2>1. /\ UNCHANGED <<produced, committed, stored, aged, rejected>>
        /\ missed' = missed \cup ((committed + 1)..start') /\ start' \in Int
    BY <1>0, <1>7, Numbers DEF Restart
  <2>2. \A e \in (committed + 1)..start' : e \notin 1..committed
    BY <1>0, <2>1
  <2>3. givenUp' = givenUp
    BY <1>0, <2>1, <2>2, SameGivenUp
  <2> QED  BY <2>1, <2>3
<1> QED
  BY <1>1, <1>2, <1>3, <1>4, <1>5, <1>6, <1>7 DEF Next, Thread

\* The exporter with its offset file implements the at-least-once stage: what
\* it commits is at Prometheus or given up on purpose, and after a kill no
\* committed event is posted again.
THEOREM Refinement == Spec => ImplementsAtLeastOnce
<1>1. Init => ALO!AInit
  <2>1. 1..0 = {}
    OBVIOUS
  <2> QED  BY <2>1 DEF Init, ALO!AInit, givenUp
<1> QED  BY <1>1, Inductive, StepIsAtLeastOnce, PTL DEF Spec, ImplementsAtLeastOnce, ALO!ASpec
=============================================================================
