--------------------------- MODULE KafkaSinkProofs ---------------------------
(***************************************************************************)
(* Proofs about KafkaSink for any number of messages, any bound on         *)
(* librdkafka's queue and any set of rejected messages.  FifoHandOver is   *)
(* not inductive: it needs to know that the event bg_thread is handing     *)
(* over is still the head of the queue (true as long as bg_thread is the   *)
(* only one to take from it).  NothingLost needs in addition that only     *)
(* what Kafka stored is reported as delivered.  PopsMatchProduces holds    *)
(* during destruction too and has an invariant of its own, Paired.         *)
(***************************************************************************)
EXTENDS KafkaSink, FiniteSetTheorems, TLAPS

\* bg_thread holds the head of the queue while it hands it over.
HeadInHand ==
  pc["dtor"] = "none" =>
    /\ ~closed
    /\ pc["bg"] \in {"front", "produce", "pop"} => Len(queue) > 0
    /\ pc["bg"] \in {"produce", "pop"} => front["bg"] = queue[1]

\* Reports are truthful, and what librdkafka no longer holds Kafka has.
HeldOrStored ==
  /\ \A i \in DOMAIN outq : outq[i] = "stored" => produced[i] \in broker
  /\ ~closed => \A i \in 1..Len(produced) : i \in DOMAIN outq \/ produced[i] \in broker

IInv == TypeOK /\ HeadInHand /\ FifoHandOver /\ HeldOrStored

USE DEF Threads, Labels

-----------------------------------------------------------------------------
(* Steps of one thread *)

\* A thread's step moves that thread only, and never back to "none".
LEMMA GotoMoves ==
  ASSUME TypeOK, NEW t \in Threads, NEW l \in Labels, Goto(t, l)
  PROVE  /\ pc' \in [Threads -> Labels] /\ pc'[t] = l
         /\ \A u \in Threads : u # t => pc'[u] = pc[u]
BY DEF Goto, TypeOK

\* The constructor leaves every variable well typed.
LEMMA InitType == Init => TypeOK
<1> SUFFICES ASSUME Init PROVE TypeOK
  OBVIOUS
<1>1. DOMAIN outq = {}
  BY DEF Init
<1>2. pc \in [Threads -> Labels] /\ front \in [Threads -> Nat]
  BY DEF Init
<1>3. queue \in Seq(Nat) /\ produced \in Seq(Nat) /\ popped \in Seq(Nat) /\ pushed \in 0..MaxMsgs
  BY BoundsAssumption DEF Init
<1> QED  BY <1>1, <1>2, <1>3 DEF Init, TypeOK

\* A process that dies keeps the types.
LEMMA AbortType == TypeOK /\ Abort => TypeOK'
BY DEF TypeOK, Abort, kafka, sink

\* What serving the delivery reports does to the messages librdkafka holds.
LEMMA ServeReportsType ==
  ASSUME TypeOK, ServeReports
  PROVE  /\ DOMAIN outq' \subseteq DOMAIN outq
         /\ \A i \in DOMAIN outq' : outq'[i] = "queued" /\ outq[i] = "queued"
         /\ \A i \in DOMAIN outq \ DOMAIN outq' : outq[i] = "stored"
BY DEF ServeReports, TypeOK

\* Every step of process() and poll() keeps the types, in either thread.
LEMMA ThreadStepType ==
  ASSUME TypeOK, NEW t \in Threads, Process(t) \/ Poll(t)
  PROVE  TypeOK'
<1>1. AfterProcess(t) \in Labels /\ AfterPoll(t) \in Labels
  BY DEF AfterProcess, AfterPoll
<1>2. CASE ProcessSize(t)
  <2>1. pc' \in [Threads -> Labels]
    BY <1>1, <1>2, GotoMoves DEF ProcessSize
  <2> QED  BY <1>2, <2>1 DEF ProcessSize, TypeOK, kafka, sink
<1>3. CASE ProcessFront(t)
  <2>1. CASE queue = << >>
    BY <1>3, <2>1, AbortType DEF ProcessFront
  <2>2. CASE queue # << >>
    <3>1. pc' \in [Threads -> Labels]
      BY <1>3, <2>2, GotoMoves DEF ProcessFront
    <3>2. front' \in [Threads -> Nat]
      BY <1>3, <2>2 DEF ProcessFront, TypeOK
    <3> QED  BY <1>3, <2>2, <3>1, <3>2 DEF ProcessFront, TypeOK, kafka, sink
  <2> QED  BY <2>1, <2>2
<1>4. CASE RegisterSchemas(t)
  BY <1>4, AbortType DEF RegisterSchemas, TypeOK, sink
<1>5. CASE ProduceOk(t)
  <2>1. pc' \in [Threads -> Labels]
    BY <1>5, GotoMoves DEF ProduceOk
  <2>2. produced' \in Seq(Nat) /\ Len(produced') = Len(produced) + 1 /\ Len(produced) \in Nat
    BY <1>5 DEF ProduceOk, TypeOK
  <2>3. /\ DOMAIN outq' \subseteq 1..Len(produced')
        /\ \A i \in DOMAIN outq' : outq'[i] \in {"queued", "stored", "failed"}
    BY <1>5, <2>2 DEF ProduceOk, TypeOK
  <2> QED  BY <1>5, <2>1, <2>2, <2>3 DEF ProduceOk, TypeOK, sink
<1>6. CASE ProduceFails(t)
  <2>1. pc' \in [Threads -> Labels]
    BY <1>1, <1>6, GotoMoves DEF ProduceFails
  <2> QED  BY <1>6, <2>1 DEF ProduceFails, TypeOK, kafka, sink
<1>7. CASE UseAfterClose(t)
  BY <1>7, AbortType DEF UseAfterClose
<1>8. CASE ProcessPop(t)
  <2>1. CASE queue = << >>
    BY <1>8, <2>1, AbortType DEF ProcessPop
  <2>2. CASE queue # << >>
    <3>1. pc' \in [Threads -> Labels]
      BY <1>8, <2>2, GotoMoves DEF ProcessPop
    <3>2. queue' \in Seq(Nat) /\ popped' \in Seq(Nat)
      <4>1. queue \in Seq(Nat) /\ popped \in Seq(Nat) /\ Len(queue) > 0
        BY <2>2 DEF TypeOK
      <4>2. Head(queue) \in Nat /\ Tail(queue) \in Seq(Nat)
        BY <4>1
      <4>3. queue' = Tail(queue) /\ popped' = Append(popped, Head(queue))
        BY <1>8, <2>2 DEF ProcessPop
      <4> QED  BY <4>1, <4>2, <4>3
    <3> QED  BY <1>8, <2>2, <3>1, <3>2 DEF ProcessPop, TypeOK, kafka
  <2> QED  BY <2>1, <2>2
<1>9. CASE Poll(t)
  <2>1. CASE FatalReport /\ Abort
    BY <2>1, AbortType
  <2>2. CASE ServeReports /\ Goto(t, AfterPoll(t)) /\ UNCHANGED <<sink, produced, broker, registered, closed, aborted, front>>
    <3>1. pc' \in [Threads -> Labels]
      BY <1>1, <2>2, GotoMoves
    <3>2. /\ DOMAIN outq' \subseteq 1..Len(produced')
          /\ \A i \in DOMAIN outq' : outq'[i] \in {"queued", "stored", "failed"}
      BY <2>2, ServeReportsType DEF TypeOK
    <3> QED  BY <2>2, <3>1, <3>2 DEF TypeOK, sink
  <2> QED  BY <1>9, <2>1, <2>2 DEF Poll
<1> QED
  BY <1>2, <1>3, <1>4, <1>5, <1>6, <1>7, <1>8, <1>9 DEF Process

\* So do the loop of bg_thread and the rest of the destructor.
LEMMA OtherStepType ==
  ASSUME TypeOK, BgInit \/ BgLoop \/ Destroy \/ FlushEof \/ FlushDrain \/ CloseProducer \/ DtorJoin
  PROVE  TypeOK'
<1>1. CASE BgInit \/ BgLoop \/ FlushEof \/ DtorJoin
  <2>1. pc' \in [Threads -> Labels]
    BY <1>1 DEF BgInit, BgLoop, FlushEof, DtorJoin, Goto, TypeOK
  <2> QED  BY <1>1, <2>1 DEF BgInit, BgLoop, FlushEof, DtorJoin, TypeOK, kafka, sink
<1>2. CASE Destroy
  <2>1. pc' \in [Threads -> Labels]
    BY <1>2, GotoMoves DEF Destroy
  <2> QED  BY <1>2, <2>1 DEF Destroy, TypeOK, kafka
<1>3. CASE FlushDrain
  <2>1. CASE FatalReport /\ Abort
    BY <2>1, AbortType
  <2>2. CASE /\ ServeReports
             /\ Goto("dtor", IF DOMAIN outq' = {} THEN "close" ELSE "drain")
             /\ UNCHANGED <<sink, produced, broker, registered, closed, aborted, front>>
    <3>1. pc' \in [Threads -> Labels]
      BY <2>2 DEF Goto, TypeOK
    <3>2. /\ DOMAIN outq' \subseteq 1..Len(produced')
          /\ \A i \in DOMAIN outq' : outq'[i] \in {"queued", "stored", "failed"}
      BY <2>2, ServeReportsType DEF TypeOK
    <3> QED  BY <2>2, <3>1, <3>2 DEF TypeOK, sink
  <2> QED  BY <1>3, <2>1, <2>2 DEF FlushDrain
<1>4. CASE CloseProducer
  <2>1. CASE FatalReport /\ Abort
    BY <2>1, AbortType
  <2>2. CASE ~(FatalReport /\ Abort)
    <3>1. pc' \in [Threads -> Labels]
      BY <1>4, <2>2, GotoMoves DEF CloseProducer
    <3>2. DOMAIN outq' = {}
      BY <1>4, <2>2 DEF CloseProducer
    <3> QED  BY <1>4, <2>2, <3>1, <3>2 DEF CloseProducer, TypeOK, sink
  <2> QED  BY <2>1, <2>2
<1> QED  BY <1>1, <1>2, <1>3, <1>4

\* Every step keeps the types.
LEMMA NextType == TypeOK /\ [Next]_vars => TypeOK'
<1> SUFFICES ASSUME TypeOK, [Next]_vars PROVE TypeOK'
  OBVIOUS
<1>1. CASE push_back
  BY <1>1, BoundsAssumption DEF push_back, TypeOK, kafka
<1>2. CASE BgThread
  BY <1>2, ThreadStepType, OtherStepType DEF BgThread
<1>3. CASE DtorThread
  BY <1>3, ThreadStepType, OtherStepType DEF DtorThread
<1>4. CASE Destroy
  BY <1>4, OtherStepType
<1>5. ASSUME NEW i \in DOMAIN outq, BrokerStores(i) \/ BrokerAcks(i) \/ DeliveryFails(i)
      PROVE  TypeOK'
  <2>0. i \in 1..Len(produced) /\ produced \in Seq(Nat) /\ produced[i] \in Nat
    BY <1>5 DEF TypeOK
  <2>1. CASE BrokerStores(i)
    <3>1. broker' = broker \cup {produced[i]}
      BY <2>1 DEF BrokerStores
    <3>2. UNCHANGED <<sink, produced, outq, registered, closed, aborted, pc, front>>
      BY <2>1 DEF BrokerStores
    <3> QED  BY <2>0, <3>1, <3>2 DEF TypeOK, sink
  <2>2. CASE BrokerAcks(i) \/ DeliveryFails(i)
    <3>1. PICK r \in {"stored", "failed"} : outq' = [outq EXCEPT ![i] = r]
      BY <2>2 DEF BrokerAcks, DeliveryFails
    <3>2. DOMAIN outq' = DOMAIN outq /\ \A j \in DOMAIN outq : outq'[j] \in {outq[j], r}
      BY <3>1
    <3>3. UNCHANGED <<sink, produced, broker, registered, closed, aborted, pc, front>>
      BY <2>2 DEF BrokerAcks, DeliveryFails
    <3> QED  BY <3>1, <3>2, <3>3 DEF TypeOK, sink
  <2> QED  BY <1>5, <2>1, <2>2
<1>6. CASE ProcessExits
  BY <1>6, AbortType DEF ProcessExits
<1>7. CASE UNCHANGED vars
  BY <1>7 DEF TypeOK, vars
<1> QED
  BY <1>1, <1>2, <1>3, <1>4, <1>5, <1>6, <1>7 DEF Next, Librdkafka

\* The sink's variables keep their types for ever.
THEOREM TypeCorrect == Spec => []TypeOK
BY InitType, NextType, PTL DEF Spec

-----------------------------------------------------------------------------
(* FIFO hand-over *)

\* Once the destructor has started it has not "not started".
LEMMA DtorLeavesNone ==
  ASSUME TypeOK, Destroy \/ DtorThread
  PROVE  pc'["dtor"] # "none"
<1>1. CASE Destroy \/ FlushEof \/ DtorJoin
  BY <1>1 DEF Destroy, FlushEof, DtorJoin, Goto, TypeOK
<1>2. CASE FlushDrain \/ CloseProducer
  BY <1>2 DEF FlushDrain, CloseProducer, Goto, TypeOK, At, Abort
<1>3. CASE Poll("dtor")
  BY <1>3 DEF Poll, Goto, TypeOK, At, Abort, AfterPoll
<1>4. CASE Process("dtor")
  <2>1. CASE ProcessSize("dtor") \/ ProduceFails("dtor")
    BY <2>1 DEF ProcessSize, ProduceFails, Goto, TypeOK, AfterProcess
  <2>2. CASE ProcessFront("dtor") \/ ProcessPop("dtor")
    BY <2>2 DEF ProcessFront, ProcessPop, Goto, TypeOK, At, Abort
  <2>3. CASE RegisterSchemas("dtor") \/ ProduceOk("dtor") \/ UseAfterClose("dtor")
    BY <2>3 DEF RegisterSchemas, ProduceOk, UseAfterClose, Goto, TypeOK, At, Abort
  <2> QED  BY <1>4, <2>1, <2>2, <2>3 DEF Process
<1> QED  BY <1>1, <1>2, <1>3, <1>4 DEF DtorThread

Fifo == HeadInHand /\ FifoHandOver

\* The queue of a push and of a pop.
LEMMA PopFacts ==
  ASSUME NEW q \in Seq(Nat), Len(q) > 0
  PROVE  /\ Tail(q) \in Seq(Nat) /\ Len(Tail(q)) = Len(q) - 1
         /\ Head(q) = q[1]
         /\ \A i \in 1..Len(Tail(q)) : Tail(q)[i] = q[i + 1]
OBVIOUS

\* bg_thread does not move the destructor.
LEMMA BgKeepsDtor ==
  ASSUME TypeOK, BgThread
  PROVE  pc'["dtor"] = pc["dtor"]
<1>1. CASE BgInit \/ BgLoop
  BY <1>1 DEF BgInit, BgLoop, Goto, TypeOK
<1>2. CASE Poll("bg")
  BY <1>2 DEF Poll, Goto, TypeOK, Abort
<1>3. CASE ProcessSize("bg") \/ ProduceFails("bg") \/ ProcessFront("bg") \/ ProcessPop("bg")
  BY <1>3 DEF ProcessSize, ProduceFails, ProcessFront, ProcessPop, Goto, TypeOK, Abort
<1>4. CASE RegisterSchemas("bg") \/ ProduceOk("bg") \/ UseAfterClose("bg")
  BY <1>4 DEF RegisterSchemas, ProduceOk, UseAfterClose, Goto, TypeOK, Abort
<1> QED  BY <1>1, <1>2, <1>3, <1>4 DEF BgThread, Process

\* The hand-over does not depend on librdkafka's queue, the broker or _run.
LEMMA SameHandOver ==
  ASSUME Fifo, UNCHANGED <<queue, pushed, produced, closed, front, pc>>
  PROVE  Fifo'
BY DEF Fifo, HeadInHand, FifoHandOver

\* What bg_thread does to the hand-over while the destructor has not started.
LEMMA BgStepFifo ==
  ASSUME TypeOK, Fifo, BgThread, pc["dtor"] = "none"
  PROVE  Fifo'
<1>0. /\ ~closed /\ closed \in BOOLEAN
      /\ pc["bg"] \in {"front", "produce", "pop"} => Len(queue) > 0
      /\ pc["bg"] \in {"produce", "pop"} => front["bg"] = queue[1]
  BY DEF Fifo, HeadInHand, TypeOK
<1>1. CASE BgInit \/ BgLoop
  <2>1. pc'["dtor"] = "none" /\ pc'["bg"] \in {"loop", "poll", "exited"} /\ pc["bg"] \in {"init", "loop"}
    BY <1>1 DEF BgInit, BgLoop, Goto, TypeOK, At
  <2>2. UNCHANGED <<queue, pushed, produced, closed, front>>
    BY <1>1 DEF BgInit, BgLoop, kafka, sink
  <2>3. HeadInHand'
    BY <1>0, <2>1, <2>2 DEF HeadInHand
  <2>4. FifoHandOver'
    BY <2>1, <2>2 DEF Fifo, FifoHandOver
  <2> QED  BY <2>3, <2>4 DEF Fifo
<1>2. CASE Poll("bg")
  <2>1. CASE Abort
    BY <2>1 DEF Abort, Fifo, HeadInHand, FifoHandOver, kafka, sink
  <2>2. CASE ~Abort
    <3>1. pc'["dtor"] = "none" /\ pc'["bg"] = "size" /\ pc["bg"] = "poll"
      BY <1>2, <2>2 DEF Poll, Goto, TypeOK, At, AfterPoll
    <3> QED  BY <1>0, <1>2, <2>2, <3>1 DEF Fifo, HeadInHand, FifoHandOver, Poll, sink
  <2> QED  BY <2>1, <2>2
<1>3. CASE ProcessSize("bg")
  <2>1. /\ pc'["dtor"] = "none" /\ pc["bg"] = "size"
        /\ pc'["bg"] \in {"loop", "front"} /\ (pc'["bg"] = "front" => queue # << >>)
    BY <1>3 DEF ProcessSize, Goto, TypeOK, At, AfterProcess
  <2>2. queue # << >> => Len(queue) > 0
    BY DEF TypeOK
  <2> QED  BY <1>0, <1>3, <2>1, <2>2 DEF Fifo, HeadInHand, FifoHandOver, ProcessSize, kafka, sink
<1>4. CASE ProcessFront("bg")
  <2>1. Len(queue) > 0 /\ queue # << >> /\ Head(queue) = queue[1] /\ pc["bg"] = "front"
    BY <1>0, <1>4, PopFacts DEF ProcessFront, At, TypeOK
  <2>2. pc'["dtor"] = "none" /\ pc'["bg"] = "produce" /\ front'["bg"] = queue[1]
    BY <1>4, <2>1 DEF ProcessFront, Goto, TypeOK
  <2> QED  BY <1>0, <1>4, <2>1, <2>2 DEF Fifo, HeadInHand, FifoHandOver, ProcessFront, kafka, sink
<1>5. CASE RegisterSchemas("bg")
  <2>1. UNCHANGED <<queue, pushed, produced, closed, front, pc>>
    BY <1>5 DEF RegisterSchemas, Abort, kafka, sink
  <2> QED  BY <2>1, SameHandOver
<1>6. CASE ProduceOk("bg")
  <2>1. pc'["dtor"] = "none" /\ pc'["bg"] = "pop" /\ pc["bg"] = "produce"
    BY <1>6 DEF ProduceOk, Goto, TypeOK, At
  <2>2. /\ produced \in Seq(Nat) /\ produced' = Append(produced, queue[1]) /\ Len(queue) \in Nat
        /\ Len(queue) > 0 /\ queue[1] = Len(produced) + 1
    BY <1>0, <1>6, <2>1 DEF ProduceOk, TypeOK, Fifo, FifoHandOver
  <2>3. /\ Len(produced') = Len(produced) + 1
        /\ \A i \in 1..Len(produced') : produced'[i] = i
    BY <1>6, <2>1, <2>2 DEF Fifo, FifoHandOver
  <2>4. UNCHANGED <<queue, pushed, front, closed>>
    BY <1>6 DEF ProduceOk, sink
  <2>5. HeadInHand'
    BY <1>0, <2>1, <2>4 DEF HeadInHand
  <2>6. FifoHandOver'
    BY <2>1, <2>2, <2>3, <2>4 DEF Fifo, FifoHandOver
  <2> QED  BY <2>5, <2>6 DEF Fifo
<1>7. CASE ProduceFails("bg")
  <2>1. pc'["dtor"] = "none" /\ pc'["bg"] = "loop" /\ pc["bg"] = "produce"
    BY <1>7 DEF ProduceFails, Goto, TypeOK, At, AfterProcess
  <2> QED  BY <1>0, <1>7, <2>1 DEF Fifo, HeadInHand, FifoHandOver, ProduceFails, kafka, sink
<1>8. CASE UseAfterClose("bg")
  BY <1>0, <1>8 DEF UseAfterClose
<1>9. CASE ProcessPop("bg")
  <2>1. Len(queue) > 0 /\ queue # << >> /\ queue \in Seq(Nat) /\ pc["bg"] = "pop"
    BY <1>0, <1>9 DEF ProcessPop, At, TypeOK
  <2>2. /\ pc'["dtor"] = "none" /\ pc'["bg"] = "size" /\ queue' = Tail(queue)
        /\ UNCHANGED <<produced, pushed, closed>>
    BY <1>9, <2>1 DEF ProcessPop, Goto, TypeOK, kafka
  <2>3. /\ Len(queue') = Len(queue) - 1 /\ Len(queue) \in Nat
        /\ \A i \in 1..Len(queue') : queue'[i] = queue[i + 1]
    BY <2>1, <2>2, PopFacts
  <2>4. Len(produced) \in Nat
    BY DEF TypeOK
  <2>5. HeadInHand'
    BY <1>0, <2>2 DEF HeadInHand
  <2>6. FifoHandOver'
    BY <2>1, <2>2, <2>3, <2>4 DEF Fifo, FifoHandOver
  <2> QED  BY <2>5, <2>6 DEF Fifo
<1> QED
  BY <1>1, <1>2, <1>3, <1>4, <1>5, <1>6, <1>7, <1>8, <1>9 DEF BgThread, Process

\* The grpc thread appends the next message.
LEMMA PushFifo ==
  ASSUME TypeOK, Fifo, push_back
  PROVE  Fifo'
<1>1. /\ pc["dtor"] = "none" /\ pushed' = pushed + 1 /\ queue' = Append(queue, pushed + 1)
      /\ UNCHANGED <<produced, closed, pc, front>>
  BY DEF push_back, kafka
<1>2. queue \in Seq(Nat) /\ pushed \in Nat /\ Len(queue) \in Nat /\ Len(produced) \in Nat
  BY BoundsAssumption DEF TypeOK
<1>3. /\ Len(queue') = Len(queue) + 1
      /\ \A i \in 1..Len(queue) : queue'[i] = queue[i]
      /\ queue'[Len(queue) + 1] = pushed + 1
  BY <1>1, <1>2
<1>4. HeadInHand'
  BY <1>1, <1>2, <1>3 DEF Fifo, HeadInHand
<1>5. FifoHandOver'
  <2>0. Len(produced) - (IF pc["bg"] = "pop" THEN 1 ELSE 0) \in Int
    BY <1>2
  <2>1. PICK n \in Int : n = Len(produced) - (IF pc["bg"] = "pop" THEN 1 ELSE 0)
    BY <2>0, Zenon
  <2>2. /\ \A i \in 1..Len(produced) : produced[i] = i
        /\ \A i \in 1..Len(queue) : queue[i] = n + i
        /\ n + Len(queue) = pushed
    BY <1>1, <2>1 DEF Fifo, FifoHandOver
  <2>3. ASSUME NEW i \in 1..Len(queue')
        PROVE  queue'[i] = n + i
    <3>1. CASE i \in 1..Len(queue)
      BY <1>3, <2>2, <3>1
    <3>2. CASE i = Len(queue) + 1
      <4>1. n + i = pushed + 1
        BY <1>2, <2>2, <3>2
      <4> QED  BY <1>3, <3>2, <4>1
    <3> QED  BY <1>2, <1>3, <3>1, <3>2
  <2>4. n + Len(queue') = pushed'
    BY <1>1, <1>2, <1>3, <2>2
  <2> QED  BY <1>1, <2>1, <2>2, <2>3, <2>4 DEF FifoHandOver
<1> QED  BY <1>4, <1>5 DEF Fifo

\* Init and every step keep the hand-over in order.
LEMMA InitFifo == Init => Fifo
BY BoundsAssumption DEF Init, Fifo, HeadInHand, FifoHandOver

\* No step takes the hand-over out of order.
LEMMA NextFifo == TypeOK /\ Fifo /\ [Next]_vars => Fifo'
<1> SUFFICES ASSUME TypeOK, Fifo, [Next]_vars PROVE Fifo'
  OBVIOUS
<1>1. CASE push_back
  BY <1>1, PushFifo
<1>2. CASE Destroy \/ DtorThread
  BY <1>2, DtorLeavesNone DEF Fifo, HeadInHand, FifoHandOver
<1>3. CASE BgThread
  <2>1. CASE pc["dtor"] = "none"
    BY <1>3, <2>1, BgStepFifo
  <2>2. CASE pc["dtor"] # "none"
    <3>1. pc'["dtor"] = pc["dtor"]
      BY <1>3, BgKeepsDtor
    <3> QED  BY <2>2, <3>1 DEF Fifo, HeadInHand, FifoHandOver
  <2> QED  BY <2>1, <2>2
<1>4. CASE Librdkafka \/ ProcessExits \/ UNCHANGED vars
  <2>1. UNCHANGED <<queue, pushed, produced, closed, front, pc>>
    BY <1>4 DEF Librdkafka, BrokerStores, BrokerAcks, DeliveryFails, ProcessExits, Abort, vars, kafka, sink
  <2> QED  BY <2>1, SameHandOver
<1> QED  BY <1>1, <1>2, <1>3, <1>4 DEF Next

(***************************************************************************)
(* bg_thread hands the pushed messages to librdkafka in order, none        *)
(* skipped and none twice, until the destructor starts.                    *)
(***************************************************************************)
THEOREM HandOverIsFifo == Spec => []FifoHandOver
<1>1. Init => TypeOK /\ Fifo
  BY InitType, InitFifo
<1>2. TypeOK /\ Fifo /\ [Next]_vars => (TypeOK /\ Fifo)'
  BY NextType, NextFifo
<1>3. TypeOK /\ Fifo => FifoHandOver
  BY DEF Fifo
<1> QED  BY <1>1, <1>2, <1>3, PTL DEF Spec

-----------------------------------------------------------------------------
(* Nothing is lost *)

\* Steps that leave librdkafka alone, or end it.
LEMMA SameHeld ==
  ASSUME HeldOrStored, UNCHANGED <<outq, produced, broker>>, closed => closed'
  PROVE  HeldOrStored'
BY DEF HeldOrStored

\* A poll forgets only what Kafka has stored.
LEMMA ServeHeld ==
  ASSUME TypeOK, HeldOrStored, ServeReports, UNCHANGED <<produced, broker, closed>>
  PROVE  HeldOrStored'
BY ServeReportsType DEF HeldOrStored, TypeOK

\* A message that librdkafka takes is held by it.
LEMMA ProduceHeld ==
  ASSUME TypeOK, HeldOrStored, NEW t \in Threads, ProduceOk(t)
  PROVE  HeldOrStored'
<1>1. PICK n \in Nat : n = Len(produced)
  BY DEF TypeOK
<1>2. /\ produced' = Append(produced, front[t]) /\ UNCHANGED <<broker, closed>>
      /\ outq' = [i \in DOMAIN outq \cup {n + 1} |-> IF i \in DOMAIN outq THEN outq[i] ELSE "queued"]
  BY <1>1 DEF ProduceOk
<1>3. /\ Len(produced') = n + 1
      /\ \A i \in 1..n : produced'[i] = produced[i]
  BY <1>1, <1>2 DEF TypeOK
<1>4. DOMAIN outq \subseteq 1..n /\ DOMAIN outq' = DOMAIN outq \cup {n + 1}
  BY <1>1, <1>2 DEF TypeOK
<1>5. \A i \in DOMAIN outq' : outq'[i] = "stored" => produced'[i] \in broker'
  BY <1>2, <1>3, <1>4 DEF HeldOrStored
<1>6. ~closed' => \A i \in 1..Len(produced') : i \in DOMAIN outq' \/ produced'[i] \in broker'
  BY <1>1, <1>2, <1>3, <1>4 DEF HeldOrStored
<1> QED  BY <1>5, <1>6 DEF HeldOrStored

\* librdkafka's own steps: an acknowledgement is for a stored message.
LEMMA LibrdkafkaHeld ==
  ASSUME TypeOK, HeldOrStored, NEW i \in DOMAIN outq,
         BrokerStores(i) \/ BrokerAcks(i) \/ DeliveryFails(i)
  PROVE  HeldOrStored'
<1>1. CASE BrokerStores(i)
  BY <1>1 DEF BrokerStores, HeldOrStored
<1>2. CASE BrokerAcks(i)
  BY <1>2 DEF BrokerAcks, HeldOrStored
<1>3. CASE DeliveryFails(i)
  BY <1>3 DEF DeliveryFails, HeldOrStored
<1> QED  BY <1>1, <1>2, <1>3

\* Every step of process() and poll() of either thread.
LEMMA ThreadHeld ==
  ASSUME TypeOK, HeldOrStored, NEW t \in Threads, Process(t) \/ Poll(t)
  PROVE  HeldOrStored'
<1>1. CASE Abort
  BY <1>1, SameHeld DEF Abort, kafka
<1>2. CASE ProduceOk(t)
  BY <1>2, ProduceHeld
<1>3. CASE Poll(t) /\ ~Abort
  <2>1. ServeReports /\ UNCHANGED <<produced, broker, closed>>
    BY <1>3 DEF Poll
  <2> QED  BY <2>1, ServeHeld
<1>4. CASE ~Abort /\ (ProcessSize(t) \/ ProcessFront(t) \/ RegisterSchemas(t)
                     \/ ProduceFails(t) \/ UseAfterClose(t) \/ ProcessPop(t))
  <2>1. UNCHANGED <<outq, produced, broker, closed>>
    BY <1>4 DEF ProcessSize, ProcessFront, RegisterSchemas, ProduceFails, UseAfterClose, ProcessPop, kafka
  <2> QED  BY <2>1, SameHeld
<1> QED  BY <1>1, <1>2, <1>3, <1>4 DEF Process

\* The destructor's own steps; close() drops what it could not deliver.
LEMMA DtorHeld ==
  ASSUME TypeOK, HeldOrStored, FlushDrain \/ CloseProducer
  PROVE  HeldOrStored'
<1>1. CASE Abort
  BY <1>1, SameHeld DEF Abort, kafka
<1>2. CASE FlushDrain /\ ~Abort
  <2>1. ServeReports /\ UNCHANGED <<produced, broker, closed>>
    BY <1>2 DEF FlushDrain
  <2> QED  BY <2>1, ServeHeld
<1>3. CASE CloseProducer /\ ~Abort
  <2>1. closed' = TRUE /\ DOMAIN outq' = {}
    BY <1>3 DEF CloseProducer
  <2> QED  BY <2>1 DEF HeldOrStored
<1> QED  BY <1>1, <1>2, <1>3

\* Every step keeps what Kafka does not have.
LEMMA NextHeld == TypeOK /\ HeldOrStored /\ [Next]_vars => HeldOrStored'
<1> SUFFICES ASSUME TypeOK, HeldOrStored, [Next]_vars PROVE HeldOrStored'
  OBVIOUS
<1>1. CASE Process("bg") \/ Poll("bg") \/ Process("dtor") \/ Poll("dtor")
  BY <1>1, ThreadHeld
<1>2. CASE FlushDrain \/ CloseProducer
  BY <1>2, DtorHeld
<1>3. CASE Librdkafka
  BY <1>3, LibrdkafkaHeld DEF Librdkafka
<1>4. CASE push_back \/ BgInit \/ BgLoop \/ Destroy \/ FlushEof \/ DtorJoin
           \/ ProcessExits \/ UNCHANGED vars
  <2>1. UNCHANGED <<outq, produced, broker, closed>>
    BY <1>4 DEF push_back, BgInit, BgLoop, Destroy, FlushEof, DtorJoin, ProcessExits, Abort, kafka, vars
  <2> QED  BY <2>1, SameHeld
<1> QED  BY <1>1, <1>2, <1>3, <1>4 DEF Next, BgThread, DtorThread

\* The strengthened invariant implies that nothing is lost.
LEMMA HeldMeansNothingLost ==
  ASSUME TypeOK, Fifo, HeldOrStored
  PROVE  NothingLost
<1> SUFFICES ASSUME pc["dtor"] = "none", NEW m \in 1..pushed
             PROVE  \/ \E i \in 1..Len(queue) : queue[i] = m
                    \/ \E i \in DOMAIN outq : produced[i] = m
                    \/ m \in broker
  BY DEF NothingLost
<1>0. Len(produced) \in Nat /\ Len(queue) \in Nat /\ pushed \in Nat /\ m \in Nat /\ m > 0
  BY BoundsAssumption DEF TypeOK
<1>a. Len(produced) - (IF pc["bg"] = "pop" THEN 1 ELSE 0) \in Int
  BY <1>0
<1>1. PICK n \in Int : n = Len(produced) - (IF pc["bg"] = "pop" THEN 1 ELSE 0)
  BY <1>a, Zenon
<1>2. /\ \A i \in 1..Len(produced) : produced[i] = i
      /\ \A i \in 1..Len(queue) : queue[i] = n + i
      /\ n + Len(queue) = pushed
  BY <1>1 DEF Fifo, FifoHandOver
<1>3. CASE m > n
  <2>1. m - n \in 1..Len(queue) /\ queue[m - n] = m
    BY <1>0, <1>2, <1>3
  <2> QED  BY <2>1
<1>4. CASE m <= n
  <2>1. m \in 1..Len(produced) /\ produced[m] = m
    BY <1>0, <1>1, <1>2, <1>4
  <2>2. m \in DOMAIN outq \/ produced[m] \in broker
    BY <2>1 DEF Fifo, HeadInHand, HeldOrStored
  <2> QED  BY <2>1, <2>2
<1> QED  BY <1>0, <1>3, <1>4

(***************************************************************************)
(* Until the destructor starts or the process dies, every pushed message   *)
(* is in the queue, held by librdkafka or stored by Kafka.                 *)
(***************************************************************************)
THEOREM NothingIsLost == Spec => []NothingLost
<1>1. Init => IInv
  <2>1. Init => HeldOrStored
    BY DEF Init, HeldOrStored
  <2> QED  BY <2>1, InitType, InitFifo DEF IInv, Fifo
<1>2. IInv /\ [Next]_vars => IInv'
  BY NextType, NextFifo, NextHeld DEF IInv, Fifo
<1>3. IInv => NothingLost
  BY HeldMeansNothingLost DEF IInv, Fifo
<1> QED  BY <1>1, <1>2, <1>3, PTL DEF Spec

-----------------------------------------------------------------------------
(* Pops and produces, the destructor beside bg_thread *)

\* How many of the two threads are between a produce and its pop.
Popping == (IF pc["bg"] = "pop" THEN 1 ELSE 0) + (IF pc["dtor"] = "pop" THEN 1 ELSE 0)

\* PopsMatchProduces without its cardinality, and what push_back relies on: a
\* message that was pushed is in the queue or was popped.
Paired ==
  /\ Len(produced) = Len(popped) + Popping
  /\ pushed = Len(popped) + Len(queue)
  /\ \A i \in 1..Len(popped) : popped[i] = i
  /\ \A i \in 1..Len(queue) : queue[i] = Len(popped) + i

\* Counting two threads.
LEMMA PoppingCounts == Cardinality({ t \in Threads : pc[t] = "pop" }) = Popping
<1> DEFINE P == { t \in Threads : pc[t] = "pop" }
<1>1. CASE pc["bg"] = "pop" /\ pc["dtor"] = "pop"
  <2>1. P = {"bg"} \cup {"dtor"}
    BY <1>1
  <2>2. Cardinality({"bg"} \cup {"dtor"}) = Cardinality({"bg"}) + 1 /\ Cardinality({"bg"}) = 1
    BY FS_Singleton, FS_AddElement
  <2> QED  BY <1>1, <2>1, <2>2 DEF Popping
<1>2. CASE pc["bg"] = "pop" /\ pc["dtor"] # "pop"
  <2>1. P = {"bg"}
    BY <1>2
  <2> QED  BY <1>2, <2>1, FS_Singleton DEF Popping
<1>3. CASE pc["bg"] # "pop" /\ pc["dtor"] = "pop"
  <2>1. P = {"dtor"}
    BY <1>3
  <2> QED  BY <1>3, <2>1, FS_Singleton DEF Popping
<1>4. CASE pc["bg"] # "pop" /\ pc["dtor"] # "pop"
  <2>1. P = {}
    BY <1>4
  <2> QED  BY <1>4, <2>1, FS_EmptySet DEF Popping
<1> QED  BY <1>1, <1>2, <1>3, <1>4

\* A step that neither produces nor pops, and moves no thread to or from "pop".
LEMMA SamePairs ==
  ASSUME Paired, UNCHANGED <<produced, popped, pushed, queue>>, Popping' = Popping
  PROVE  Paired'
BY DEF Paired

\* A thread that goes from one label to another, neither of them "pop".
LEMMA GotoElsewhere ==
  ASSUME TypeOK, NEW t \in Threads, NEW l \in Labels, Goto(t, l), pc[t] # "pop", l # "pop"
  PROVE  Popping' = Popping
BY GotoMoves DEF Popping

\* An accepted produce puts its thread before a pop, and a pop follows it up.
LEMMA ThreadPairs ==
  ASSUME TypeOK, Paired, NEW t \in Threads, Process(t) \/ Poll(t)
  PROVE  Paired'
<1>0. /\ queue \in Seq(Nat) /\ popped \in Seq(Nat) /\ produced \in Seq(Nat) /\ front[t] \in Nat
      /\ Len(queue) \in Nat /\ Len(popped) \in Nat /\ Len(produced) \in Nat /\ Popping \in Nat
  BY DEF TypeOK, Popping
<1>1. CASE Abort
  <2>1. UNCHANGED <<produced, popped, pushed, queue, pc>>
    BY <1>1 DEF Abort, kafka, sink
  <2> QED  BY <2>1, SamePairs DEF Popping
<1>2. CASE ProcessSize(t) \/ ProduceFails(t)
  <2>1. UNCHANGED <<produced, popped, pushed, queue>>
    BY <1>2 DEF ProcessSize, ProduceFails, kafka, sink
  <2>2. PICK l \in Labels : Goto(t, l) /\ l # "pop" /\ pc[t] # "pop"
    BY <1>2 DEF ProcessSize, ProduceFails, AfterProcess, At
  <2> QED  BY <2>1, <2>2, GotoElsewhere, SamePairs
<1>3. CASE ProcessFront(t) /\ ~Abort
  <2>1. UNCHANGED <<produced, popped, pushed, queue>> /\ Goto(t, "produce") /\ pc[t] # "pop"
    BY <1>3 DEF ProcessFront, kafka, sink, At
  <2> QED  BY <2>1, GotoElsewhere, SamePairs
<1>4. CASE RegisterSchemas(t) /\ ~Abort
  <2>1. UNCHANGED <<produced, popped, pushed, queue, pc>>
    BY <1>4 DEF RegisterSchemas, kafka, sink
  <2> QED  BY <2>1, SamePairs DEF Popping
<1>5. CASE Poll(t) /\ ~Abort
  <2>1. UNCHANGED <<produced, popped, pushed, queue>> /\ Goto(t, AfterPoll(t)) /\ pc[t] # "pop"
    BY <1>5 DEF Poll, sink, At
  <2>2. AfterPoll(t) \in Labels /\ AfterPoll(t) # "pop"
    BY DEF AfterPoll
  <2> QED  BY <2>1, <2>2, GotoElsewhere, SamePairs
<1>6. CASE UseAfterClose(t)
  BY <1>1, <1>6 DEF UseAfterClose
<1>7. CASE ProduceOk(t)
  <2>1. UNCHANGED <<popped, pushed, queue>> /\ produced' = Append(produced, front[t]) /\ pc[t] = "produce"
        /\ Goto(t, "pop")
    BY <1>7 DEF ProduceOk, sink, At
  <2>2. Len(produced') = Len(produced) + 1
    BY <1>0, <2>1
  <2>3. Popping' = Popping + 1
    BY <2>1, GotoMoves DEF Popping
  <2> QED  BY <1>0, <2>1, <2>2, <2>3 DEF Paired
<1>8. CASE ProcessPop(t) /\ ~Abort
  <2>1. /\ queue # << >> /\ popped' = Append(popped, Head(queue)) /\ queue' = Tail(queue)
        /\ pc[t] = "pop" /\ Goto(t, "size") /\ UNCHANGED <<produced, pushed>>
    BY <1>8 DEF ProcessPop, kafka, At
  <2>2. Popping' = Popping - 1
    BY <2>1, GotoMoves DEF Popping
  <2>3. /\ Len(queue) > 0 /\ Len(queue') = Len(queue) - 1 /\ Head(queue) = queue[1]
        /\ \A i \in 1..Len(queue') : queue'[i] = queue[i + 1]
    BY <1>0, <2>1, PopFacts
  <2>4. Head(queue) = Len(popped) + 1
    BY <1>0, <2>3 DEF Paired
  <2>5. /\ Len(popped') = Len(popped) + 1 /\ popped'[Len(popped) + 1] = Len(popped) + 1
        /\ \A i \in 1..Len(popped) : popped'[i] = popped[i]
    BY <1>0, <2>1, <2>4
  <2>6. ASSUME NEW i \in 1..Len(popped') PROVE popped'[i] = i
    <3>1. CASE i = Len(popped) + 1
      BY <2>5, <3>1
    <3>2. CASE i \in 1..Len(popped)
      BY <2>5, <3>2 DEF Paired
    <3> QED  BY <1>0, <2>5, <3>1, <3>2
  <2>7. \A i \in 1..Len(queue') : queue'[i] = Len(popped') + i
    BY <1>0, <2>3, <2>5 DEF Paired
  <2>8. Len(produced') = Len(popped') + Popping' /\ pushed' = Len(popped') + Len(queue')
    <3>1. /\ Len(produced) = Len(popped) + Popping /\ pushed = Len(popped) + Len(queue)
          /\ produced' = produced /\ pushed' = pushed
      BY <2>1 DEF Paired
    <3> HIDE DEF Popping
    <3> QED  BY <1>0, <2>2, <2>3, <2>5, <3>1
  <2> QED  BY <2>6, <2>7, <2>8 DEF Paired
<1> QED
  BY <1>1, <1>2, <1>3, <1>4, <1>5, <1>6, <1>7, <1>8 DEF Process

\* The loop of bg_thread and the destructor's other steps pop nothing.
LEMMA OtherPairs ==
  ASSUME TypeOK, Paired,
         BgInit \/ BgLoop \/ Destroy \/ FlushEof \/ FlushDrain \/ CloseProducer \/ DtorJoin
  PROVE  Paired'
<1>1. CASE Abort
  <2>1. UNCHANGED <<produced, popped, pushed, queue, pc>>
    BY <1>1 DEF Abort, kafka, sink
  <2> QED  BY <2>1, SamePairs DEF Popping
<1>2. CASE ~Abort
  <2>1. UNCHANGED <<produced, popped, pushed, queue>>
    BY <1>2 DEF BgInit, BgLoop, Destroy, FlushEof, FlushDrain, CloseProducer, DtorJoin, kafka, sink
  <2>2. PICK t \in Threads, l \in Labels : Goto(t, l) /\ l # "pop" /\ pc[t] # "pop"
    <3>1. CASE BgInit \/ BgLoop
      BY <3>1 DEF BgInit, BgLoop, At
    <3>2. CASE Destroy \/ FlushEof \/ DtorJoin
      BY <3>2 DEF Destroy, FlushEof, DtorJoin, At
    <3>3. CASE FlushDrain \/ CloseProducer
      BY <1>2, <3>3 DEF FlushDrain, CloseProducer, At
    <3> QED  BY <3>1, <3>2, <3>3
  <2> QED  BY <2>1, <2>2, GotoElsewhere, SamePairs
<1> QED  BY <1>1, <1>2

\* Every step keeps produces and pops in pairs.
LEMMA NextPairs == TypeOK /\ Paired /\ [Next]_vars => Paired'
<1> SUFFICES ASSUME TypeOK, Paired, [Next]_vars PROVE Paired'
  OBVIOUS
<1>1. CASE Process("bg") \/ Poll("bg") \/ Process("dtor") \/ Poll("dtor")
  BY <1>1, ThreadPairs
<1>2. CASE BgInit \/ BgLoop \/ Destroy \/ FlushEof \/ FlushDrain \/ CloseProducer \/ DtorJoin
  BY <1>2, OtherPairs
<1>3. CASE push_back
  <2>0. /\ queue \in Seq(Nat) /\ Len(queue) \in Nat /\ Len(popped) \in Nat /\ pushed \in Nat
    BY BoundsAssumption DEF TypeOK
  <2>1. /\ pushed' = pushed + 1 /\ queue' = Append(queue, pushed + 1)
        /\ UNCHANGED <<popped, produced, pc>>
    BY <1>3 DEF push_back, kafka
  <2>2. /\ Len(queue') = Len(queue) + 1 /\ queue'[Len(queue) + 1] = pushed + 1
        /\ \A i \in 1..Len(queue) : queue'[i] = queue[i]
    BY <2>0, <2>1
  <2>3. ASSUME NEW i \in 1..Len(queue') PROVE queue'[i] = Len(popped) + i
    <3>1. CASE i = Len(queue) + 1
      <4>1. pushed = Len(popped) + Len(queue)
        BY DEF Paired
      <4> QED  BY <2>0, <2>2, <3>1, <4>1
    <3>2. CASE i \in 1..Len(queue)
      BY <2>2, <3>2 DEF Paired
    <3> QED  BY <2>0, <2>2, <3>1, <3>2
  <2>4. pushed' = Len(popped') + Len(queue')
    BY <2>0, <2>1, <2>2 DEF Paired
  <2> QED  BY <2>1, <2>3, <2>4 DEF Paired, Popping
<1>4. CASE Librdkafka \/ ProcessExits \/ UNCHANGED vars
  <2>1. UNCHANGED <<produced, popped, pushed, queue, pc>>
    BY <1>4 DEF Librdkafka, BrokerStores, BrokerAcks, DeliveryFails, ProcessExits, Abort, vars, kafka, sink
  <2> QED  BY <2>1, SamePairs DEF Popping
<1> QED  BY <1>1, <1>2, <1>3, <1>4 DEF Next, BgThread, DtorThread

(***************************************************************************)
(* With the destructor draining the queue beside bg_thread too, every pop  *)
(* follows one accepted produce of its thread, and the queue gives up its  *)
(* messages in order.                                                      *)
(***************************************************************************)
THEOREM PopsFollowProduces == Spec => []PopsMatchProduces
<1>1. Init => Paired
  BY DEF Init, Paired, Popping
<1>2. Paired => PopsMatchProduces
  BY PoppingCounts DEF Paired, PopsMatchProduces
<1> QED  BY <1>1, <1>2, InitType, NextType, NextPairs, PTL DEF Spec
=============================================================================
