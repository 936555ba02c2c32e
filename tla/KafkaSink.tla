------------------------------ MODULE KafkaSink ------------------------------
(***************************************************************************)
(* bb_kafka_sink over bb::kafka_producer: the ingestion server's path from *)
(* an accepted call to Kafka.  The grpc thread pushes messages on _queue;  *)
(* the sink's bg_thread hands them to librdkafka, whose own queue is       *)
(* bounded, and polls it for delivery reports.  A report with an error, or *)
(* a schema that cannot be registered, is a LOG(FATAL): the process dies.  *)
(* The destructor stops bg_thread and drains the queue on its own thread   *)
(* before it joins bg_thread.                                              *)
(*                                                                         *)
(* _queue (kspp::event_queue) is external: each operation is atomic, but   *)
(* size, front and pop_front are separate calls.  librdkafka is external:  *)
(* it refuses a message when it holds OutqMax of them, or for a reason of  *)
(* the message itself (Rejected, e.g. too large); it writes the messages   *)
(* it holds to the broker in any order, or gives up on one.                *)
(***************************************************************************)
EXTENDS Integers, Sequences, FiniteSets

CONSTANTS
  MaxMsgs,     \* bound: messages pushed
  OutqMax,     \* queue.buffering.max.messages of librdkafka
  Rejected,    \* messages produce() refuses with a permanent error
  MayFail,     \* TRUE: deliveries and registrations may fail, processes die
  MayDestroy   \* TRUE: the last reference to the sink may go

ASSUME BoundsAssumption == MaxMsgs \in Nat /\ OutqMax \in Nat \ {0}
ASSUME RejectedAssumption == Rejected \subseteq Nat
ASSUME FlagsAssumption == MayFail \in BOOLEAN /\ MayDestroy \in BOOLEAN

VARIABLES
  pushed,      \* number of push_back calls; message n is the n-th one
  queue,       \* _queue
  produced,    \* messages librdkafka accepted, in the order of the calls
  outq,        \* what librdkafka holds: index in produced -> its delivery
  broker,      \* messages Kafka has stored
  popped,      \* messages taken off _queue, in order
  registered,  \* _key_schema_id and _val_schema_id are known
  run,         \* _run
  closed,      \* kafka_producer::close has reset _producer
  aborted,     \* the process has died
  pc,          \* where each of the two threads is
  front        \* the event each thread got from _queue.front()

vars == <<pushed, queue, produced, outq, broker, popped, registered,
          run, closed, aborted, pc, front>>
kafka == <<produced, outq, broker, registered, closed>>
sink == <<pushed, queue, popped, run>>

Threads == {"bg", "dtor"}
Labels == {"none", "init", "loop", "poll", "size", "front", "produce", "pop",
           "eof", "drain", "close", "join", "exited"}

-----------------------------------------------------------------------------
(* Helpers *)

At(t, l) == ~aborted /\ pc[t] = l
Goto(t, l) == pc' = [pc EXCEPT ![t] = l]

\* The process dies, with all it holds in memory; Kafka keeps what it stored.
Abort ==
  /\ aborted' = TRUE
  /\ UNCHANGED <<kafka, sink, pc, front>>

\* The caller of process() goes on: bg_thread with while (_run), the
\* destructor's flush with poll.
AfterProcess(t) == IF t = "bg" THEN "loop" ELSE "poll"
AfterPoll(t) == IF t = "bg" THEN "size" ELSE "eof"

-----------------------------------------------------------------------------
(* The grpc thread *)

push_back ==
  /\ ~aborted /\ pc["dtor"] = "none" /\ pushed < MaxMsgs
  /\ pushed' = pushed + 1
  /\ queue' = Append(queue, pushed + 1)
  /\ UNCHANGED <<kafka, popped, run, aborted, pc, front>>

-----------------------------------------------------------------------------
(* process(), called by bg_thread and by the destructor's flush *)

\* while (_queue.size())
ProcessSize(t) ==
  /\ At(t, "size")
  /\ Goto(t, IF queue = << >> THEN AfterProcess(t) ELSE "front")
  /\ UNCHANGED <<kafka, sink, aborted, front>>

\* _queue.front(): undefined when the other thread has emptied the queue.
ProcessFront(t) ==
  /\ At(t, "front")
  /\ IF queue = << >>
       THEN Abort
       ELSE /\ front' = [front EXCEPT ![t] = Head(queue)]
            /\ Goto(t, "produce")
            /\ UNCHANGED <<kafka, sink, aborted>>

\* handle_event: the schemas are registered before the first message.
RegisterSchemas(t) ==
  /\ At(t, "produce") /\ ~registered
  /\ \/ /\ registered' = TRUE
        /\ UNCHANGED <<sink, produced, outq, broker, closed, aborted, pc, front>>
     \/ MayFail /\ Abort

\* handle_event: librdkafka takes the message and keeps it until its report.
ProduceOk(t) ==
  /\ At(t, "produce") /\ registered /\ ~closed
  /\ front[t] \notin Rejected
  /\ Cardinality(DOMAIN outq) < OutqMax
  /\ produced' = Append(produced, front[t])
  /\ outq' = [i \in DOMAIN outq \cup {Len(produced) + 1} |->
                IF i \in DOMAIN outq THEN outq[i] ELSE "queued"]
  /\ Goto(t, "pop")
  /\ UNCHANGED <<sink, broker, registered, closed, aborted, front>>

\* Mutant: a full librdkafka is taken for success.
ProduceFailsIgnored(t) ==
  /\ At(t, "produce") /\ registered /\ ~closed
  /\ front[t] \in Rejected \/ Cardinality(DOMAIN outq) >= OutqMax
  /\ Goto(t, "pop")
  /\ UNCHANGED <<kafka, sink, aborted, front>>

\* ERR__QUEUE_FULL or another error: process() returns, the event stays.
ProduceFails(t) ==
  /\ At(t, "produce") /\ registered /\ ~closed
  /\ front[t] \in Rejected \/ Cardinality(DOMAIN outq) >= OutqMax
  /\ Goto(t, AfterProcess(t))
  /\ UNCHANGED <<kafka, sink, aborted, front>>

\* The producer is gone: a null _producer is used.
UseAfterClose(t) ==
  /\ closed
  /\ (At(t, "produce") /\ registered) \/ At(t, "poll")
  /\ Abort

\* Mutant: the event is not taken off the queue.
ProcessPopSkipped(t) ==
  /\ At(t, "pop")
  /\ Goto(t, "size")
  /\ UNCHANGED <<kafka, sink, aborted, front>>

\* _queue.pop_front(): undefined when the other thread has emptied the queue.
ProcessPop(t) ==
  /\ At(t, "pop")
  /\ IF queue = << >>
       THEN Abort
       ELSE /\ popped' = Append(popped, Head(queue))
            /\ queue' = Tail(queue)
            /\ Goto(t, "size")
            /\ UNCHANGED <<kafka, pushed, run, aborted, front>>

-----------------------------------------------------------------------------
(* Delivery reports: dr_cb runs inside poll and flush *)

\* Mutant: every message is forgotten at the next poll, reported or not.
ServeReportsAll == outq' = << >>

\* A report of success frees the message.
ServeReports ==
  /\ \A i \in DOMAIN outq : outq[i] # "failed"
  /\ outq' = [i \in { j \in DOMAIN outq : outq[j] = "queued" } |-> outq[i]]

\* A report of failure is LOG(FATAL).
FatalReport == \E i \in DOMAIN outq : outq[i] = "failed"

Poll(t) ==
  /\ At(t, "poll") /\ ~closed
  /\ \/ /\ ServeReports
        /\ Goto(t, AfterPoll(t))
        /\ UNCHANGED <<sink, produced, broker, registered, closed, aborted, front>>
     \/ FatalReport /\ Abort

-----------------------------------------------------------------------------
(* bg_thread *)

\* Mutant: the first loop waits for the shutdown, not for the first message.
BgInitWaits ==
  /\ At("bg", "init")
  /\ ~run
  /\ Goto("bg", "loop")
  /\ UNCHANGED <<kafka, sink, aborted, front>>

\* Mutant: the first loop does not look at _run.
BgInitIgnoresRun ==
  /\ At("bg", "init")
  /\ queue # << >>
  /\ Goto("bg", "loop")
  /\ UNCHANGED <<kafka, sink, aborted, front>>

BgInit ==
  /\ At("bg", "init")
  /\ queue # << >> \/ ~run
  /\ Goto("bg", "loop")
  /\ UNCHANGED <<kafka, sink, aborted, front>>

\* while (_run); the metrics it pushes every 10 s are left out.
BgLoop ==
  /\ At("bg", "loop")
  /\ Goto("bg", IF run THEN "poll" ELSE "exited")
  /\ UNCHANGED <<kafka, sink, aborted, front>>

-----------------------------------------------------------------------------
(* The destructor *)

Destroy ==
  /\ MayDestroy /\ At("dtor", "none")
  /\ run' = FALSE
  /\ Goto("dtor", "eof")
  /\ UNCHANGED <<kafka, pushed, queue, popped, aborted, front>>

\* flush(): while (!eof())
FlushEof ==
  /\ At("dtor", "eof")
  /\ Goto("dtor", IF queue = << >> THEN "drain" ELSE "size")
  /\ UNCHANGED <<kafka, sink, aborted, front>>

\* flush(): _impl.flush(1000) until it succeeds
FlushDrain ==
  /\ At("dtor", "drain")
  /\ \/ /\ ServeReports
        /\ Goto("dtor", IF DOMAIN outq' = {} THEN "close" ELSE "drain")
        /\ UNCHANGED <<sink, produced, broker, registered, closed, aborted, front>>
     \/ FatalReport /\ Abort

\* kafka_producer::close: what is not delivered within 2 s is dropped.
CloseProducer ==
  /\ At("dtor", "close")
  /\ \/ /\ ~FatalReport
        /\ outq' = << >>
        /\ closed' = TRUE
        /\ Goto("dtor", "join")
        /\ UNCHANGED <<sink, produced, broker, registered, aborted, front>>
     \/ FatalReport /\ Abort

DtorJoin ==
  /\ At("dtor", "join") /\ pc["bg"] = "exited"
  /\ Goto("dtor", "exited")
  /\ UNCHANGED <<kafka, sink, aborted, front>>

-----------------------------------------------------------------------------
(* librdkafka and the broker (external); the end of the process *)

\* The broker stores the message; the acknowledgement may still get lost, and
\* the message is then sent again.
BrokerStores(i) ==
  /\ ~aborted /\ i \in DOMAIN outq /\ outq[i] = "queued"
  /\ broker' = broker \cup {produced[i]}
  /\ UNCHANGED <<sink, produced, outq, registered, closed, aborted, pc, front>>

BrokerAcks(i) ==
  /\ ~aborted /\ i \in DOMAIN outq /\ outq[i] = "queued"
  /\ produced[i] \in broker
  /\ outq' = [outq EXCEPT ![i] = "stored"]
  /\ UNCHANGED <<sink, produced, broker, registered, closed, aborted, pc, front>>

\* message.timeout.ms is over.
DeliveryFails(i) ==
  /\ MayFail
  /\ ~aborted /\ i \in DOMAIN outq /\ outq[i] = "queued"
  /\ outq' = [outq EXCEPT ![i] = "failed"]
  /\ UNCHANGED <<sink, produced, broker, registered, closed, aborted, pc, front>>

\* The server ends or is killed: nothing flushes the sinks, because the calls
\* that wait for clients keep the sink factory alive until the process is gone.
ProcessExits == MayFail /\ ~aborted /\ Abort

-----------------------------------------------------------------------------

Init ==
  /\ pushed = 0
  /\ queue = << >>
  /\ produced = << >>
  /\ outq = << >>
  /\ broker = {}
  /\ popped = << >>
  /\ registered = FALSE
  /\ run = TRUE
  /\ closed = FALSE
  /\ aborted = FALSE
  /\ pc = [t \in Threads |-> IF t = "bg" THEN "init" ELSE "none"]
  /\ front = [t \in Threads |-> 0]

Process(t) ==
  \/ ProcessSize(t) \/ ProcessFront(t) \/ RegisterSchemas(t)
  \/ ProduceOk(t) \/ ProduceFails(t) \/ UseAfterClose(t) \/ ProcessPop(t)

BgThread == BgInit \/ BgLoop \/ Poll("bg") \/ Process("bg")
DtorThread == FlushEof \/ FlushDrain \/ CloseProducer \/ DtorJoin
              \/ Poll("dtor") \/ Process("dtor")
Librdkafka == \E i \in DOMAIN outq : BrokerStores(i) \/ BrokerAcks(i) \/ DeliveryFails(i)

Next == push_back \/ BgThread \/ Destroy \/ DtorThread \/ Librdkafka \/ ProcessExits

(***************************************************************************)
(* The threads are scheduled by the operating system; a broker that is up  *)
(* stores and acknowledges every message it is sent again and again.  No   *)
(* fairness for pushes, failures, destruction or the end of the process.   *)
(***************************************************************************)
Fairness ==
  /\ WF_vars(BgThread)
  /\ WF_vars(DtorThread)
  /\ \A i \in 1..(MaxMsgs + 1) : WF_vars(BrokerStores(i)) /\ WF_vars(BrokerAcks(i))

Spec == Init /\ [][Next]_vars
FairSpec == Spec /\ Fairness

-----------------------------------------------------------------------------
(* Properties *)

\* Every variable keeps its type.
TypeOK ==
  /\ pushed \in 0..MaxMsgs
  /\ queue \in Seq(Nat) /\ produced \in Seq(Nat) /\ popped \in Seq(Nat)
  /\ DOMAIN outq \subseteq 1..Len(produced)
  /\ \A i \in DOMAIN outq : outq[i] \in {"queued", "stored", "failed"}
  /\ broker \subseteq Nat
  /\ registered \in BOOLEAN /\ run \in BOOLEAN /\ closed \in BOOLEAN /\ aborted \in BOOLEAN
  /\ pc \in [Threads -> Labels]
  /\ front \in [Threads -> Nat]

(***************************************************************************)
(* Until the destructor starts, what librdkafka accepted is the pushed     *)
(* messages in order, none skipped and none twice, however often a full    *)
(* librdkafka turned one away: produced, then the queue, make up 1..pushed *)
(* (the message being popped is in both).                                  *)
(***************************************************************************)
FifoHandOver ==
  pc["dtor"] = "none" =>
    LET taken == Len(produced) - (IF pc["bg"] = "pop" THEN 1 ELSE 0) IN
    /\ \A i \in 1..Len(produced) : produced[i] = i
    /\ \A i \in 1..Len(queue) : queue[i] = taken + i
    /\ taken + Len(queue) = pushed

(***************************************************************************)
(* Until the destructor starts or the process dies, every pushed message   *)
(* is in the sink's queue, held by librdkafka, or stored by Kafka: polling *)
(* drops nothing that Kafka does not have.                                 *)
(***************************************************************************)
NothingLost ==
  pc["dtor"] = "none" /\ ~aborted =>
    \A m \in 1..pushed :
      \/ \E i \in 1..Len(queue) : queue[i] = m
      \/ \E i \in DOMAIN outq : produced[i] = m
      \/ m \in broker

(***************************************************************************)
(* Even while the destructor drains the queue beside bg_thread, every pop  *)
(* follows one accepted produce of the same thread, and the queue gives up *)
(* its messages in order: the race can lose a message only by sending      *)
(* another one twice.                                                      *)
(***************************************************************************)
PopsMatchProduces ==
  /\ Len(produced) = Len(popped) + Cardinality({ t \in Threads : pc[t] = "pop" })
  /\ \A i \in 1..Len(popped) : popped[i] = i
  /\ \A i \in 1..Len(queue) : queue[i] = Len(popped) + i

(***************************************************************************)
(* The destructor returns, both flush loops and bg_thread's loop ending,   *)
(* unless a message that librdkafka will never take is among those pushed. *)
(***************************************************************************)
DestructorReturns ==
  (pc["dtor"] # "none") ~>
    (pc["dtor"] = "exited" \/ aborted \/ \E r \in Rejected : r <= pushed)

(***************************************************************************)
(* process(): "lets try to get as much as possible from queue to           *)
(* librdkafka": what it takes off the queue has gone to librdkafka.        *)
(***************************************************************************)
PoppedWereProduced ==
  \A i \in 1..Len(popped) : \E j \in 1..Len(produced) : produced[j] = popped[i]

(***************************************************************************)
(* Every pushed message reaches Kafka in the end, unless the sink or the   *)
(* process dies or a message librdkafka will never take is in front of it. *)
(***************************************************************************)
EventuallyStored ==
  \A m \in 1..MaxMsgs :
    (pushed >= m) ~> (m \in broker \/ aborted \/ pc["dtor"] # "none"
                      \/ \E r \in Rejected : r <= m)
=============================================================================
