---------------------------- MODULE PromExporter ----------------------------
(***************************************************************************)
(* bb-monitor-promstore-exporter: a kspp source reads a topic in order and *)
(* feeds prometheus_avro_metrics_sink, whose _thread moves events to       *)
(* in_batch, posts those worth exporting in one HTTP request, retries the  *)
(* request after a timeout, gives it up after an HTTP error, and passes    *)
(* the whole batch on to pending_for_delete_.  The main loop releases what *)
(* is there and commits, once a minute, the offset up to which every event *)
(* of the session has been released.  No signal handler is installed and   *)
(* run never becomes false: the process ends by being killed.              *)
(*                                                                         *)
(* External: the source, kspp's commit chain and offset file, the event    *)
(* queues (atomic operations), Prometheus.  Event n is the n-th of the     *)
(* topic and has timestamp n.  Sleeps are nondeterministic.                *)
(***************************************************************************)
EXTENDS Integers, Sequences, FiniteSets, SequencesExt

CONSTANTS
  MaxEvents,    \* bound: events in the topic
  MaxKills,     \* bound: how often the process is killed
  NoValue,      \* events that are null, or whose value is null or not finite
  BatchSize,    \* http_batch_size
  Ages,         \* TRUE: max_exported_age > 0
  StartOffsets  \* the values of start_offset to consider

ASSUME ExporterSizes == MaxEvents \in Nat /\ MaxKills \in Nat /\ BatchSize \in Nat \ {0}
ASSUME ExporterInputs ==
  /\ NoValue \subseteq 1..MaxEvents /\ Ages \in BOOLEAN
  /\ StartOffsets \subseteq {"OFFSET_STORED", "OFFSET_END"}

VARIABLES
  policy,     \* start_offset
  produced,   \* events in the topic
  fetched,    \* events up to here were given to the sink
  start,      \* where this session began to read
  queue,      \* _queue
  in_batch,   \* in_batch
  request,    \* events with a time series in prequest
  min_ts,     \* min_ts
  pending,    \* pending_for_delete_
  released,   \* events of this session that process() let go
  committed,  \* the offset in offset_storage
  stored,     \* events Prometheus has
  aged,       \* events skipped as too old
  rejected,   \* events of requests given up after an HTTP error
  missed,     \* events a start at the end of the topic jumped over
  kills,
  pc          \* where _thread is; "down": the process does not run

session == <<fetched, start, queue, in_batch, request, pending, released>>
history == <<stored, aged, rejected, missed>>
vars == <<policy, produced, session, min_ts, committed, history, kills, pc>>

Events == 1..MaxEvents
Up == pc # "down"

-----------------------------------------------------------------------------
(* The topic and the main loop *)

Produce ==
  /\ produced < MaxEvents
  /\ produced' = produced + 1
  /\ UNCHANGED <<policy, session, min_ts, committed, history, kills, pc>>

\* The source's part of t->process.
Fetch ==
  /\ Up /\ fetched < produced
  /\ fetched' = fetched + 1
  /\ queue' = Append(queue, fetched + 1)
  /\ UNCHANGED <<policy, produced, start, in_batch, request, pending, released,
                 min_ts, committed, history, kills, pc>>

\* The sink's part of t->process.
process ==
  /\ Up /\ pending # << >>
  /\ released' = released \cup ToSet(pending)
  /\ pending' = << >>
  /\ UNCHANGED <<policy, produced, fetched, start, queue, in_batch, request,
                 min_ts, committed, history, kills, pc>>

\* t->commit: everything up to the first event that is still held.
commit ==
  /\ Up
  /\ \E n \in start..fetched :
       /\ (start + 1)..n \subseteq released
       /\ n + 1 \notin released
       /\ n > committed
       /\ committed' = n
  /\ UNCHANGED <<policy, produced, session, min_ts, history, kills, pc>>

-----------------------------------------------------------------------------
(* _thread *)

\* The queue is not empty: a new request, with the age limit of this moment.
BeginBatch ==
  /\ pc = "top" /\ queue # << >>
  /\ pc' = "batch"
  /\ request' = {}
  /\ \E t \in min_ts..MaxEvents : min_ts' = (IF Ages THEN t ELSE 0)
  /\ UNCHANGED <<policy, produced, fetched, start, queue, in_batch, pending,
                 released, committed, history, kills>>

BatchOpen == queue # << >> /\ Len(in_batch) < BatchSize

\* Every event goes to in_batch; the ones too old or without a finite value
\* get no time series.
BatchPop ==
  /\ pc = "batch" /\ BatchOpen
  /\ LET e == Head(queue) IN
     /\ in_batch' = Append(in_batch, e)
     /\ aged' = IF e \notin NoValue /\ e <= min_ts THEN aged \cup {e} ELSE aged
     /\ request' = IF e \notin NoValue /\ e > min_ts THEN request \cup {e} ELSE request
  /\ queue' = Tail(queue)
  /\ UNCHANGED <<policy, produced, fetched, start, pending, released, min_ts,
                 committed, stored, rejected, missed, kills, pc>>

\* Mutant: a batch with nothing to send is kept, as in the client sinks.
BatchEndKeeps ==
  /\ pc = "batch" /\ ~BatchOpen
  /\ pc' = IF request = {} THEN "top" ELSE "http"
  /\ UNCHANGED <<policy, produced, session, min_ts, committed, history, kills>>

\* something to send??
BatchEnd ==
  /\ pc = "batch" /\ ~BatchOpen
  /\ pc' = IF request = {} THEN "forward" ELSE "http"
  /\ UNCHANGED <<policy, produced, session, min_ts, committed, history, kills>>

\* Prometheus handles the request, or a part of it, before the caller knows.
PrometheusStores ==
  /\ pc = "http"
  /\ \E S \in SUBSET request : S # {} /\ ~(S \subseteq stored) /\ stored' = stored \cup S
  /\ UNCHANGED <<policy, produced, session, min_ts, committed, aged, rejected,
                 missed, kills, pc>>

HttpOk ==
  /\ pc = "http" /\ request \subseteq stored
  /\ pc' = "forward"
  /\ UNCHANGED <<policy, produced, session, min_ts, committed, history, kills>>

\* "HTTP error (skipping)": as if it had worked.
HttpError ==
  /\ pc = "http"
  /\ rejected' = rejected \cup request
  /\ pc' = "forward"
  /\ UNCHANGED <<policy, produced, session, min_ts, committed, stored, aged,
                 missed, kills>>

\* Mutant: a timeout ends the retry loop as success and error do.
HttpTimeoutBreaks ==
  /\ pc = "http"
  /\ pc' = "forward"
  /\ UNCHANGED <<policy, produced, session, min_ts, committed, history, kills>>

\* A timeout: the same request again after 10 s.
HttpTimeout ==
  /\ pc = "http"
  /\ pc' = "sleep"
  /\ UNCHANGED <<policy, produced, session, min_ts, committed, history, kills>>

Retry ==
  /\ pc = "sleep"
  /\ pc' = "http"
  /\ UNCHANGED <<policy, produced, session, min_ts, committed, history, kills>>

\* Mutant: the last event of the batch goes first.
ForwardLast ==
  /\ pc = "forward" /\ in_batch # << >>
  /\ pending' = Append(pending, Last(in_batch))
  /\ in_batch' = Front(in_batch)
  /\ UNCHANGED <<policy, produced, fetched, start, queue, request, released,
                 min_ts, committed, history, kills, pc>>

\* messages to delete??
Forward ==
  /\ pc = "forward" /\ in_batch # << >>
  /\ pending' = Append(pending, Head(in_batch))
  /\ in_batch' = Tail(in_batch)
  /\ UNCHANGED <<policy, produced, fetched, start, queue, request, released,
                 min_ts, committed, history, kills, pc>>

ForwardDone ==
  /\ pc = "forward" /\ in_batch = << >>
  /\ pc' = "top"
  /\ UNCHANGED <<policy, produced, session, min_ts, committed, history, kills>>

-----------------------------------------------------------------------------
(* The process is killed and started again *)

Kill ==
  /\ Up /\ kills < MaxKills
  /\ kills' = kills + 1
  /\ pc' = "down"
  /\ queue' = << >> /\ in_batch' = << >> /\ pending' = << >>
  /\ request' = {} /\ released' = {}
  /\ UNCHANGED <<policy, produced, fetched, start, min_ts, committed, history>>

\* Mutant: reading resumes after what the killed process had read.
RestartAfterFetched ==
  /\ pc = "down"
  /\ pc' = "top"
  /\ start' = fetched
  /\ UNCHANGED <<policy, produced, fetched, queue, in_batch, request, pending,
                 released, min_ts, committed, history, kills>>

\* t->start(start_offset)
Restart ==
  /\ pc = "down"
  /\ pc' = "top"
  /\ start' = IF policy = "OFFSET_STORED" THEN committed ELSE produced
  /\ fetched' = start'
  /\ missed' = missed \cup ((committed + 1)..start')
  /\ UNCHANGED <<policy, produced, queue, in_batch, request, pending, released,
                 min_ts, committed, stored, aged, rejected, kills>>

-----------------------------------------------------------------------------

Init ==
  /\ policy \in StartOffsets
  /\ produced = 0 /\ fetched = 0 /\ start = 0
  /\ queue = << >> /\ in_batch = << >> /\ pending = << >>
  /\ request = {} /\ released = {}
  /\ min_ts = 0 /\ committed = 0
  /\ stored = {} /\ aged = {} /\ rejected = {} /\ missed = {}
  /\ kills = 0 /\ pc = "top"

Thread ==
  \/ BeginBatch \/ BatchPop \/ BatchEnd
  \/ HttpOk \/ HttpError \/ HttpTimeout \/ Retry
  \/ Forward \/ ForwardDone

Next ==
  \/ Produce \/ Fetch \/ process \/ commit
  \/ Thread \/ PrometheusStores
  \/ Kill \/ Restart

(***************************************************************************)
(* The main loop and _thread run; every request ends, at the latest by its *)
(* timeout; a request that is repeated for ever is answered in the end;    *)
(* the process is started again.                                           *)
(***************************************************************************)
Fairness ==
  /\ WF_vars(Fetch) /\ WF_vars(process) /\ WF_vars(commit)
  /\ WF_vars(Thread)
  /\ SF_vars(PrometheusStores) /\ SF_vars(HttpOk)
  /\ WF_vars(Restart)

Spec == Init /\ [][Next]_vars
FairSpec == Spec /\ Fairness

-----------------------------------------------------------------------------
(* Properties *)

\* Every variable keeps its type, and a batch its size.
TypeOK ==
  /\ policy \in StartOffsets
  /\ produced \in 0..MaxEvents /\ fetched \in 0..MaxEvents /\ start \in 0..MaxEvents
  /\ min_ts \in 0..MaxEvents /\ committed \in 0..MaxEvents /\ kills \in 0..MaxKills
  /\ queue \in Seq(Events) /\ in_batch \in Seq(Events) /\ pending \in Seq(Events)
  /\ Len(in_batch) <= BatchSize
  /\ request \subseteq Events /\ released \subseteq Events
  /\ stored \subseteq Events /\ aged \subseteq Events
  /\ rejected \subseteq Events /\ missed \subseteq Events
  /\ pc \in {"top", "batch", "http", "sleep", "forward", "down"}

(***************************************************************************)
(* "this will loose messages at retry... TODO" says the comment on the     *)
(* pop.  It does not: through timeouts and retries the events of a session *)
(* stay in topic order, each in exactly one place.                         *)
(***************************************************************************)
FifoThroughSink ==
  LET last == start + Cardinality(released)
      held == pending \o in_batch \o queue IN
  /\ TypeOK
  /\ Up => /\ released = (start + 1)..last
           /\ held = [i \in 1..(fetched - last) |-> last + i]

(***************************************************************************)
(* The offset file is never ahead of the export: every event below it is   *)
(* in Prometheus, had nothing to export, was too old, was refused with an  *)
(* HTTP error, or lay behind a start at the end of the topic.  A kill      *)
(* between any two steps loses none of the others.                         *)
(***************************************************************************)
CommittedAreSettled ==
  1..committed \subseteq stored \cup NoValue \cup aged \cup rejected \cup missed

(***************************************************************************)
(* The exporter with its offset file is an at-least-once stage: what it    *)
(* commits is at Prometheus or one of the cases it gives up on purpose;    *)
(* after a kill events are posted again, but never a committed one.        *)
(***************************************************************************)
givenUp == { e \in 1..committed : e \in (aged \cup rejected \cup missed) \ (stored \cup NoValue) }

ALO == INSTANCE AtLeastOnce WITH
  Items <- Events, Markers <- NoValue,
  submitted <- 1..produced, delivered <- stored,
  done <- (1..committed) \ givenUp, dropped <- givenUp

\* The exporter implements the at-least-once specification.
ImplementsAtLeastOnce == ALO!ASpec

(***************************************************************************)
(* Every event is committed in the end, however often requests time out,   *)
(* also when the last batches have nothing to send; or a later start jumps *)
(* over it.                                                                *)
(***************************************************************************)
EventuallyCommitted ==
  \A e \in Events : (produced >= e) ~> (e <= committed \/ e \in missed)
=============================================================================
