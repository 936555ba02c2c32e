# TLA+ verification of bb-monitor

bb-monitor collects metrics, log lines and "intake" records. Proxies beside the
monitored programs accept them in the formats of Prometheus, Datadog and Splunk
and send them in batches over gRPC to the ingestion server, which checks the
caller's api key and secret and writes them to the Kafka topic of the caller's
tenant. Exporters read them back out of a tail service and write them to
Prometheus or Elasticsearch.

This directory holds TLA+ models of the parts that carry this program's own
logic, the TLC configurations that check them on small instances, and TLAPS
proofs of the main safety properties for every instance. `PROJECT.json` maps
every definition to the source lines it stands for.

```
tlc -workers 2 -config KafkaSink.cfg KafkaSink     # one run
tlapm TopicAuthorizerProofs.tla                    # one module's proofs
```

## Inventory

Paths are relative to `src/`; `SRV` is
`programs/saas-services/bb-monitor-ingestion-srv`, `SU`
`libraries/bb_monitor_srv_utils`, `CU` `libraries/bb_monitor_client_utils`.

| Component | State | Operations | What is hard | What makes it correct |
|---|---|---|---|---|
| Topic authorizer (`SU/grpc_topic_authorizer`) | rows by id, index by md5 of topic, key and secret hash, `run_` | visit a record of the auth topic, authorize read and write, construct, destroy | index entries outlive rows; threads start before `run_` is set; restart replays the topic while calls come in | a grant rests on a row in force; nobody in force is locked out; every record is applied |
| Kafka sink and producer (`SRV/bb_kafka_sink.h`, `bb_kafka_producer`) | `_queue`, librdkafka's queue, schema ids, `_run` | push, process, poll, flush, close, delivery report | librdkafka full, permanent errors, failed deliveries, destructor draining beside the background thread | hand-over in order, nothing lost, the destructor ends |
| Client sinks (`CU/bb_metric_sink`, `bb_log_sink`, `bb_intake_sink`) | `_queue`, `in_rpc`, `_pending_for_delete`, retry time | push, process, eof, flush, send a batch, retry, purge | lost replies, failed calls that put a batch back, null events, purge, eof that ignores the batch in flight | at-least-once delivery, each event in one place, flush and destructor end |
| Ingestion server (`SRV/main.cpp`, `put_*2_call_data.h`) | call_data objects, completion queue, `run` | start, finish, delete of a call; SIGTERM; shutdown | object lifetime driven by events in any order, permissions that change during calls, blocking `Next`, a shutdown that waits for calls | one waiting object per method, one event per object, truthful replies, every call ends |
| Sink factory (`SRV/kafka_sink_facory.cpp`) | three caches from Kafka topic to sink | get or create a sink | a missing topic kills the process | one producer per topic |
| Exporter sinks (`CU/prometheus_sink*`, `elasticsearch_log_sink`) | `_queue`, `in_batch`, the open request, `pending_for_delete_` | collect a batch, post it, retry, give up, release | timeouts after a (partial) write, HTTP errors, batches with nothing to send | topic order, nothing is marked done that was neither sent nor given up on purpose |
| dd-log proxy (`programs/client-proxies/bb-monitor-dd-log-proxy`) | per session: buffer, line begun, timer; the source, the topology's thread, `run` | accept, read, split into lines, parse, insert, time out, SIGTERM | bytes cut into reads anywhere, a full buffer, a timer that races the data, a line that throws | lines come out whole and in order; silent sessions end; inserted lines reach the server |
| HTTP proxies (`dd-metrics`, `splunk-hec`, `prom-pushgateway`, `promstore-write`) | the source, the topology's thread, `run`, requests in hand | decode, parse, insert, answer, flush, SIGTERM | handlers beside the thread that empties the source, a sink that purges during an outage, a front end that goes on after SIGTERM, threads that are not joined | what was answered for is kept and delivered, or purged by the metric sink; flush leaves at most one batch |
| Exporter programs | kspp topology, offset file | process, commit, start at an offset | a kill between export, release and commit | nothing is committed that was not written |
| Service resolver (`SU/service_resolver`) | the c-ares channel, `_io_mutex`, `_is_init`, `_time_to_die` | SRV, host and address lookups with callback or waiting, change the DNS server, close, destroy | callbacks made under the mutex, two lookups in a row, a channel replaced under running queries or under `select`, destruction with queries and callbacks under way | each call answered once with its own answer; calls, close and the destructor end |
| PostgreSQL worker (`SU/pg_worker`, `postgres_asio`) | connection, two io_services | connect, exec, callback | callbacks on two threads, destructor joins | each request one callback |
| Conversions (`prometheus_utils`, `*_json_parsing`, `kv_filter`, `splunk_utils`) | none | parse, format, filter | corner cases of formats | result against a reference definition |

The parts call each other as follows: proxy -> `mem_stream_source` -> client
sink -> (gRPC) -> call_data -> factory -> authorizer and Kafka sink ->
librdkafka -> Kafka. kspp (topologies, `event_queue`), gRPC, librdkafka, Kafka,
asio, restinio, c-ares, rapidjson and protobuf are not part of the repository
and are modelled from how the code uses them. No program uses the service
resolver or the PostgreSQL worker; they are library code.

## Modules

### `TopicAuthorizer` (runs: `MCTopicAuthorizer`; proofs: `TopicAuthorizerProofs`)

State: `log`, the auth topic, an append-only sequence; `pos`, how much of it
the consumer has visited; the two maps `authdata_` and `apikey2id_`; `run_`; and
where the owner and the two threads are. The visitor runs under a spinlock, so
`Visit` is one step: `VisitIgnored` for a record without the required columns,
`VisitDeleted` for a disabled or deleted row, `VisitUpsert` for the rest. The
delete path erases the index entry under a *plain* `topic#api_key` string, which
is never a key of the index (keys are md5 sums); `Plain` and `md5` have disjoint
images, so the model keeps that behaviour. `authorize_read` and
`authorize_write` are operators on the state, as the code evaluates them under
the same lock. `ConstructorBody` is a step of its own because both threads are
started by the initializer list, before the body sets `run_`. `Restart` loses
everything but the topic.

A column that the visitor dereferences without a check (`topic_name`,
`read_access`, `write_access`) is taken to be there, as in the view that feeds
the topic.

### `KafkaSink` (proofs: `KafkaSinkProofs`)

State: the sink's `queue`; `produced`, the messages librdkafka accepted, in
order; `outq`, what librdkafka still holds; `broker`, what Kafka has stored; and
a program counter with a local `front` for each of the two threads that run
`process()`, the background thread and a destroying thread. `size`, `front`,
`produce` and `pop_front` are separate steps, since the two threads interleave
between them. A failed delivery or registration is `LOG(FATAL)`, which is
`Abort`. `front()` and `pop_front()` on an empty queue, and the use of a
producer that `close()` has reset, are undefined in C++ and also end in `Abort`.

In the server the sinks are never destroyed before the process ends (waiting
call_data objects hold the factory), so `Destroy` speaks about the class.

### `ClientSink` and `AtLeastOnce` (proofs: `ClientSinkProofs`)

One module for the three classes, which are the same code but for the metric
sink's purge (`Purges`). State: the three queues, what was released and purged,
`accepted` (what the server has), and where `_thread` is. `RpcFails` may happen
whether or not the server has taken the batch: a lost reply. The code puts the
batch back first to last with `push_front`, which turns it round. When a batch
holds only null events no call is made and they stay in `in_rpc`. The 60 s retry
and the 10 s purge timers are nondeterministic. `AtLeastOnce` is the abstract
specification: items are submitted, delivered any number of times before they
are given up, given up as handled only after delivery, or dropped; `ClientSink` implements
it under the mapping in `ALO`.

### `IngestionServer` (runs: `MCIngestionServer`; proofs: `IngestionServerProofs`)

State: the calls as their clients see them; the call_data objects; what each
object has outstanding with gRPC; the completion queue; the factory's caches;
the sinks with what was pushed on them; `run`. `ProcessStart` is the whole START
case: it creates the successor, asks the factory (the authorizer's answer at
that moment), pushes the bundle and asks for the reply, or refuses, or dies on a
topic without a leader. `ProcessFinish` deletes the object whether or not the
reply went out. `grant`, the authorizer's answer, may change at any time. When
the loop has ended, `~ServerImpl` runs: `Shutdown` refuses the calls that no
object was given and waits, without a deadline, for the others
(`ShutdownReturns`). gRPC still sends the replies that were asked for; a call
whose event the loop has not taken is served by nobody, and the destructor waits
for it for ever (`Unserved`). Connections break only when the process dies.

### `PromExporter` (proofs: `PromExporterProofs`)

`prometheus_avro_metrics_sink` inside the promstore exporter's main loop. State:
the topic and how far the source has read it, the sink's queue, `in_batch`, the
events of the open request, `pending_for_delete_`, what `process()` released,
the committed offset, and where `_thread` is. `aged`, `rejected` and `missed`
record why an event was given up. `min_ts` is taken anew for each batch and only
grows. Prometheus may store all or a part of a request whether the caller then
sees success, an error or a timeout; success means that it has all of it, and a
request is handled before its caller gives up waiting. `Kill` is possible at any
step; `Restart` reads from the committed offset (`OFFSET_STORED`) or from the end
(`OFFSET_END`, the default), where everything uncommitted is `missed`.
`OFFSET_BEGINNING` exports everything again on request and is left out. `exit_`
and `closed_` never become true, because `main` installs no signal handler and
leaves its loop on nothing else. It implements `AtLeastOnce` with "given up"
read as "committed".

### `LogSession` and `Proxy` (runs: `MCProxy`; proofs: `ProxyProofs`)

`LogSession` is the TCP session of the log proxy. State: the bytes on the wire,
the socket, the pending read, the timer, the queue of completed operations whose
handlers have not run, `buffer_`, `line_`. All handlers run on one thread, in
the order of completion; that the timer's handler can already be queued when a
read arrives is why completions are queued. `ReadCompletes` cuts the stream at
any byte. `handle_read` takes one line per read, as the code does, and appends
only up to a NUL, because `line_.append(buffer_, 0, n)` goes through a C string.
`LineOutcome` says what `handle_line` does with a line: drops it, inserts it, or
throws out of `io_service.run()`.

`Proxy` composes it with the other four front ends. `program` says which of the
five programs runs; they share the source (`stream`), the topology's thread,
the sink seen from outside, `run` and the end of `main`, and differ in their
handlers, in flushing, in whether their sink purges (`MetricSink`), and in
whether `main` joins its thread. After a failed call and until the retry
(`retrying`), the metric sink drops what its queue has beyond `MaxQueue`
(`SinkPurges`): events that were answered for. The dd-metrics proxy has an
intake sink too, which does not purge; the model has one sink for both, which
may. A handler parses
the whole body first, then inserts the events one by one while the topology's
thread takes them out, then answers. `main` ends in "ended", or in "terminated"
where a joinable `std::thread` is destroyed: always in the dd-metrics, splunk
and pushgateway proxies, after an exception in the write proxy. The log proxy
leaves its `try` when a handler throws (`io_service_left`) or when the server's
constructor does (`server_throws`). Of the command line only the two ways in
which `main` returns at once are modelled (`Starts`).

### `ServiceResolver` (proofs: `ServiceResolverProofs`)

Callers, the thread of `run_task`, the thread of `_ios` and the owner. A call is
on a channel, posted to `_ios`, or answered; `get_sockaddr_by_srv` makes it go
round twice. `ares_process` is a span, `run_task_process` to
`run_task_processed`, in which the mutex is held and callbacks run; everything
else that needs the mutex waits. `run_task_timeout` is the unlocked
`ares_timeout`: on a channel without queries it gives NULL, so that `select` has
no timeout ("forever") and returns only if one of the sockets collected before
becomes readable (`select_readable`). That happens when `set_dns_server` replaces
the channel after `ares_fds` looked at it. Channels are counted, since `set_dns_server`
replaces one without ending its queries. c-ares ends a query by its callback, at
once, within `ares_process`, or in `ares_destroy`. A packet is a status, whether
its question parses, and a sequence of records of which any may be broken. Use
of a resolver that is gone or of a channel that was never made is `crashed`.

### `Conversions` (proofs: `ProxyProofs`)

The parsers behind the proxies as operators, each run on every input up to a
bound and compared with a declarative definition of what it is to find:
`kv_filter::match`, the labels and the lines of the Prometheus text format,
Datadog series and check runs, Splunk events, and the metrics of a remote write.
A `while` loop over a text is a recursive function of the cursor, `found[cursor]`,
`labels[cursor]`, `metrics[cursor]`: what the rounds from there on find. A loop
that fills one object again and again is a function of the rounds so far
(`metric_after`, `labels_after`). Separators are characters with a name
(`"COMMA"`, `"QUOTE"`, `"LF"`). Positions and lengths are kept as the code has
them, so that `substr(cursor, tag_separator_pos)`, whose second argument is a
length, is modelled with the text it really returns. Labels are compared as a
bag, since they are sorted by key and `std::sort` leaves labels with the same key
in any order.

The properties say nothing of inputs where the code does something nobody wants.
These are open points of the code, kept out by a precondition or left
unmentioned, and not taken over as right:

* an indented line is read as a metric without a name, a comment too, as in the
  example of the pushgateway proxy's own README (lines 10-14); `Plain` leaves
  these lines out;
* a line without braces gets no job label, against "we should always have a
  job_id" (`CU/prometheus_utils.cpp:70`); `LinesAreRead` says nothing of labels;
* a label value with a comma is cut, one with a leading space loses it, and an
  empty one between two others takes text of the next, against "Label values may
  contain any Unicode characters" (`CU/prometheus_utils.cpp:35`); `Readable`
  leaves these out;
* the last line needs its line end;
* the j-th sample of a remote-write series carries each label j times
  (promstore-write `main.cpp:38-57`): `MetricsAreOwn` asks which labels a sample
  has, and how often for the first one only;
* a check run's timestamp is always 1000 where there is one
  (`CU/pb_json_parsing.cpp:199` multiplies `IsInt()`): only the time of a check
  without one is looked at;
* a Splunk event's time is the time of its arrival.

A JSON document that is not an object is a failed rapidjson assertion in
`HasMember` (`CU/pb_json_parsing.cpp:20`) and is no input of the model. The
labels of a Datadog series (`:44-101`) and those of a check run other than its
tag are left out.

## Runs

| Run | Expectation | What it shows |
|---|---|---|
| `authorizer` | pass | maps match the topic, grants rest on the row in force and on credentials it has or had, nobody in force is locked out, every record is applied, the destructor returns |
| `authorizer_index` | violation | an index entry survives its row ("should never happen") |
| `authorizer_reporter` | violation | the reporting thread can leave before `run_` is set |
| `kafka_sink` | pass | in-order hand-over, nothing lost, pops paired with produces, destructor returns, messages are stored |
| `kafka_sink_destroy` | violation | destructor and background thread lose a message and send another twice |
| `client_sink` | pass | at-least-once refinement, each event in one place, a purge takes the excess only, eof at most one batch behind, liveness of retries, flush, destructor |
| `ingestion_server` | pass | object lifetime, truthful replies, one producer for a topic, every call ends but those the stopped loop left unserved |
| `ingestion_server_stop` | violation | SIGTERM does not end a loop blocked in `Next` |
| `prom_exporter` | pass | topic order through retries, the offset file never ahead of the export, at-least-once refinement across a kill, everything is committed |
| `service_resolver` | pass | no call lost or answered twice, no broken answer taken for the whole, a `select` without a timeout only for cut-off queries, calls, close and destructor end otherwise |
| `proxies` | pass | whole lines however the bytes are cut, answered events kept and delivered unless purged, what a flush leaves, sessions and `main` end |
| `conversions` | pass | the parsers agree with their reference definitions, on the inputs these speak of |

Every property of a passing run is also checked against a mutant of the code
(listed in `PROJECT.json`), which it must catch. In `ClientSink`,
`IngestionServer`, `PromExporter`, `ServiceResolver` and `Proxy` the invariant
that says where things are has the type invariant `TypeOK` as its first
conjunct; that of `KafkaSink` is part of its inductive invariant and proved
(`TypeCorrect`). `TextIsRead` and `RecordsAreOwn` of `Conversions` are conjunctions of
one property per parser.

### Bounds

* Authorizer: two rows, records in which credentials meet, change the api key or
  the secret, lose their secret, move to another topic, lose write access, are disabled,
  deleted or unusable; topics of up to three records and one restart. Index and
  row conflicts need a create, a removal or move, and a re-creation, which fit
  into three records. The proofs lift all of these bounds.
* Kafka sink: four messages, the last one refused for good, and a librdkafka
  that holds two: it is full while a message waits and while one is in hand, and
  both threads can be anywhere in `process()`.
* Client sink: five events, two of them null (one inside, one at the end),
  batches of two, a queue limit of two: batches fill, fail, turn round, exceed
  the limit and leave null events behind. `Purges = TRUE` includes the behaviour
  of the two sinks without a purge, because a purge never has to happen.
* Server: one client, two methods, two calls, two topics of which Kafka lacks
  one: a method's second call meets the successor object, and both calls can want
  the same new sink. That clients share a topic is left to the proof, which has
  any number of them.
* Resolver: two calls of any of four kinds, one of them waiting, two channels,
  answers of up to two records: the second lookup of one call meets the first of
  the other, and a channel is replaced, closed or destroyed under both.
* Proxies: a buffer of three bytes against every stream of up to three bytes and
  six longer ones, so that a line end is the last byte that fits, several lines
  come in one read, and a line takes several; two requests of up to two events,
  which on the write proxy's two threads interleave; a queue limit of one, so
  that two events in the sink's queue are enough for a purge. The programs share no state,
  so each behaviour is that of one program.
* Conversions: ddtags of seven characters (two whole tags with quotes around),
  three labels (the cut that reaches too far needs a second and a third) with
  values of two characters, with and without an instance, texts of seven
  characters (two lines with names and values), two series of two points
  or samples, four Splunk documents, three checks.
* Exporter: four events, two neighbouring ones without a value, batches of two
  (so one batch may have nothing to send and be full), an age limit that may
  pass any event, one kill, both start offsets.

### Fairness

Threads are scheduled by the operating system (weak fairness of each thread's
next step). `Visit` has strong fairness: `process_1s` visits a record before it
returns whenever one is there. A broker that is up stores and acknowledges what
it is sent; a server that is called again and again takes a batch and its reply
arrives in the end (strong fairness, as failures may come in between); timers go
off. c-ares ends every query that `ares_process` is called for again and again,
by its timeouts if not before (strong fairness, as the callbacks are enabled only
while `ares_process` runs), but nothing is assumed of a `select` without a
timeout: `CallsEnd` and `CloseReturns` have its return as a hypothesis
(`SelectReturns`). gRPC's `Shutdown` returns when no call is left; asio completes reads and runs handlers. The exporter's request that is repeated for ever is answered in the end,
and the exporter is started again after a kill, as a supervised container is.
Nothing is assumed of publishing, pushing, calling, failing, purging, closing, destroying,
killing, signals, peers, the end of restinio, or the restart of the server.

## Proofs

`TopicAuthorizerProofs`, for all ids, records and bounds:

* `TypeCorrect`, `RowsMatchFeedAlways`: `TypeOK /\ RowsMatchFeed` is inductive. The
  step that matters is `VisitRows`, from `LiveStep`: the records in force after
  one more record are the old ones it is not about, and itself.
* `GrantsAreCurrent`: that the row found is in force, gives access to the topic
  and has the caller's secret follows from `RowsMatchFeed`, because the code
  checks the row again after the index led to it. The api key it does not check;
  of this it is proved that every index entry comes from a record of the very row
  it names (`IndexFromFeed`), so that a stale entry never leads to somebody else's row. It may lead
  to the row that had the key before: a row that changes its api key and keeps
  its secret still grants the former key.
* `LiveRowsAreAuthorised` needs the stronger `IInv`: `IndexNamesLiveRows`, every
  row present is named by its own index entry. It is inductive only while
  credentials have been unique among the rows in force (`CredentialsUnique`);
  `UniqueBefore` carries that backwards over a step.

`KafkaSinkProofs`, for every number of messages and every limit:

* `HandOverIsFifo` and `NothingIsLost`, from
  `IInv == TypeOK /\ HeadInHand /\ FifoHandOver /\ HeldOrStored`. `HeadInHand`
  (between `front` and `pop` the message in hand is the head of the queue) makes
  the order inductive; `HeldOrStored` (a message accepted by librdkafka is held
  or stored, and an acknowledged one is stored) is what lets a report free it.
* `PopsFollowProduces` speaks about destruction too, when `HeadInHand` is lost
  because two threads run `process()`. What survives is `Paired`: a thread
  between `produce` and `pop_front` has one produce that no pop answers yet, and
  what was pushed is in the queue or was popped.

`ClientSinkProofs`, for all events, batch sizes, queue limits and null events:

* `OnePlace`: `EachInOnePlace` counts occurrences; what is inductive is `Apart`
  (no queue holds an event twice, no two places share one, together they hold
  what was pushed), and the counts follow from it.
* `PurgedIsExcess`: a purge leaves `MaxQueue` events in the queue, and these are
  not among the purged, so however many purges there were the bound holds.
* `EofBound` and `Refinement` (the sink implements `AtLeastOnce`, the initial
  states and every step) need `HandledWereAccepted` and `BatchShape` besides:
  while a call whose batch the server took is under way, the server has every
  event of the batch that has a value.

`PromExporterProofs`, for every topic, batch size, age limit and number of kills:

* `Fifo`: `OrderedFrom(last)` gives the number of the event at each position of
  the three queues, from which the statement about their concatenation follows.
* `OffsetIsSafe`: `Accounted` says that what has left the batch is settled, and
  what is in it is settled or in the request; `RequestInBatch` keeps the two
  together through timeouts and retries.
* `Refinement` (`AtLeastOnce` across a kill) needs `Bounded` too: a restart reads
  behind the offset and not beyond the topic.

`IngestionServerProofs`, for all methods, clients, topics, bundles and calls:

* `OneEvent` and `OneWaiting`: `Life` lists the five stages of a call_data
  object, each with what gRPC owes it and what is in the completion queue;
  `OneStart` and `Claims` tie objects to methods and calls.
* `Replies`: `Messages` says at which place of which sink each message of a call
  is, once, from when an object answers "ok"; `Told` that the client hears what
  an object replied; `Caches` that caches and sinks name each other. The loop
  over a bundle is a recursive function, taken apart round by round with
  `FiniteRecursion`.

`ServiceResolverProofs`, for all calls, channels and answers of any length:

* `OnePlace`: `Place` (a call is on a channel, in `_ios` or answered, at most one
  of them and, unless something was used after its end, at least one) with
  `Channel`, without which a call could be put on a channel that does not exist.
* `WholeAnswers`: a success is whole because of what is under way: `Lookups` (the
  second lookup of `get_sockaddr_by_srv` is made only for a whole SRV answer) and
  `Answers` (what is posted belongs to such a lookup). `ParseFacts` proves of
  `ares_srv_callback` that a result which is neither an error nor empty is the
  whole answer.
* `OrphansOnly`, from `Timeouts`: between `ares_fds` and `ares_timeout`, the channel that was seen
  with a query has it still, or the query is on a replaced one.

`ProxyProofs`, about `Proxy` and `LogSession`, for every stream of bytes, every
buffer size, any requests and bodies of any length:

* `LinesAreFramed`: `Framing` is inductive together with the types, once
  `handle_read` is put into the form "no line end: all is added to the line" or
  "cut at the first line end" (`ReadForm`); the rest is the algebra of joining
  texts and of counting their line ends.
* `RoomToRead`: the room seen when a read is begun must still be there when its
  handler runs. `Waiting` says so: at most one read is under way or queued, and
  what it brought fits.
* `AnsweredAreKept`: `Apart` (as in the client sink) and `SoFar`: the events of a
  request that exist are exactly those before its place in the loop over the
  body, so at the answer it is all of them. The purged ones are a place of their
  own, empty unless the program has the metric sink.
* `FlushedAreOut`: `Flushing` says that nothing is recorded as answered early
  once `run` is cleared and the loop left, and that the sink's call holds one
  event at most. What is neither in the source, in the sink's queue nor in its
  call is at the server or purged.

`ProxyProofs`, about `Conversions`, for texts, label lists, label values and
bodies of any length. The invariant is `Parsed`: what a parser returned is what
its loop computes for its own input. Everything else is about the loops:

* `TextIsParsed`: the three cursor loops are instances of one scheme,
  `CursorLoop`. A round at cursor `c` finds `own[c]` and goes on at `next[c]`,
  which is further on or the end; `Passes` gives the positions the loop comes to
  and, for each, what is to be found before it. The work is in the rounds.
  `TagRound`: the cursor always stands where an even number of colons of its
  field is behind it, so the colons it takes for ends of keys are those of
  `KeyColons`. `LineRound` and `ParseLine`: the cursor stands behind a line end,
  and the parts `parse_line` cuts out are the whole line but spaces.
  `LabelsFound`: the cursor stands at the start of a label, and the piece that
  reaches into the next labels gives the same label (`ParseLabel`), because its
  `=`, its value and its closing quote come first in it; this is where
  `Readable` is needed, and where an empty value is allowed only in the first
  label, whose piece is cut exactly, and in the last. That a `Plain` line's metric
  has a name is `NameOf`.
* `RecordsAreKept`: the object that a loop fills after `n` rounds has a closed
  form (`MetricAfter`, `LabelsAfter`, `SplunkInOrder`), by induction over the
  rounds; what the loops insert is then the statement's sequence, element by
  element (`ChosenInOrder`, `FlattenIsJoin`). `SampleCarries` says what the labels
  of a sample are.

`SequenceFacts` holds the lemmas these share, for any set of elements: what
`Append`, `Tail`, `Reverse`, a cut and a concatenation do to the elements of a
queue, to their positions and to their being distinct; the size of an injective
sequence; the least element of a set of naturals and induction over such sets;
that a loop, as a recursive function of a counter or of a cursor, is defined and
what each round gives; what a loop over cursors finds in all; that `FlattenSeq`
joins its sequences one after the other, and where each then stands. Induction is
stated there for *sets* of naturals, since no installed prover instantiates an
operator parameter.

Each inductive invariant was model-checked on the instance of its run before it
was proved. The assumptions are those of the modules that declare the constants,
such as positive batch and buffer sizes, and TLC evaluates them on every run.

Only model-checked: the liveness properties, since fairness and ENABLED are
outside the prover's reach. `FeedApplied`, `EventuallyStored`,
`EventuallyAccepted`, `EventuallyCommitted`, `EveryCallEnds`, `CallsEnd`,
`InsertedIsDelivered` say that what was begun comes to its end;
`DestructorReturns`, `FlushEnds`, `CloseReturns`, `DestroyEndsCalls`,
`SessionEnds`, `MainEnds` that a shutdown does. Every invariant of a passing run
and both refinements are proved.

## Findings

* `authorizer_index`: the visitor erases the index entry under the wrong key
  (`SU/grpc_topic_authorizer.cpp:161`), so it stays, and the error that "should
  never happen" does. What such an entry can and cannot lead to is in
  `GrantsAreCurrent`, above.
* `authorizer_reporter`: the initializer list starts both threads while `run_`
  is false (`:22`, `:27`).
* `kafka_sink_destroy`: the destructor drains the queue before it joins the
  background thread (`SRV/bb_kafka_sink.h:55`).
* `ingestion_server_stop`: `run` is read only between events (`SRV/main.cpp:101`).

## Not modelled

Streaming calls (switched off in `main.cpp`), generated avro types, third-party
md5, wrappers of zlib and snappy, gRPC headers and channel settings, command
lines (beyond `start_offset`, `max_exported_age` and the proxies' early returns), and the gauges and counters
pushed to the pushgateway. The avro variants of the parsers and `display_rr` of
the resolver are called by nothing. The PostgreSQL worker is used by no program.
The Elasticsearch sink is the prometheus sink's loop with another request, and
`grpc_db_streamer` is a single-threaded reader over an external call; both are
in the plan. Conversions of
fields between protobuf and avro are left out of the server, where no property
depends on them. The sink in `prometheus_sink.cpp` is used by no program. The
comment "this will loose messages at retry" on the pop in `prometheus_sink2.cpp`
is out of date: `FifoThroughSink` and `CommittedAreSettled` show that a retry
loses nothing.

Hazards that no property covers, because the code does what a property would
exclude and nothing in the repository says what should happen. They are in the
models, and the properties beside them name them as their exceptions:

* a message that librdkafka refuses for good holds up the sink
  (`SRV/bb_kafka_sink.h:183`, excepted in `EventuallyStored`);
* messages acknowledged but still queued are lost when the server ends
  (`SRV/main.cpp:101`);
* the server's destructor waits for ever for calls that the loop left unserved
  (`SRV/main.cpp:56-60`; the comment at `:101` asks "what about pending calls";
  excepted in `EveryCallEnds`);
* the write proxy joins a thread that nothing stops, and the dd-metrics, splunk
  and pushgateway proxies end in `std::terminate`, since they never join theirs
  (excepted in, or an end for, `MainEnds`);
* after SIGTERM the front ends go on accepting what nobody forwards
  (`dd-log main.cpp:29`; `InsertedIsDelivered` and `FlushedIsOut` speak of what
  came before);
* the resolver's `close` never returns after a failed initialisation
  (`SU/service_resolver.cpp:533`, excepted in `CloseReturns`), and an SRV answer
  posted before its destruction is handled after it (`:463`, excepted in
  `DestroyEndsCalls`).

Nor does a property speak of these: a failed batch is sent again in reverse order
(`CU/bb_metric_sink.cpp:110`); the pushgateway proxy accepts a DELETE and never answers it (`main.cpp:77`); a
resolver's waiting call made on the thread of `_ios` waits for itself
(`SU/service_resolver.cpp:402`). No program reaches the destructors of
`prometheus_sink2` (`:52`) and of the PostgreSQL worker (`SU/pg_worker.cpp:23`),
which join threads that may have work.

## Plan

Done: the ingestion path (authorizer, Kafka sink, client sinks, server and
factory), the promstore exporter, the five proxies with their parsers, and the
service resolver; proofs of every safety property of these. Next, in this order:

1. what the end of the process can lose, as an invariant of the Kafka sink and
   the server together, and its proof;
2. the Elasticsearch and console exporters, `grpc_db_streamer`;
3. the pipeline: client sink, server and Kafka sink composed, with the
   end-to-end statement about what a crash can lose;
4. the PostgreSQL worker.
